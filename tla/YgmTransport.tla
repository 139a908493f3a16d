---------------------------- MODULE YgmTransport ----------------------------
(***************************************************************************)
(* How comm::impl carries a call from one rank to another: one send buffer *)
(* per destination, the MPI messages on m_comm_async, the listener thread  *)
(* that receives them, and the queue from which the main thread takes      *)
(* them (include/ygm/detail/comm_impl.hpp).                                *)
(***************************************************************************)
EXTENDS Integers, Sequences, SequencesExt

CONSTANTS Rank,     \* the processes of the communicator: 0 .. N-1
          Cap,      \* m_buffer_capacity, in small messages
          ChanCap   \* messages MPI buffers from one rank to another

VARIABLES sendBuf,  \* m_vec_send_buffers: sendBuf[r][d], calls to be sent to d
          body,     \* body[r]: large call announced and not sent yet, or <<>>
          chan,     \* chan[s][d]: MPI messages from s to d, oldest first
          listener, \* what d's listener thread waits for
          queue     \* m_receive_queue: buffers received and not processed

transVars == <<sendBuf, body, chan, listener, queue>>

(* listener[d] is AnySource (any message of any rank), a rank (the body of
   the large message that rank announced) or Off (the thread is over).     *)
AnySource == -1
Off       == -2

TransInit == /\ sendBuf = [r \in Rank |-> [d \in Rank |-> <<>>]]
             /\ body = [r \in Rank |-> <<>>]
             /\ chan = [r \in Rank |-> [d \in Rank |-> <<>>]]
             /\ listener = [r \in Rank |-> AnySource]
             /\ queue = [r \in Rank |-> <<>>]

Msg(tag, calls) == [tag |-> tag, calls |-> calls]

\* MPI_Send returns once MPI has taken the message.
CanSend(s, d)  == Len(chan[s][d]) < ChanCap
Sent(s, d, m)  == [chan EXCEPT ![s][d] = Append(@, m)]
-----------------------------------------------------------------------------
(* A packed call smaller than the capacity is appended to the destination's
   buffer, which is sent first when the call does not fit.                 *)
PutSmall(c) ==
  LET s == c.src
      d == c.dst
      old == sendBuf[s][d]
  IN  /\ UNCHANGED <<body, listener, queue>>
      /\ \/ /\ Len(old) + 1 <= Cap
            /\ sendBuf' = [sendBuf EXCEPT ![s][d] = Append(old, c)]
            /\ UNCHANGED chan
         \/ /\ Len(old) + 1 > Cap /\ CanSend(s, d)
            /\ chan' = Sent(s, d, Msg("data", old))
            /\ sendBuf' = [sendBuf EXCEPT ![s][d] = <<c>>]

\* A larger one is announced at once, bypassing the buffer, ...
Announce(c) == /\ CanSend(c.src, c.dst)
               /\ chan' = Sent(c.src, c.dst, Msg("announce", <<>>))
               /\ body' = [body EXCEPT ![c.src] = <<c>>]
               /\ UNCHANGED <<sendBuf, listener, queue>>

\* ... and then sent.
SendBody(r) == /\ body[r] # <<>>
               /\ LET d == Head(body[r]).dst
                  IN  /\ CanSend(r, d)
                      /\ chan' = Sent(r, d, Msg("body", body[r]))
               /\ body' = [body EXCEPT ![r] = <<>>]
               /\ UNCHANGED <<sendBuf, listener, queue>>

Unsent(r) == {d \in Rank : sendBuf[r][d] # <<>>}

\* Fault: the buffer is sent without being swapped for an empty one.
AsyncFlush_KeepsBuffer(r, d) == /\ d \in Unsent(r) /\ CanSend(r, d)
                                /\ chan' = Sent(r, d, Msg("data", sendBuf[r][d]))
                                /\ UNCHANGED <<sendBuf, body, listener, queue>>

\* async_flush() of a buffer that is not empty.
AsyncFlush(r, d) == /\ d \in Unsent(r) /\ CanSend(r, d)
                    /\ chan' = Sent(r, d, Msg("data", sendBuf[r][d]))
                    /\ sendBuf' = [sendBuf EXCEPT ![r][d] = <<>>]
                    /\ UNCHANGED <<body, listener, queue>>

(* async_flush_all() visits the destinations starting from the rank itself;
   buffers do not fill meanwhile, so its next MPI_Send is to the first
   destination in that order whose buffer is not empty.                    *)
Distance(r, d) == (d + Cardinality(Rank) - r) % Cardinality(Rank)
FlushNext(r) == \E d \in Unsent(r) :
                  /\ \A e \in Unsent(r) : Distance(r, d) <= Distance(r, e)
                  /\ AsyncFlush(r, d)

\* The destructor's message from a rank to itself that ends its listener.
SendKill(r) == /\ CanSend(r, r)
               /\ chan' = Sent(r, r, Msg("kill", <<>>))
               /\ UNCHANGED <<sendBuf, body, listener, queue>>
-----------------------------------------------------------------------------
\* Fault: the listener goes back to any message after an announcement.
ReceiveAny_IgnoresAnnounce(d, s) ==
  /\ listener[d] = AnySource /\ chan[s][d] # <<>>
  /\ chan' = [chan EXCEPT ![s][d] = Tail(@)]
  /\ LET m == Head(chan[s][d])
     IN  \/ m.tag = "announce" /\ UNCHANGED <<listener, queue>>
         \/ /\ m.tag # "announce" /\ s = d
            /\ listener' = [listener EXCEPT ![d] = Off] /\ UNCHANGED queue
         \/ /\ m.tag # "announce" /\ s # d
            /\ queue' = [queue EXCEPT ![d] = Append(@, m.calls)]
            /\ UNCHANGED listener
  /\ UNCHANGED <<sendBuf, body>>

\* Fault: received buffers are queued last in, first out.
ReceiveAny_PushFront(d, s) ==
  /\ listener[d] = AnySource /\ chan[s][d] # <<>>
  /\ chan' = [chan EXCEPT ![s][d] = Tail(@)]
  /\ LET m == Head(chan[s][d])
     IN  \/ /\ m.tag = "announce"
            /\ listener' = [listener EXCEPT ![d] = s] /\ UNCHANGED queue
         \/ /\ m.tag # "announce" /\ s = d
            /\ listener' = [listener EXCEPT ![d] = Off] /\ UNCHANGED queue
         \/ /\ m.tag # "announce" /\ s # d
            /\ queue' = [queue EXCEPT ![d] = <<m.calls>> \o @]
            /\ UNCHANGED listener
  /\ UNCHANGED <<sendBuf, body>>

(* The listener takes the oldest message of any sender: the announcement of
   a large message, the kill message (the only one from the rank itself) or
   a buffer of calls.                                                      *)
ReceiveAny(d, s) ==
  /\ listener[d] = AnySource /\ chan[s][d] # <<>>
  /\ chan' = [chan EXCEPT ![s][d] = Tail(@)]
  /\ LET m == Head(chan[s][d])
     IN  \/ /\ m.tag = "announce"
            /\ listener' = [listener EXCEPT ![d] = s] /\ UNCHANGED queue
         \/ /\ m.tag # "announce" /\ s = d
            /\ listener' = [listener EXCEPT ![d] = Off] /\ UNCHANGED queue
         \/ /\ m.tag # "announce" /\ s # d
            /\ queue' = [queue EXCEPT ![d] = Append(@, m.calls)]
            /\ UNCHANGED listener
  /\ UNCHANGED <<sendBuf, body>>

\* The body of an announced message: the oldest of that sender and tag.
ReceiveBody(d) ==
  LET s == listener[d]
  IN  /\ s \in Rank
      /\ \E i \in DOMAIN chan[s][d] :
           /\ chan[s][d][i].tag = "body"
           /\ \A j \in 1 .. i - 1 : chan[s][d][j].tag # "body"
           /\ chan' = [chan EXCEPT ![s][d] = RemoveAt(@, i)]
           /\ queue' = [queue EXCEPT ![d] = Append(@, chan[s][d][i].calls)]
      /\ listener' = [listener EXCEPT ![d] = AnySource]
      /\ UNCHANGED <<sendBuf, body>>

Listen(d) == (\E s \in Rank : ReceiveAny(d, s)) \/ ReceiveBody(d)

\* receive_queue_try_pop() on a queue that is not empty.
Pop(r) == /\ queue[r] # <<>>
          /\ queue' = [queue EXCEPT ![r] = Tail(@)]
          /\ UNCHANGED <<sendBuf, body, chan, listener>>
=============================================================================
