------------------------------ MODULE YgmComm ------------------------------
(***************************************************************************)
(* comm::impl as a whole (include/ygm/detail/comm_impl.hpp): the main      *)
(* threads of YgmBarrier on the transport of YgmTransport, from the        *)
(* constructor to the end of the destructor.  A main thread is at the      *)
(* level of the program or of barrier(), or deeper in activations of       *)
(* receive_queue_process(), each with the buffer it is working through; a  *)
(* handler's own async() may start one more activation.                    *)
(*                                                                         *)
(* The last of the MaxEpoch barriers is that of ~impl.                     *)
(***************************************************************************)
EXTENDS YgmBarrier, SequencesExt

CONSTANTS Cap, ChanCap

ASSUME TransportAssumption == /\ Rank = 0 .. Cardinality(Rank) - 1
                              /\ Cap \in Nat \ {0} /\ ChanCap \in Nat \ {0}

VARIABLES sendBuf, body, chan, listener, queue,
          big,   \* the calls whose packed size reaches the buffer capacity
          act,   \* act[r]: activations of receive_queue_process, innermost first
          wli,   \* position in wait_local_idle(): its first or a later
                 \* receive_queue_process(), its flush, or "out" of it
          life   \* the communicator of r: up, or how far its destructor is

INSTANCE YgmTransport

wireVars == <<sendBuf, body, chan, listener, queue>>
commVars == <<vars, wireVars, big, act, wli, life>>

Life == {"up", "world", "barrier", "join", "sync", "freed"}

CommInit == /\ Init /\ TransInit
            /\ big = {}
            /\ act = [r \in Rank |-> <<>>]
            /\ wli = [r \in Rank |-> "out"]
            /\ life = [r \in Rank |-> "up"]

\* receive_queue_process() has just been called.
Activation == [buf |-> <<>>, received |-> FALSE]
Buf(r)     == act[r][1].buf

(* Code of the program runs and may call async(): a handler when there is
   one to run, else the main program before it destroys the communicator.  *)
InHandler(r) == act[r] # <<>> /\ Len(stack[r]) = Len(act[r])
InProgram(r) == act[r] = <<>> /\ pc[r] = "app" /\ life[r] = "up"
UserCode(r)  == body[r] = <<>> /\ (InHandler(r) \/ InProgram(r))
-----------------------------------------------------------------------------
CallSmall(r, d) == /\ UserCode(r)
                   /\ Async(r, d)
                   /\ PutSmall(NewCall(r, d))
                   /\ UNCHANGED <<big, act, wli, life>>

CallLarge(r, d) == /\ UserCode(r)
                   /\ Async(r, d)
                   /\ Announce(NewCall(r, d))
                   /\ big' = big \cup {NewCall(r, d)}
                   /\ UNCHANGED <<act, wli, life>>

FinishLarge(r) == SendBody(r) /\ UNCHANGED <<vars, big, act, wli, life>>

(* The program flushes a buffer itself: async_flush(d), or async_flush_all() as
   several of these.                                                       *)
CallFlush(r, d) == /\ UserCode(r)
                   /\ AsyncFlush(r, d)
                   /\ UNCHANGED <<vars, big, act, wli, life>>

(* The end of an async(), to any rank or to the caller's own: the queue's
   size is read without the lock, so what it shows is any value it has had
   or none; a call that then finds the queue empty changes nothing.        *)
Peek(r) == /\ UserCode(r) /\ queue[r] # <<>>
           /\ act' = [act EXCEPT ![r] = <<Activation>> \o @]
           /\ UNCHANGED <<vars, wireVars, big, wli, life>>

TakeBuffer(r) == /\ act[r] # <<>> /\ Buf(r) = <<>>
                 /\ Pop(r)
                 /\ act' = [act EXCEPT ![r][1] = [buf |-> Head(queue[r]), received |-> TRUE]]
                 /\ UNCHANGED <<vars, big, wli, life>>

\* Fault: wait_local_idle() returns after its first flush.
Drained_OneRound(r) ==
  /\ act[r] # <<>> /\ Buf(r) = <<>> /\ queue[r] = <<>>
  /\ act' = [act EXCEPT ![r] = Tail(@)]
  /\ wli' = [wli EXCEPT ![r] = IF Len(act[r]) > 1 \/ @ = "out" THEN @
                               ELSE IF @ = "first" THEN "flush" ELSE "out"]
  /\ UNCHANGED <<vars, wireVars, big, life>>

\* The queue is empty: return to async() or to wait_local_idle().
Drained(r) ==
  /\ act[r] # <<>> /\ Buf(r) = <<>> /\ queue[r] = <<>>
  /\ act' = [act EXCEPT ![r] = Tail(@)]
  /\ wli' = [wli EXCEPT ![r] = IF Len(act[r]) > 1 \/ @ = "out" THEN @
                               ELSE IF @ = "first" \/ act[r][1].received
                                    THEN "flush" ELSE "out"]
  /\ UNCHANGED <<vars, wireVars, big, life>>

StartHandler(r) == /\ act[r] # <<>> /\ Buf(r) # <<>> /\ ~InHandler(r)
                   /\ Begin(Head(Buf(r)))
                   /\ UNCHANGED <<wireVars, big, act, wli, life>>

\* Fault: the call stays in the buffer when its handler has returned.
HandlerReturns_KeepsCall(r) == /\ InHandler(r) /\ body[r] = <<>>
                               /\ End(r)
                               /\ UNCHANGED <<wireVars, big, act, wli, life>>

HandlerReturns(r) == /\ InHandler(r) /\ body[r] = <<>>
                     /\ End(r)
                     /\ act' = [act EXCEPT ![r][1].buf = Tail(@)]
                     /\ UNCHANGED <<wireVars, big, wli, life>>
-----------------------------------------------------------------------------
StartIdle(r) == /\ wli' = [wli EXCEPT ![r] = "first"]
                /\ act' = [act EXCEPT ![r] = <<Activation>>]

Flush(r) == /\ wli[r] = "flush"
            /\ \/ FlushNext(r) /\ UNCHANGED <<act, wli>>
               \/ /\ Unsent(r) = {} /\ UNCHANGED wireVars
                  /\ wli' = [wli EXCEPT ![r] = "again"]
                  /\ act' = [act EXCEPT ![r] = <<Activation>>]
            /\ UNCHANGED <<vars, big, life>>

Barrier(r) == /\ InProgram(r) /\ body[r] = <<>> /\ epoch[r] < MaxEpoch - 1
              /\ Enter(r) /\ StartIdle(r)
              /\ UNCHANGED <<wireVars, big, life>>

\* In barrier() and not in wait_local_idle().
Idle(r) == wli[r] = "out" /\ act[r] = <<>>

(* MPI_Test has not seen the first reduction complete - it may have by now:
   wait_local_idle() again, which does nothing when the queue is empty.    *)
Poll(r) == /\ pc[r] = "wait1" /\ Idle(r) /\ queue[r] # <<>>
           /\ StartIdle(r)
           /\ UNCHANGED <<vars, wireVars, big, life>>

Reduce(r) == /\ Idle(r)
             /\ \/ (First(r) \/ Second(r) \/ Leave(r) \/ Throw(r)) /\ UNCHANGED <<act, wli>>
                \/ Restart(r) /\ StartIdle(r)
             /\ UNCHANGED <<wireVars, big, life>>
-----------------------------------------------------------------------------
(* The destructor of comm: MPI_Barrier(MPI_COMM_WORLD), then ~impl with its
   barrier(), the kill message, the join, MPI_Barrier(m_comm_async).       *)
Destroy(r) == /\ InProgram(r) /\ body[r] = <<>> /\ epoch[r] = MaxEpoch - 1
              /\ life' = [life EXCEPT ![r] = "world"]
              /\ UNCHANGED <<vars, wireVars, big, act, wli>>

\* Fault: ~impl stops the listener without a barrier.
LastBarrier_Skipped(r) == /\ life[r] = "world" /\ \A s \in Rank : life[s] # "up"
                          /\ life' = [life EXCEPT ![r] = "barrier"]
                          /\ UNCHANGED <<vars, wireVars, big, act, wli>>

LastBarrier(r) == /\ life[r] = "world" /\ \A s \in Rank : life[s] # "up"
                  /\ life' = [life EXCEPT ![r] = "barrier"]
                  /\ Enter(r) /\ StartIdle(r)
                  /\ UNCHANGED <<wireVars, big>>

Kill(r) == /\ life[r] = "barrier" /\ pc[r] = "app"
           /\ SendKill(r)
           /\ life' = [life EXCEPT ![r] = "join"]
           /\ UNCHANGED <<vars, big, act, wli>>

Join(r) == /\ life[r] = "join" /\ listener[r] = Off
           /\ life' = [life EXCEPT ![r] = "sync"]
           /\ UNCHANGED <<vars, wireVars, big, act, wli>>

Free(r) == /\ life[r] = "sync" /\ \A s \in Rank : life[s] \in {"sync", "freed"}
           /\ life' = [life EXCEPT ![r] = "freed"]
           /\ UNCHANGED <<vars, wireVars, big, act, wli>>

Ended == /\ \/ \A r \in Rank : life[r] = "freed"
            \/ \E r \in Rank : pc[r] = "thrown"
         /\ UNCHANGED commVars
-----------------------------------------------------------------------------
\* The main thread's own progress: all but what the program decides.
Progress(r) == \/ FinishLarge(r)
               \/ TakeBuffer(r) \/ Drained(r) \/ StartHandler(r) \/ HandlerReturns(r)
               \/ Flush(r) \/ Reduce(r)
               \/ LastBarrier(r) \/ Kill(r) \/ Join(r) \/ Free(r)

Program(r) == \/ \E d \in Rank \ {r} : CallSmall(r, d) \/ CallLarge(r, d) \/ CallFlush(r, d)
              \/ Peek(r) \/ Poll(r)
              \/ Barrier(r) \/ Destroy(r)

Listener(r) == Listen(r) /\ UNCHANGED <<vars, big, act, wli, life>>

CommNext == (\E r \in Rank : Progress(r) \/ Program(r) \/ Listener(r)) \/ Ended

(* The threads of every rank keep running and the polling loop of barrier()
   keeps polling.  MPI_ANY_SOURCE may favour a sender, and nothing obliges
   the program to call async(), barrier() or the destructor.               *)
CommFairness == \A r \in Rank : /\ WF_commVars(Progress(r))
                                /\ WF_commVars(Poll(r))
                                /\ WF_commVars(Listener(r))

CommSpec     == CommInit /\ [][CommNext]_commVars
CommFairSpec == CommSpec /\ CommFairness
-----------------------------------------------------------------------------
(* Where the calls from s to d whose handlers have not returned can be, in
   five stretches of buffers each: those d is working through (outermost
   activation first), its queue, MPI, the hands of s, its send buffer.     *)
Coming(s, d) == body[s] # <<>> /\ Head(body[s]).dst = d
Way(s, d) ==
  << [k \in DOMAIN act[d] |-> act[d][Len(act[d]) + 1 - k].buf],
     queue[d],
     [i \in DOMAIN chan[s][d] |-> chan[s][d][i].calls],
     << IF Coming(s, d) THEN body[s] ELSE <<>> >>,
     << sendBuf[s][d] >> >>

\* Places are triples: stretch, buffer, position; Places are those of calls from s.
At(W, p) == W[p[1]][p[2]][p[3]]
Places(W, s) ==
  {p \in UNION {UNION {{t} \X {i} \X DOMAIN W[t][i] : i \in DOMAIN W[t]} : t \in 1 .. 5} :
     At(W, p).src = s}
Before(p, q) == \/ p[1] < q[1]
                \/ p[1] = q[1] /\ p[2] < q[2]
                \/ p[1] = q[1] /\ p[2] = q[2] /\ p[3] < q[3]

(* Calls are neither lost nor duplicated between async() (57-85), the
   buffers, the two kinds of message, the queue and the loop of
   receive_queue_process() (515-539): every call that is pending is at
   exactly one place on the way from its source to its destination, and a
   send buffer never holds more than MPI_Recv (358) makes room for.        *)
ExactlyOnce ==
  \A s, d \in Rank : s # d =>
     LET W == Way(s, d)
     IN  /\ \A p, q \in Places(W, s) : At(W, p) = At(W, q) => p = q
         /\ {At(W, p) : p \in Places(W, s)} = {c \in issued \ executed : c.src = s /\ c.dst = d}
         /\ Len(sendBuf[s][d]) <= Cap
         /\ \A i \in DOMAIN chan[s][d] : Len(chan[s][d][i].calls) <= Cap

(* Calls of one rank to another that fit in a buffer are taken in the order
   they were made, except that a handler's own async() may run later ones
   before the rest of the buffer it was called from (82-84): a later one has
   been run before an earlier one only if that one is in such a buffer.    *)
OrderUnlessNested ==
  \A s, d \in Rank : s # d =>
     LET W     == Way(s, d)
         Small == {p \in Places(W, s) : At(W, p) \notin big}
     IN  /\ \A p, q \in Small : Before(p, q) => At(W, p).id < At(W, q).id
         /\ \A c \in executed \ big : \A p \in Small :
              c.src = s /\ c.dst = d /\ At(W, p).id < c.id => p[1] = 1

(* A rank that has contributed to a reduction and is not processing calls
   holds nothing back: wait_local_idle() (137-143) has emptied its buffers,
   those filled by the last handlers included.                             *)
NothingHeldBack ==
  \A r \in Rank : pc[r] \in Waiting /\ Idle(r) => Unsent(r) = {} /\ body[r] = <<>>

(* The body of a large message is received only by the receive that its
   announcement led to (362-374), never by the one for any tag (358), whose
   room is that of a small message.                                        *)
BodyMatched ==
  \A d \in Rank :
     /\ listener[d] = AnySource =>
          \A s \in Rank : chan[s][d] # <<>> => Head(chan[s][d]).tag # "body"
     /\ \A s \in Rank : listener[d] = s =>
          \/ chan[s][d] # <<>> /\ Head(chan[s][d]).tag = "body"
          \/ chan[s][d] = <<>> /\ Coming(s, d)

(* The kill message (43, 384) ends a listener only when nothing will ever
   come for it: no call to its rank is pending, no message on its way.     *)
CleanShutdown ==
  \A r \in Rank : listener[r] = Off =>
     /\ \A s \in Rank : chan[s][r] = <<>>
     /\ queue[r] = <<>> /\ act[r] = <<>>
     /\ \A c \in issued \ executed : c.dst # r

(* Once every rank has begun to destroy its communicator, every rank gets to
   free it, unless the assertion of the last barrier stops the program.    *)
ShutdownCompletes ==
  (\A r \in Rank : life[r] # "up")
     ~> (\A r \in Rank : life[r] = "freed") \/ (\E r \in Rank : pc[r] = "thrown")
-----------------------------------------------------------------------------
(* The inductive invariant behind the five properties above.               *)
Message == [tag : {"data", "announce", "body", "kill"}, calls : Seq(Call)]

CommTypeOK ==
  /\ sendBuf \in [Rank -> [Rank -> Seq(Call)]] /\ body \in [Rank -> Seq(Call)]
  /\ chan \in [Rank -> [Rank -> Seq(Message)]]
  /\ listener \in [Rank -> Rank \cup {AnySource, Off}]
  /\ queue \in [Rank -> Seq(Seq(Call))]
  /\ big \subseteq Call
  /\ act \in [Rank -> Seq([buf : Seq(Call), received : BOOLEAN])]
  /\ wli \in [Rank -> {"first", "flush", "again", "out"}]
  /\ life \in [Rank -> Life]

\* Calls lie where they are on their way to their destination.
Between(calls, s, d) == \A i \in DOMAIN calls : calls[i].src = s /\ calls[i].dst = d

AddressInv ==
  /\ \A s, d \in Rank : /\ Between(sendBuf[s][d], s, d) /\ Len(sendBuf[s][d]) <= Cap
                        /\ \A i \in DOMAIN chan[s][d] : Between(chan[s][d][i].calls, s, d)
  /\ \A r \in Rank : /\ sendBuf[r][r] = <<>>
                     /\ body[r] # <<>> => /\ Len(body[r]) = 1
                                          /\ Head(body[r]).src = r /\ Head(body[r]).dst # r
                     /\ \A i \in DOMAIN queue[r] :
                          /\ queue[r][i] # <<>>
                          /\ \A j \in DOMAIN queue[r][i] :
                               queue[r][i][j].dst = r /\ queue[r][i][j].src # r
                     /\ \A a \in DOMAIN act[r] :
                          \A j \in DOMAIN act[r][a].buf : act[r][a].buf[j].dst = r

(* The messages C on their way between two ranks: an announcement is followed
   by its body, which may be coming still, and no body is the next to be
   received unless it is awaited.                                          *)
InOrder(C, coming, awaited) ==
  /\ \A i \in DOMAIN C :
       /\ C[i].tag # "kill" /\ Len(C[i].calls) <= Cap
       /\ C[i].tag = "announce" <=> C[i].calls = <<>>
       /\ C[i].tag = "announce" => IF i = Len(C) THEN coming ELSE C[i + 1].tag = "body"
       /\ C[i].tag = "body" => IF i = 1 THEN awaited ELSE C[i - 1].tag = "announce"
  /\ coming => IF C = <<>> THEN awaited ELSE C[Len(C)].tag = "announce"
  /\ awaited => IF C = <<>> THEN coming ELSE C[1].tag = "body"

\* A rank sends itself nothing but one kill message, at the end.
MessageInv ==
  /\ \A s, d \in Rank : s # d => InOrder(chan[s][d], Coming(s, d), listener[d] = s)
  /\ \A r \in Rank :
       /\ chan[r][r] = <<>> \/ chan[r][r] = <<Msg("kill", <<>>)>>
       /\ chan[r][r] # <<>> \/ listener[r] = Off => life[r] \in {"join", "sync", "freed"}
       /\ listener[r] = Off => chan[r][r] = <<>>
       /\ listener[r] # r

(* The handlers that run are those of the first calls in the buffers, one for
   each activation but perhaps the innermost.                              *)
HandlerInv ==
  \A r \in Rank :
    LET idle == Len(act[r]) - Len(stack[r])
    IN  /\ idle \in {0, 1}
        /\ \A i \in DOMAIN stack[r] : /\ act[r][i + idle].buf # <<>>
                                      /\ stack[r][i] = Head(act[r][i + idle].buf)
        /\ \A a \in DOMAIN act[r] : act[r][a].buf # <<>> => act[r][a].received
        /\ body[r] # <<>> => InHandler(r) \/ InProgram(r)

(* Where the main thread is, and that it leaves wait_local_idle() with empty
   send buffers.                                                           *)
PlaceInv ==
  \A r \in Rank :
    /\ wli[r] # "out" => pc[r] \in {"idle", "wait1"} /\ (wli[r] = "flush" <=> act[r] = <<>>)
    /\ wli[r] = "out" /\ pc[r] # "app" => act[r] = <<>> /\ Unsent(r) = {}
    /\ wli[r] = "again" /\ ~act[r][Len(act[r])].received => Unsent(r) = {}
    /\ life[r] # "up" => pc[r] # "app" \/ (act[r] = <<>> /\ stack[r] = <<>>)
    /\ life[r] = "world" => pc[r] = "app" /\ epoch[r] = MaxEpoch - 1
    /\ life[r] = "barrier" => epoch[r] = IF pc[r] = "app" THEN MaxEpoch ELSE MaxEpoch - 1
    /\ life[r] \in {"join", "sync", "freed"} => pc[r] = "app" /\ epoch[r] = MaxEpoch

CommInv == /\ CommTypeOK /\ AddressInv /\ MessageInv /\ HandlerInv /\ PlaceInv
           /\ ExactlyOnce /\ OrderUnlessNested
           /\ \A c \in issued : c.epoch < MaxEpoch
=============================================================================
