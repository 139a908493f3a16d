----------------------------- MODULE YgmArchive -----------------------------
(***************************************************************************)
(* How a call becomes bytes and a buffer of bytes becomes calls again:     *)
(* pack_lambda() and the loop of receive_queue_process() (include/ygm/     *)
(* detail/comm_impl.hpp), the binary archives they use (detail/            *)
(* ygm_cereal_archive.hpp) and the functions for JSON arguments (detail/   *)
(* cereal_boost_json.hpp).  Nothing in a stream says where a datum or a    *)
(* call ends: the reader knows only from what it has read so far.          *)
(*                                                                         *)
(* A stream is a sequence of data with their numbers of bytes; a read of   *)
(* another number of bytes, or past the end, gets Garbage.                 *)
(***************************************************************************)
EXTENDS Integers, Sequences, SequencesExt

CONSTANTS Params,    \* Params[f]: what the arguments of lambda f are, in order
          Args,      \* Args[f]: bound: the lists of arguments it is called with
          MaxPacked  \* bound: calls in a buffer

ASSUME ArchiveAssumption == DOMAIN Params = DOMAIN Args /\ MaxPacked \in Nat

VARIABLES packed,   \* the calls packed into the buffer (history)
          stream,   \* the buffer
          sent,     \* it is at the receiver
          pos,      \* m_position of the input archive
          reading,  \* the call being read, if any: its lambda, its arguments so far
          unpacked  \* the calls that have been run (history)

archiveVars == <<packed, stream, sent, pos, reading, unpacked>>

Garbage == -1

\* The kinds of a JSON value, as they are numbered in a stream.
Kind == [null |-> 0, bool |-> 1, int64 |-> 2, uint64 |-> 3,
         double |-> 4, string |-> 5, array |-> 6, object |-> 7]

(* A JSON value has a kind and data: a number (null's is 0), the characters
   of a string, the values of an array, the pairs of key and value of an
   object.                                                                 *)
Json(kind, data) == [kind |-> kind, data |-> data]

\* saveBinary(): no bytes leave no trace.
SaveBinary(x, width) == IF width = 0 THEN <<>> ELSE <<[datum |-> x, width |-> width]>>

SaveSize(x) == SaveBinary(Len(x), 8)

(* loadBinary() at position p.  Like all loads it gives what it has read and
   the position after it.                                                  *)
LoadBinary(s, p, width, otherwise) ==
  IF width = 0 THEN <<otherwise, p>>
  ELSE IF p < Len(s) /\ s[p + 1].width = width THEN <<s[p + 1].datum, p + 1>>
  ELSE <<otherwise, p + 1>>

LoadNumber(s, p, width) == LoadBinary(s, p, width, Garbage)

SaveString(x) == SaveSize(x) \o SaveBinary(x, Len(x))

LoadString(s, p) == LET n == LoadNumber(s, p, 8)
                    IN  LoadBinary(s, n[2], n[1], IF n[1] = 0 THEN <<>> ELSE <<Garbage>>)
-----------------------------------------------------------------------------
RECURSIVE SaveValue(_)
SaveArray(x)  == SaveSize(x) \o FlattenSeq([i \in DOMAIN x |-> SaveValue(x[i])])
SaveObject(x) == SaveSize(x) \o FlattenSeq([i \in DOMAIN x |->
                                              SaveString(x[i][1]) \o SaveValue(x[i][2])])

\* Fault: an empty string leaves nothing but its kind in the stream.
SaveData_NoSizeIfEmpty(k, x) ==
  CASE k = Kind.null   -> <<>>
    [] k = Kind.bool   -> SaveBinary(x, 1)
    [] k \in {Kind.int64, Kind.uint64, Kind.double} -> SaveBinary(x, 8)
    [] k = Kind.string -> IF x = <<>> THEN <<>> ELSE SaveString(x)
    [] k = Kind.array  -> SaveArray(x)
    [] k = Kind.object -> SaveObject(x)

SaveData(k, x) ==
  CASE k = Kind.null   -> <<>>
    [] k = Kind.bool   -> SaveBinary(x, 1)
    [] k \in {Kind.int64, Kind.uint64, Kind.double} -> SaveBinary(x, 8)
    [] k = Kind.string -> SaveString(x)
    [] k = Kind.array  -> SaveArray(x)
    [] k = Kind.object -> SaveObject(x)

SaveValue(v) == SaveBinary(v.kind, 1) \o SaveData(v.kind, v.data)
-----------------------------------------------------------------------------
\* n loads, each from where the one before it ended.
LoadMany(Load(_), p, n) ==
  FoldLeftDomain(LAMBDA done, i : LET x == Load(done[2]) IN <<Append(done[1], x[1]), x[2]>>,
                 << <<>>, p >>, [i \in 1 .. n |-> i])

RECURSIVE LoadValue(_, _)
LoadArray(s, p) == LET n == LoadNumber(s, p, 8)
                   IN  LoadMany(LAMBDA q : LoadValue(s, q), n[2], n[1])

LoadPair(s, p) == LET key == LoadString(s, p)
                      v   == LoadValue(s, key[2])
                  IN  << <<key[1], v[1]>>, v[2]>>

LoadObject(s, p) == LET n == LoadNumber(s, p, 8)
                    IN  LoadMany(LAMBDA q : LoadPair(s, q), n[2], n[1])

\* Fault: a null value is read like a number.
LoadData_NullHasData(k, s, p) ==
  CASE k = Kind.bool   -> LoadNumber(s, p, 1)
    [] k \in {Kind.null, Kind.int64, Kind.uint64, Kind.double} -> LoadNumber(s, p, 8)
    [] k = Kind.string -> LoadString(s, p)
    [] k = Kind.array  -> LoadArray(s, p)
    [] k = Kind.object -> LoadObject(s, p)
    [] OTHER           -> <<Garbage, p>>

LoadData(k, s, p) ==
  CASE k = Kind.null   -> <<0, p>>
    [] k = Kind.bool   -> LoadNumber(s, p, 1)
    [] k \in {Kind.int64, Kind.uint64, Kind.double} -> LoadNumber(s, p, 8)
    [] k = Kind.string -> LoadString(s, p)
    [] k = Kind.array  -> LoadArray(s, p)
    [] k = Kind.object -> LoadObject(s, p)
    [] OTHER           -> <<Garbage, p>>

LoadValue(s, p) ==
  LET k == LoadNumber(s, p, 1)
      x == LoadData(k[1], s, k[2])
  IN  <<Json(k[1], x[1]), x[2]>>
-----------------------------------------------------------------------------
\* An argument is a ygm_ptr, of which the index travels, or a JSON value.
SaveArg(type, x)    == IF type = "ptr" THEN SaveBinary(x, 4) ELSE SaveValue(x)
LoadArg(type, s, p) == IF type = "ptr" THEN LoadNumber(s, p, 4) ELSE LoadValue(s, p)

\* Which lambda, as its distance from reference(), and the arguments.
PackLambda(f, args) ==
  SaveBinary(f, 8) \o FlattenSeq([i \in DOMAIN args |-> SaveArg(Params[f][i], args[i])])
-----------------------------------------------------------------------------
ArchiveInit == /\ packed = <<>> /\ stream = <<>> /\ sent = FALSE
               /\ pos = 0 /\ reading = <<>> /\ unpacked = <<>>

\* async() appends a packed call to the buffer of the destination, ...
Pack(f, args) == /\ ~sent /\ Len(packed) < MaxPacked
                 /\ packed' = Append(packed, <<f, args>>)
                 /\ stream' = stream \o PackLambda(f, args)
                 /\ UNCHANGED <<sent, pos, reading, unpacked>>

\* ... which is sent, received and popped off the queue.
Deliver == /\ ~sent /\ packed # <<>>
           /\ sent' = TRUE
           /\ UNCHANGED <<packed, stream, pos, reading, unpacked>>

\* The reader has nothing but its position to tell it that it is done.
Empty == pos = Len(stream)

LoadAddress == /\ sent /\ reading = <<>> /\ ~Empty
               /\ LET f == LoadNumber(stream, pos, 8)
                  IN  reading' = <<f[1], <<>>>> /\ pos' = f[2]
               /\ UNCHANGED <<packed, stream, sent, unpacked>>

\* fun_ptr() at the far side loads the arguments that its lambda declares, ...
LoadArgument ==
  /\ reading # <<>> /\ reading[1] \in DOMAIN Params
  /\ LET f == reading[1]
         n == Len(reading[2]) + 1
     IN  /\ n <= Len(Params[f])
         /\ LET x == LoadArg(Params[f][n], stream, pos)
            IN  reading' = <<f, Append(reading[2], x[1])>> /\ pos' = x[2]
  /\ UNCHANGED <<packed, stream, sent, unpacked>>

\* ... and calls it.
Apply == /\ reading # <<>> /\ reading[1] \in DOMAIN Params
         /\ Len(reading[2]) = Len(Params[reading[1]])
         /\ unpacked' = Append(unpacked, reading)
         /\ reading' = <<>>
         /\ UNCHANGED <<packed, stream, sent, pos>>

Emptied == sent /\ reading = <<>> /\ Empty /\ UNCHANGED archiveVars

ArchiveNext == \/ \E f \in DOMAIN Args : \E args \in Args[f] : Pack(f, args)
               \/ Deliver \/ LoadAddress \/ LoadArgument \/ Apply
               \/ Emptied

ArchiveSpec == ArchiveInit /\ [][ArchiveNext]_archiveVars
-----------------------------------------------------------------------------
(* The receiver runs the calls that were packed into the buffer: each with its
   own lambda and arguments, in their order, and all of them by the time it
   takes the buffer to be empty, although neither a call nor an argument is
   framed (comm_impl.hpp 523-533, ygm_cereal_archive.hpp 94-97).           *)
RoundTrip == /\ IsPrefix(unpacked, packed)
             /\ sent /\ reading = <<>> /\ Empty => unpacked = packed

(* ASSERT_DEBUG(m_position + size <= m_capacity) and
   ASSERT_DEBUG(!(m_position > m_capacity)) (ygm_cereal_archive.hpp 84, 95),
   which a release build leaves out: the reader stays in the buffer, and takes
   what it finds there for the address of a lambda only where one was put. *)
InBounds == /\ pos <= Len(stream)
            /\ reading # <<>> => reading[1] \in DOMAIN Params
=============================================================================
