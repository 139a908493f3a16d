-------------------------- MODULE YgmCountingNested --------------------------
(***************************************************************************)
(* The counting set of YgmCountingSet in a program whose functions, called *)
(* on other ranks, insert in it: the handlers that async() runs before     *)
(* count_cache_flush() has emptied the slot may insert in that very slot.  *)
(***************************************************************************)
EXTENDS YgmCountingSet

HandlerFrame(m) == [kind |-> "handler", slot |-> 0, fill |-> {}, call |-> m]
Handling == {m \in Pending : \E i \in DOMAIN stack[m.dst] :
                               stack[m.dst][i] = HandlerFrame(m)}

\* The program calls a function on another rank that inserts k there.
CallInserter(r, d, k) ==
  /\ Program(r) /\ Inserts + Len(calls) < MaxInserts
  /\ BSIssue(NewCall(r, d, 0))
  /\ calls' = Append(calls, [kind |-> "insert", key |-> k, n |-> 0])
  /\ UNCHANGED <<cache, counts, stack, inserted, collVars>>

StartInserter(m) == /\ calls[m.id].kind = "insert" /\ m \notin Handling
                    /\ Polling(m.dst) /\ m.epoch = epoch[m.dst]
                    /\ CacheInsert(m.dst, calls[m.id].key,
                                   <<HandlerFrame(m)>> \o stack[m.dst], m.id)
                    /\ UNCHANGED collVars

EndInserter(r) == /\ stack[r] # <<>> /\ Top(r).kind = "handler"
                  /\ BSExecute(Top(r).call)
                  /\ stack' = [stack EXCEPT ![r] = Tail(@)]
                  /\ UNCHANGED <<calls, cache, counts, inserted, collVars>>

NestedNext == \/ SetNext
              \/ \E r \in Rank : \/ \E d \in Rank \ {r}, k \in Key : CallInserter(r, d, k)
                                 \/ EndInserter(r)
              \/ \E m \in Pending : StartInserter(m)

NestedSpec == SetInit /\ [][NestedNext]_allVars
=============================================================================
