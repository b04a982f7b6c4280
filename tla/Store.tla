-------------------------------- MODULE Store --------------------------------
(***************************************************************************)
(* The store of internal/store/redis.go: RedisStore, whose calls send one  *)
(* or more commands to a server that may fail, next to the MemoryStore     *)
(* that stands in for it, whose calls are atomic.                          *)
(*                                                                         *)
(* SaveRoom stores a room and then the mapping from its code, DeleteRoom   *)
(* reads the room and then removes both, GetRoomByCode reads the mapping   *)
(* and then the room; a session is one key.  A command is atomic.  One     *)
(* that ends with an error may have been carried out or not, and ends the  *)
(* call; a crash of the program is the same to whoever comes after.  Every *)
(* key expires.                                                            *)
(*                                                                         *)
(* Abstractions.  What is stored under a key is one of a few values.  A    *)
(* room keeps its code and no two have the same, so a mapping is known by  *)
(* its room.                                                               *)
(***************************************************************************)
EXTENDS Integers, FiniteSets

CONSTANTS Rooms, Sessions, Callers, Values, Nothing

Keys == Rooms \cup Sessions
MaybeValue == Values \cup {Nothing}

ASSUME StoreAssumption ==
  /\ Rooms \cap Sessions = {}
  /\ Nothing \notin Values

VARIABLES data,    \* what Redis has under "room:" and "session:"
          codes,   \* the rooms that have a mapping under "code:"
          memory,  \* what a MemoryStore would have after the same calls
          sure,    \* keys whose last call was the only one, and succeeded
          call     \* the calls under way

storeVars == <<data, codes, memory, sure, call>>

Writes == {"set", "setCode", "get", "del", "delCode"}
Reads  == {"find", "read", "answer"}
Call == [at : {"none"} \cup Writes \cup Reads, key : Keys, value : MaybeValue,
         alone : BOOLEAN]   \* nobody has meddled with the key meanwhile

At(g, pc) == call[g].at = pc
Key(g) == call[g].key
Value(g) == call[g].value
Writing(k) == \E g \in Callers : Key(g) = k /\ call[g].at \in Writes

StoreTypeOK ==
  /\ data \in [Keys -> MaybeValue]
  /\ codes \in SUBSET Rooms
  /\ memory \in [Keys -> MaybeValue]
  /\ sure \in SUBSET Keys
  /\ call \in [Callers -> Call]

StoreInit ==
  /\ data = [k \in Keys |-> Nothing] /\ codes = {}
  /\ memory = [k \in Keys |-> Nothing] /\ sure = Keys
  /\ call \in [Callers -> [at : {"none"}, key : Keys, value : {Nothing},
                           alone : {FALSE}]]

-----------------------------------------------------------------------------
(* Calls.                                                                  *)

\* What happens to k now disturbs every other call on it.
Disturbed(k) ==
  [h \in Callers |-> [call[h] EXCEPT !.alone = @ /\ Key(h) # k]]

Begin(g, pc, k, v) ==
  /\ At(g, "none")
  /\ IF pc \in Writes
       THEN /\ call' = [Disturbed(k) EXCEPT ![g] =
                          [at |-> pc, key |-> k, value |-> v, alone |-> ~Writing(k)]]
            /\ sure' = sure \ {k}
       ELSE /\ call' = [call EXCEPT ![g] =
                          [at |-> pc, key |-> k, value |-> v, alone |-> k \in sure]]
            /\ UNCHANGED sure
  /\ UNCHANGED <<data, codes, memory>>

Continue(g, pc) == call' = [call EXCEPT ![g].at = pc] /\ UNCHANGED <<memory, sure>>

\* The call returns nil: MemoryStore has done the same in one step.
Succeed(g, v) ==
  /\ call' = [call EXCEPT ![g].at = "none"]
  /\ memory' = [memory EXCEPT ![Key(g)] = v]
  /\ sure' = IF call[g].alone THEN sure \cup {Key(g)} ELSE sure

SaveRoom(g) == \E k \in Rooms, v \in Values : Begin(g, "set", k, v)
DeleteRoom(g) == \E k \in Rooms : Begin(g, "get", k, Nothing)
GetRoom(g) == \E k \in Rooms : Begin(g, "read", k, Nothing)
GetRoomByCode(g) == \E k \in Rooms : Begin(g, "find", k, Nothing)
SaveSession(g) == \E k \in Sessions, v \in Values : Begin(g, "set", k, v)
GetSession(g) == \E k \in Sessions : Begin(g, "read", k, Nothing)
DeleteSession(g) == \E k \in Sessions : Begin(g, "del", k, Nothing)

-----------------------------------------------------------------------------
(* Commands.                                                               *)

Set_CodesSessions(g) ==   \* Mutation: a session is saved as a room is.
  /\ At(g, "set")
  /\ data' = [data EXCEPT ![Key(g)] = Value(g)]
  /\ Continue(g, "setCode")
  /\ UNCHANGED codes
Set(g) ==
  /\ At(g, "set")
  /\ data' = [data EXCEPT ![Key(g)] = Value(g)]
  /\ IF Key(g) \in Rooms THEN Continue(g, "setCode") ELSE Succeed(g, Value(g))
  /\ UNCHANGED codes

\* Mutation: the error of the second command is not returned.
SetCode_IgnoresError(g) ==
  /\ At(g, "setCode")
  /\ codes' \in {codes, codes \cup {Key(g)}}
  /\ Succeed(g, Value(g))
  /\ UNCHANGED data
SetCode(g) ==
  /\ At(g, "setCode")
  /\ codes' = codes \cup {Key(g)}
  /\ Succeed(g, Value(g))
  /\ UNCHANGED data

\* DeleteRoom reads the room for its code; without a room it has nothing to do.
Get(g) ==
  /\ At(g, "get")
  /\ IF data[Key(g)] = Nothing THEN Succeed(g, Nothing) ELSE Continue(g, "del")
  /\ UNCHANGED <<data, codes>>

Del(g) ==
  /\ At(g, "del")
  /\ data' = [data EXCEPT ![Key(g)] = Nothing]
  /\ IF Key(g) \in Rooms THEN Continue(g, "delCode") ELSE Succeed(g, Nothing)
  /\ UNCHANGED codes

DelCode(g) ==
  /\ At(g, "delCode")
  /\ codes' = codes \ {Key(g)}
  /\ Succeed(g, Nothing)
  /\ UNCHANGED data

Find(g) ==
  /\ At(g, "find")
  /\ Continue(g, IF Key(g) \in codes THEN "read" ELSE "answer")
  /\ UNCHANGED <<data, codes>>

Read_NilIsEmpty(g) ==   \* Mutation: redis.Nil is not told from a value.
  /\ At(g, "read")
  /\ \E v \in Values :
       call' = [call EXCEPT ![g].at = "answer",
                            ![g].value = IF data[Key(g)] = Nothing
                                           THEN v ELSE data[Key(g)]]
  /\ UNCHANGED <<data, codes, memory, sure>>
Read(g) ==
  /\ At(g, "read")
  /\ call' = [call EXCEPT ![g].at = "answer", ![g].value = data[Key(g)]]
  /\ UNCHANGED <<data, codes, memory, sure>>

Answer(g) ==
  /\ At(g, "answer")
  /\ call' = [call EXCEPT ![g].at = "none"]
  /\ UNCHANGED <<data, codes, memory, sure>>

\* A command ends with an error, carried out or not.
Fail(g) ==
  /\ ~At(g, "none") /\ ~At(g, "answer")
  /\ call' = [call EXCEPT ![g].at = "none"]
  /\ \/ UNCHANGED <<data, codes>>
     \/ At(g, "set") /\ data' = [data EXCEPT ![Key(g)] = Value(g)] /\ UNCHANGED codes
     \/ At(g, "setCode") /\ codes' = codes \cup {Key(g)} /\ UNCHANGED data
     \/ At(g, "del") /\ data' = [data EXCEPT ![Key(g)] = Nothing] /\ UNCHANGED codes
     \/ At(g, "delCode") /\ codes' = codes \ {Key(g)} /\ UNCHANGED data
  /\ UNCHANGED <<memory, sure>>

\* roomTTL, for a room and its mapping one by one, and sessionTTL.
Expire(k) ==
  /\ \/ data[k] # Nothing /\ data' = [data EXCEPT ![k] = Nothing] /\ UNCHANGED codes
     \/ k \in codes /\ codes' = codes \ {k} /\ UNCHANGED data
  /\ call' = Disturbed(k)
  /\ sure' = sure \ {k}
  /\ UNCHANGED memory

-----------------------------------------------------------------------------
Ask(g) ==
  \/ SaveRoom(g) \/ DeleteRoom(g) \/ GetRoom(g) \/ GetRoomByCode(g)
  \/ SaveSession(g) \/ GetSession(g) \/ DeleteSession(g)
Command(g) ==
  \/ Set(g) \/ SetCode(g) \/ Get(g) \/ Del(g) \/ DelCode(g)
  \/ Find(g) \/ Read(g) \/ Answer(g)

StoreNext ==
  \/ \E g \in Callers : Ask(g) \/ Command(g) \/ Fail(g)
  \/ \E k \in Keys : Expire(k)
StoreSpec == StoreInit /\ [][StoreNext]_storeVars

-----------------------------------------------------------------------------
(* What a caller may rely on.                                              *)

ByCode(k) == IF k \in codes THEN data[k] ELSE Nothing

\* Once a call has returned nil, and had the key to itself, RedisStore answers
\* as MemoryStore does, by id and by code, until the next call on the key or
\* the end of its lifetime, whatever failed half-way before.
SameAsMemory ==
  \A k \in sure : /\ data[k] = memory[k]
                  /\ k \in Rooms => ByCode(k) = memory[k]

\* A lookup nobody meddles with is answered as MemoryStore would answer it,
\* although it reads the mapping and the room one after the other.
AnswersAreTrue ==
  \A g \in Callers : At(g, "answer") /\ call[g].alone => Value(g) = memory[Key(g)]
=============================================================================
