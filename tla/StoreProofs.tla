----------------------------- MODULE StoreProofs -----------------------------
(***************************************************************************)
(* RedisStore answers as MemoryStore does, for any keys, callers and       *)
(* values.  An undisturbed call that writes is the only one on its key     *)
(* that does (Alone), and what it has done so far is known (Done); an      *)
(* undisturbed lookup is about a key that is sure, so no one writes it     *)
(* (Looks).                                                                *)
(***************************************************************************)
EXTENDS Store, TLAPS

\* The one undisturbed writer of a key, which is not sure while it writes.
Alone ==
  \A g, h \in Callers :
    call[g].at \in Writes =>
      /\ Key(g) \notin sure
      /\ call[g].alone /\ call[h].at \in Writes /\ Key(h) = Key(g) => h = g

\* What it has done.
Done ==
  \A g \in Callers :
    /\ call[g].alone /\ At(g, "setCode") => data[Key(g)] = Value(g)
    /\ call[g].alone /\ At(g, "delCode") => data[Key(g)] = Nothing
    /\ call[g].at \in {"setCode", "get", "delCode"} => Key(g) \in Rooms

Looks ==
  \A g \in Callers :
    /\ call[g].alone /\ call[g].at \in Reads => Key(g) \in sure
    /\ At(g, "find") => Value(g) = Nothing /\ Key(g) \in Rooms

StoreInv ==
  StoreTypeOK /\ Alone /\ Done /\ Looks /\ SameAsMemory /\ AnswersAreTrue

-----------------------------------------------------------------------------
(* Calls.                                                                  *)

PCs == {"none"} \cup Writes \cup Reads

LEMMA CallShape ==
  /\ \A x \in Call : /\ x.at \in PCs /\ x.key \in Keys /\ x.value \in MaybeValue
                     /\ x.alone \in BOOLEAN
  /\ \A pc \in PCs, k \in Keys, v \in MaybeValue, b \in BOOLEAN :
       [at |-> pc, key |-> k, value |-> v, alone |-> b] \in Call
BY DEF Call, PCs

\* Only the call of g changes, to these parts.
Becomes(g, pc, k, v, b) ==
  /\ call' \in [Callers -> Call]
  /\ \A h \in Callers : h # g => call'[h] = call[h]
  /\ call'[g].at = pc /\ call'[g].key = k /\ call'[g].value = v
  /\ call'[g].alone = b
Moves(g, pc) == Becomes(g, pc, call[g].key, call[g].value, call[g].alone)

LEMMA Moving ==
  ASSUME StoreTypeOK, NEW g \in Callers, NEW pc \in PCs,
         call' = [call EXCEPT ![g].at = pc]
  PROVE  Moves(g, pc)
<1>1. call[g] \in Call
  BY DEF StoreTypeOK
<1>2. [call[g] EXCEPT !.at = pc] \in Call
  BY <1>1 DEF Call, PCs
<1>3. /\ call' \in [Callers -> Call] /\ call'[g] = [call[g] EXCEPT !.at = pc]
      /\ \A h \in Callers : h # g => call'[h] = call[h]
  BY <1>2 DEF StoreTypeOK
<1>4. QED BY <1>1, <1>3 DEF Call, Moves, Becomes

\* Disturbing a key leaves every call where it is, and whoever is undisturbed
\* is on another key.
LEMMA Disturbing ==
  ASSUME StoreTypeOK, NEW k \in Keys
  PROVE  /\ Disturbed(k) \in [Callers -> Call]
         /\ \A h \in Callers :
              /\ Disturbed(k)[h].at = call[h].at /\ Disturbed(k)[h].key = call[h].key
              /\ Disturbed(k)[h].value = call[h].value
              /\ Disturbed(k)[h].alone <=> call[h].alone /\ call[h].key # k
<1>1. ASSUME NEW h \in Callers
      PROVE  /\ [call[h] EXCEPT !.alone = @ /\ Key(h) # k] \in Call
             /\ [call[h] EXCEPT !.alone = @ /\ Key(h) # k].at = call[h].at
             /\ [call[h] EXCEPT !.alone = @ /\ Key(h) # k].key = call[h].key
             /\ [call[h] EXCEPT !.alone = @ /\ Key(h) # k].value = call[h].value
             /\ [call[h] EXCEPT !.alone = @ /\ Key(h) # k].alone
                  <=> call[h].alone /\ call[h].key # k
  <2>1. call[h] \in Call
    BY DEF StoreTypeOK
  <2>2. QED BY <2>1 DEF Call, Key
<1>2. QED BY <1>1 DEF Disturbed

\* A step of g that changes at most the data, the mapping and the memory of a
\* key it writes.
LEMMA WriterSteps ==
  ASSUME StoreInv, NEW g \in Callers, NEW pc \in {"none"} \cup Writes,
         call[g].at \in Writes, Moves(g, pc),
         data' \in [Keys -> MaybeValue], codes' \in SUBSET Rooms,
         memory' \in [Keys -> MaybeValue],
         \A k \in Keys : k # Key(g) => /\ data'[k] = data[k] /\ memory'[k] = memory[k]
                                       /\ k \in codes' <=> k \in codes,
         \/ sure' = sure
         \/ /\ sure' = sure \cup {Key(g)} /\ pc = "none" /\ call[g].alone
            /\ data'[Key(g)] = memory'[Key(g)]
            /\ Key(g) \in Rooms => Key(g) \in codes' \/ data'[Key(g)] = Nothing,
         pc = "setCode" => data'[Key(g)] = Value(g) /\ Key(g) \in Rooms,
         pc = "delCode" => data'[Key(g)] = Nothing /\ Key(g) \in Rooms,
         pc # "get"
  PROVE  StoreInv'
<1>1. call[g].key \in Keys /\ Key(g) \in Keys /\ Key(g) \notin sure
  BY CallShape DEF StoreInv, StoreTypeOK, Alone, Key
<1>2. StoreTypeOK'
  BY <1>1 DEF StoreInv, StoreTypeOK, Moves, Becomes
<1>3. Alone'
  <2>1. ASSUME NEW h \in Callers, NEW i \in Callers, call'[h].at \in Writes
        PROVE  /\ call'[h].key \notin sure'
               /\ call'[h].alone /\ call'[i].at \in Writes
                  /\ call'[i].key = call'[h].key => i = h
    <3>1. /\ call[h].at \in Writes /\ call'[h].key = call[h].key
          /\ call'[h].alone = call[h].alone
      BY <2>1 DEF Moves, Becomes
    <3>2. /\ call'[i].at \in Writes => call[i].at \in Writes
          /\ call'[i].key = call[i].key
      BY DEF Moves, Becomes
    <3>3. call[h].key = Key(g) => h = g \/ ~call[g].alone
      BY <3>1 DEF StoreInv, Alone, Key
    <3>4. sure' # sure => h # g
      BY <2>1 DEF Moves, Becomes, Writes
    <3>5. QED BY <3>1, <3>2, <3>3, <3>4 DEF StoreInv, Alone, Key
  <2>2. QED BY <2>1 DEF Alone, Key
<1>4. Done'
  <2>1. ASSUME NEW h \in Callers
        PROVE  /\ call'[h].alone /\ call'[h].at = "setCode" =>
                    data'[call'[h].key] = call'[h].value
               /\ call'[h].alone /\ call'[h].at = "delCode" =>
                    data'[call'[h].key] = Nothing
               /\ call'[h].at \in {"setCode", "get", "delCode"} =>
                    call'[h].key \in Rooms
    <3>1. CASE h = g
      BY <3>1 DEF Moves, Becomes, Key, Value
    <3>2. CASE h # g
      <4>1. call'[h] = call[h] /\ call[h].key \in Keys
        BY <3>2, CallShape DEF Moves, Becomes, StoreInv, StoreTypeOK
      <4>2. call[h].alone /\ call[h].at \in Writes => call[h].key # Key(g)
        BY <3>2 DEF StoreInv, Alone, Key
      <4>3. QED BY <4>1, <4>2 DEF StoreInv, Done, At, Key, Value, Writes
    <3>3. QED BY <3>1, <3>2
  <2>2. QED BY <2>1 DEF Done, At, Key, Value
<1>5. Looks' /\ AnswersAreTrue'
  <2>1. ASSUME NEW h \in Callers, call'[h].at \in Reads
        PROVE  h # g /\ call'[h] = call[h]
    BY <2>1 DEF Moves, Becomes, Writes, Reads
  <2>2. sure \subseteq sure'
    OBVIOUS
  <2>3. ASSUME NEW h \in Callers, call'[h].alone, call'[h].at \in Reads
        PROVE  /\ call[h].key \in sure /\ call[h].key \in Keys
               /\ memory'[call[h].key] = memory[call[h].key]
    BY <1>1, <2>1, <2>3, CallShape DEF StoreInv, StoreTypeOK, Looks, Key
  <2>4. Looks'
    BY <2>1, <2>2, <2>3 DEF StoreInv, Looks, At, Key, Value, Reads
  <2>5. AnswersAreTrue'
    BY <2>1, <2>3 DEF StoreInv, AnswersAreTrue, At, Key, Value, Reads
  <2>6. QED BY <2>4, <2>5
<1>6. SameAsMemory'
  <2>1. ASSUME NEW k \in sure'
        PROVE  /\ data'[k] = memory'[k]
               /\ k \in Rooms => ByCode(k)' = memory'[k]
    <3>1. CASE k # Key(g)
      <4>1. k \in sure /\ k \in Keys
        BY <1>2, <3>1 DEF StoreTypeOK
      <4>2. QED BY <3>1, <4>1 DEF StoreInv, SameAsMemory, ByCode
    <3>2. CASE k = Key(g)
      BY <1>1, <2>1, <3>2 DEF ByCode
    <3>3. QED BY <3>1, <3>2
  <2>2. QED BY <2>1 DEF SameAsMemory
<1>7. QED BY <1>2, <1>3, <1>4, <1>5, <1>6 DEF StoreInv

\* A step of g that changes only its own call, which looks something up or ends.
LEMMA ReaderSteps ==
  ASSUME StoreInv, NEW g \in Callers, NEW pc \in {"none", "read", "answer"},
         NEW v \in MaybeValue,
         Becomes(g, pc, Key(g), v, call[g].alone), UNCHANGED <<data, codes, memory, sure>>,
         pc # "none" => call[g].at \in Reads,
         pc = "answer" /\ call[g].alone => v = memory[Key(g)]
  PROVE  StoreInv'
<1>1. StoreTypeOK'
  BY DEF StoreInv, StoreTypeOK, Becomes
<1>2. ASSUME NEW h \in Callers, call'[h].at \in Writes \cup {"find"}
      PROVE  h # g /\ call'[h] = call[h]
  BY <1>2 DEF Becomes, Writes
<1>3. Alone'
  BY <1>2 DEF StoreInv, Alone, Key
<1>4. Done'
  BY <1>2 DEF StoreInv, Done, At, Key, Value, Writes
<1>5. ASSUME NEW h \in Callers
      PROVE  h # g => call'[h] = call[h]
  BY DEF Becomes
<1>6. Looks'
  <2>1. ASSUME NEW h \in Callers, call'[h].alone, call'[h].at \in Reads
        PROVE  call'[h].key \in sure
    <3>1. CASE h = g
      BY <2>1, <3>1 DEF StoreInv, Looks, Becomes, Key, Reads
    <3>2. CASE h # g
      BY <1>5, <2>1, <3>2 DEF StoreInv, Looks, Key
    <3>3. QED BY <3>1, <3>2
  <2>2. QED BY <1>2, <2>1 DEF StoreInv, Looks, At, Key, Value
<1>7. AnswersAreTrue'
  BY <1>5 DEF StoreInv, AnswersAreTrue, Becomes, At, Key, Value
<1>8. SameAsMemory'
  BY DEF StoreInv, SameAsMemory, ByCode
<1>9. QED BY <1>1, <1>3, <1>4, <1>6, <1>7, <1>8 DEF StoreInv

-----------------------------------------------------------------------------
(* The steps.                                                              *)

LEMMA BeginStep ==
  ASSUME StoreInv, NEW g \in Callers, NEW k \in Keys, NEW v \in MaybeValue,
         NEW pc \in {"set", "get", "del", "find", "read"}, Begin(g, pc, k, v),
         pc \in {"get", "find"} => k \in Rooms, pc = "find" => v = Nothing
  PROVE  StoreInv'
<1>1. /\ call \in [Callers -> Call]
      /\ \A h \in Callers : call[h].key \in Keys /\ call[h].alone \in BOOLEAN
  BY CallShape DEF StoreInv, StoreTypeOK
<1>2. CASE pc \in Writes
  <2>1. [at |-> pc, key |-> k, value |-> v, alone |-> ~Writing(k)] \in Call
    <3>1. (~Writing(k)) \in BOOLEAN /\ pc \in PCs
      BY <1>2 DEF PCs
    <3>2. QED BY <3>1, CallShape, Zenon
  <2>2. Disturbed(k) \in [Callers -> Call]
    BY Disturbing DEF StoreInv
  <2>3. /\ call' \in [Callers -> Call]
        /\ call'[g] = [at |-> pc, key |-> k, value |-> v, alone |-> ~Writing(k)]
        /\ \A h \in Callers : h # g => call'[h] = Disturbed(k)[h]
    BY <1>2, <2>1, <2>2 DEF Begin
  <2>4. ASSUME NEW h \in Callers, h # g
        PROVE  /\ call'[h].at = call[h].at /\ call'[h].key = call[h].key
               /\ call'[h].value = call[h].value
               /\ call'[h].alone <=> call[h].alone /\ call[h].key # k
    BY <2>3, <2>4, Disturbing DEF StoreInv
  <2>5. /\ sure' = sure \ {k} /\ UNCHANGED <<data, codes, memory>>
        /\ call'[g].at = pc /\ call'[g].key = k /\ call'[g].value = v
        /\ call'[g].alone <=> ~Writing(k)
    <3>1. sure' = sure \ {k} /\ UNCHANGED <<data, codes, memory>>
      BY <1>2 DEF Begin
    <3> DEFINE free == ~Writing(k)
    <3>2. call'[g] = [at |-> pc, key |-> k, value |-> v, alone |-> free]
      BY <2>3
    <3> HIDE DEF free
    <3>3. /\ call'[g].at = pc /\ call'[g].key = k /\ call'[g].value = v
          /\ call'[g].alone = free
      BY <3>2
    <3>4. QED BY <3>1, <3>3 DEF free
  <2>6. StoreTypeOK'
    BY <2>3, <2>5 DEF StoreInv, StoreTypeOK
  <2>7. Alone'
    <3>1. ASSUME NEW h \in Callers, NEW i \in Callers, call'[h].at \in Writes
          PROVE  /\ call'[h].key \notin sure'
                 /\ call'[h].alone /\ call'[i].at \in Writes
                    /\ call'[i].key = call'[h].key => i = h
      <4>1. CASE h = g
        BY <2>4, <2>5, <4>1 DEF Writing, Key
      <4>2. CASE h # g
        BY <2>4, <2>5, <3>1, <4>2 DEF StoreInv, Alone, Key
      <4>3. QED BY <4>1, <4>2
    <3>2. QED BY <3>1 DEF Alone, Key
  <2>8. Done'
    <3>1. ASSUME NEW h \in Callers
          PROVE  /\ call'[h].alone /\ call'[h].at = "setCode" =>
                      data'[call'[h].key] = call'[h].value
                 /\ call'[h].alone /\ call'[h].at = "delCode" =>
                      data'[call'[h].key] = Nothing
                 /\ call'[h].at \in {"setCode", "get", "delCode"} =>
                      call'[h].key \in Rooms
      <4>1. CASE h = g
        BY <2>5, <4>1
      <4>2. CASE h # g
        BY <2>4, <2>5, <4>2 DEF StoreInv, Done, At, Key, Value
      <4>3. QED BY <4>1, <4>2
    <3>2. QED BY <3>1 DEF Done, At, Key, Value
  <2>9. Looks' /\ AnswersAreTrue'
    <3>1. pc \notin Reads
      BY <1>2 DEF Writes, Reads
    <3>2. Looks'
      BY <2>4, <2>5, <3>1 DEF StoreInv, Looks, At, Key, Value, Reads
    <3>3. AnswersAreTrue'
      BY <2>4, <2>5 DEF StoreInv, AnswersAreTrue, At, Key, Value
    <3>4. QED BY <3>2, <3>3
  <2>10. SameAsMemory'
    BY <2>5 DEF StoreInv, SameAsMemory, ByCode
  <2>11. QED BY <2>6, <2>7, <2>8, <2>9, <2>10 DEF StoreInv
<1>3. CASE pc \notin Writes
  <2>1. [at |-> pc, key |-> k, value |-> v, alone |-> k \in sure] \in Call
    <3>1. (k \in sure) \in BOOLEAN /\ pc \in PCs
      BY DEF PCs, Writes, Reads
    <3>2. QED BY <3>1, CallShape, Zenon
  <2>2. /\ Becomes(g, pc, k, v, k \in sure)
        /\ UNCHANGED <<data, codes, memory, sure>>
    BY <1>1, <1>3, <2>1 DEF Begin, Becomes
  <2>3. StoreTypeOK'
    BY <2>2 DEF StoreInv, StoreTypeOK, Becomes
  <2>4. ASSUME NEW h \in Callers
        PROVE  h # g => call'[h] = call[h]
    BY <2>2 DEF Becomes
  <2>5. /\ call'[g].at = pc /\ call'[g].key = k /\ call'[g].value = v
        /\ call'[g].alone <=> k \in sure
    BY <2>2 DEF Becomes
  <2>6. Alone'
    <3>1. ASSUME NEW h \in Callers, call'[h].at \in Writes PROVE h # g
      BY <1>3, <2>5, <3>1
    <3>2. QED BY <2>2, <2>4, <3>1 DEF StoreInv, Alone, Key
  <2>7. Done'
    BY <1>3, <2>2, <2>4, <2>5 DEF StoreInv, Done, At, Key, Value, Writes
  <2>8. Looks'
    <3>1. ASSUME NEW h \in Callers
          PROVE  /\ call'[h].alone /\ call'[h].at \in Reads => call'[h].key \in sure
                 /\ call'[h].at = "find" => call'[h].value = Nothing
                                            /\ call'[h].key \in Rooms
      <4>1. CASE h = g
        BY <2>5, <4>1
      <4>2. CASE h # g
        BY <2>4, <4>2 DEF StoreInv, Looks, At, Key, Value
      <4>3. QED BY <4>1, <4>2
    <3>2. QED BY <2>2, <3>1 DEF Looks, At, Key, Value
  <2>9. AnswersAreTrue'
    BY <2>2, <2>4, <2>5 DEF StoreInv, AnswersAreTrue, At, Key, Value
  <2>10. SameAsMemory'
    BY <2>2 DEF StoreInv, SameAsMemory, ByCode
  <2>11. QED BY <2>3, <2>6, <2>7, <2>8, <2>9, <2>10 DEF StoreInv
<1>4. QED BY <1>2, <1>3

\* Each command is a step of a writer or of a reader.
LEMMA CommandStep ==
  ASSUME StoreInv, NEW g \in Callers, Command(g) \/ Fail(g)
  PROVE  StoreInv'
<1>1. /\ call[g] \in Call /\ Key(g) \in Keys /\ Value(g) \in MaybeValue
      /\ data \in [Keys -> MaybeValue] /\ memory \in [Keys -> MaybeValue]
      /\ codes \in SUBSET Rooms /\ Nothing \in MaybeValue /\ StoreTypeOK
  BY CallShape DEF StoreInv, StoreTypeOK, Key, Value, MaybeValue
<1>2. call[g].at \in {"setCode", "get", "delCode"} => Key(g) \in Rooms
  BY DEF StoreInv, Done
<1>3. ASSUME NEW pc \in PCs, Continue(g, pc)
      PROVE  Moves(g, pc) /\ UNCHANGED <<memory, sure>>
  BY <1>1, <1>3, Moving DEF Continue
<1>4. ASSUME NEW v \in MaybeValue, Succeed(g, v)
      PROVE  /\ Moves(g, "none") /\ memory' \in [Keys -> MaybeValue]
             /\ memory'[Key(g)] = v
             /\ \A k \in Keys : k # Key(g) => memory'[k] = memory[k]
             /\ \/ sure' = sure
                \/ sure' = sure \cup {Key(g)} /\ call[g].alone
  BY <1>1, <1>4, Moving DEF Succeed, PCs
<1>5. CASE Set(g)
  <2>1. /\ call[g].at \in Writes /\ data' \in [Keys -> MaybeValue]
        /\ data'[Key(g)] = Value(g) /\ codes' = codes
        /\ \A k \in Keys : k # Key(g) => data'[k] = data[k]
    BY <1>1, <1>5 DEF Set, At, Writes
  <2>2. CASE Key(g) \in Rooms
    <3>1. Moves(g, "setCode") /\ UNCHANGED <<memory, sure>>
      BY <1>3, <1>5, <2>2 DEF Set, PCs, Writes
    <3>2. QED BY <1>1, <2>1, <2>2, <3>1, WriterSteps DEF Writes
  <2>3. CASE Key(g) \notin Rooms
    <3>1. Succeed(g, Value(g))
      BY <1>5, <2>3 DEF Set
    <3>2. QED BY <1>1, <1>4, <2>1, <2>3, <3>1, WriterSteps DEF Writes
  <2>4. QED BY <2>2, <2>3
<1>6. CASE SetCode(g)
  <2>1. /\ call[g].at \in Writes /\ Succeed(g, Value(g)) /\ data' = data
        /\ codes' = codes \cup {Key(g)} /\ Key(g) \in Rooms
        /\ call[g].alone => data[Key(g)] = Value(g)
    BY <1>2, <1>6 DEF SetCode, At, Writes, StoreInv, Done
  <2>2. codes' \in SUBSET Rooms
    BY <1>1, <2>1
  <2>3. QED BY <1>1, <1>4, <2>1, <2>2, WriterSteps DEF Writes
<1>7. CASE Get(g)
  <2>1. call[g].at \in Writes /\ UNCHANGED <<data, codes>>
    BY <1>7 DEF Get, At, Writes
  <2>2. CASE data[Key(g)] = Nothing
    <3>1. Succeed(g, Nothing)
      BY <1>7, <2>2 DEF Get
    <3>2. QED BY <1>1, <1>4, <2>1, <2>2, <3>1, WriterSteps DEF Writes
  <2>3. CASE data[Key(g)] # Nothing
    <3>1. Moves(g, "del") /\ UNCHANGED <<memory, sure>>
      BY <1>3, <1>7, <2>3 DEF Get, PCs, Writes
    <3>2. QED BY <1>1, <2>1, <3>1, WriterSteps DEF Writes
  <2>4. QED BY <2>2, <2>3
<1>8. CASE Del(g)
  <2>1. /\ call[g].at \in Writes /\ data' \in [Keys -> MaybeValue]
        /\ data'[Key(g)] = Nothing /\ codes' = codes
        /\ \A k \in Keys : k # Key(g) => data'[k] = data[k]
    BY <1>1, <1>8 DEF Del, At, Writes
  <2>2. CASE Key(g) \in Rooms
    <3>1. Moves(g, "delCode") /\ UNCHANGED <<memory, sure>>
      BY <1>3, <1>8, <2>2 DEF Del, PCs, Writes
    <3>2. QED BY <1>1, <2>1, <2>2, <3>1, WriterSteps DEF Writes
  <2>3. CASE Key(g) \notin Rooms
    <3>1. Succeed(g, Nothing)
      BY <1>8, <2>3 DEF Del
    <3>2. QED BY <1>1, <1>4, <2>1, <2>3, <3>1, WriterSteps DEF Writes
  <2>4. QED BY <2>2, <2>3
<1>9. CASE DelCode(g)
  <2>1. /\ call[g].at \in Writes /\ Succeed(g, Nothing) /\ data' = data
        /\ codes' = codes \ {Key(g)}
        /\ call[g].alone => data[Key(g)] = Nothing
    BY <1>9 DEF DelCode, At, Writes, StoreInv, Done
  <2>2. codes' \in SUBSET Rooms
    BY <1>1, <2>1
  <2>3. QED BY <1>1, <1>4, <2>1, <2>2, WriterSteps DEF Writes
<1>10. CASE Find(g)
  <2>1. /\ Key(g) \in Rooms /\ Value(g) = Nothing
        /\ call[g].at \in Reads /\ call[g].alone => Key(g) \in sure
        /\ call[g].at \in Reads /\ UNCHANGED <<data, codes>>
    BY <1>10 DEF Find, StoreInv, Looks, At, Reads
  <2>2. CASE Key(g) \in codes
    <3>1. Moves(g, "read") /\ UNCHANGED <<memory, sure>>
      BY <1>3, <1>10, <2>2 DEF Find, PCs, Reads
    <3>2. QED BY <1>1, <2>1, <3>1, ReaderSteps DEF Moves, Key, Value
  <2>3. CASE Key(g) \notin codes
    <3>1. Moves(g, "answer") /\ UNCHANGED <<memory, sure>>
      BY <1>3, <1>10, <2>3 DEF Find, PCs, Reads
    <3>2. call[g].alone => memory[Key(g)] = Nothing
      BY <2>1, <2>3 DEF StoreInv, SameAsMemory, ByCode
    <3>3. QED BY <1>1, <2>1, <3>1, <3>2, ReaderSteps DEF Moves, Key, Value
  <2>4. QED BY <2>2, <2>3
<1>11. CASE Read(g)
  <2>1. /\ call[g].at \in Reads /\ UNCHANGED <<data, codes, memory, sure>>
        /\ call[g].alone => data[Key(g)] = memory[Key(g)]
    BY <1>11 DEF Read, StoreInv, Looks, SameAsMemory, At, Reads
  <2>2. data[Key(g)] \in MaybeValue
    BY <1>1
  <2>3. [call[g] EXCEPT !.at = "answer", !.value = data[Key(g)]] \in Call
    BY <1>1, <2>2 DEF Call, Reads
  <2>4. /\ call' \in [Callers -> Call]
        /\ call'[g] = [call[g] EXCEPT !.at = "answer", !.value = data[Key(g)]]
        /\ \A h \in Callers : h # g => call'[h] = call[h]
    BY <1>11, <2>3 DEF Read, StoreInv, StoreTypeOK
  <2>5. Becomes(g, "answer", Key(g), data[Key(g)], call[g].alone)
    BY <1>1, <2>4 DEF Becomes, Call, Key
  <2>6. QED BY <2>1, <2>2, <2>5, ReaderSteps
<1>12. CASE Answer(g)
  <2>1. Moves(g, "none") /\ UNCHANGED <<data, codes, memory, sure>>
    BY <1>1, <1>12, Moving DEF Answer, PCs
  <2>2. QED BY <1>1, <2>1, ReaderSteps DEF Moves, Key, Value
<1>13. CASE Fail(g)
  <2>1. Moves(g, "none") /\ UNCHANGED <<memory, sure>>
    BY <1>1, <1>13, Moving DEF Fail, PCs
  <2>2. CASE UNCHANGED <<data, codes>>
    BY <1>1, <2>1, <2>2, ReaderSteps DEF Moves, Key, Value
  <2>3. CASE ~UNCHANGED <<data, codes>>
    <3>1. /\ call[g].at \in Writes
          /\ \A k \in Keys : k # Key(g) => data'[k] = data[k]
          /\ \A k \in Keys : k # Key(g) => (k \in codes' <=> k \in codes)
      BY <1>1, <1>13, <2>3 DEF Fail, At, Writes
    <3>2. data' \in [Keys -> MaybeValue] /\ codes' \in SUBSET Rooms
      BY <1>1, <1>2, <1>13, <2>3 DEF Fail, At
    <3>3. QED BY <1>1, <2>1, <3>1, <3>2, WriterSteps DEF Writes
  <2>4. QED BY <2>2, <2>3
<1>14. QED BY <1>5, <1>6, <1>7, <1>8, <1>9, <1>10, <1>11, <1>12, <1>13 DEF Command

LEMMA ExpireStep ==
  ASSUME StoreInv, NEW k \in Keys, Expire(k)
  PROVE  StoreInv'
<1>1. /\ sure' = sure \ {k} /\ memory' = memory /\ call' = Disturbed(k)
      /\ data' \in [Keys -> MaybeValue] /\ codes' \in SUBSET Rooms
      /\ \A j \in Keys : j # k => data'[j] = data[j] /\ (j \in codes' <=> j \in codes)
  BY DEF Expire, StoreInv, StoreTypeOK, MaybeValue
<1>2. ASSUME NEW h \in Callers
      PROVE  /\ call'[h].at = call[h].at /\ call'[h].key = call[h].key
             /\ call'[h].value = call[h].value /\ call[h].key \in Keys
             /\ call'[h].alone <=> call[h].alone /\ call[h].key # k
  BY <1>1, Disturbing, CallShape DEF StoreInv, StoreTypeOK
<1>3. StoreTypeOK'
  BY <1>1, Disturbing DEF StoreInv, StoreTypeOK
<1>4. Alone'
  BY <1>1, <1>2 DEF StoreInv, Alone, Key
<1>5. Done'
  BY <1>1, <1>2 DEF StoreInv, Done, At, Key, Value
<1>6. Looks' /\ AnswersAreTrue'
  BY <1>1, <1>2 DEF StoreInv, Looks, AnswersAreTrue, At, Key, Value
<1>7. SameAsMemory'
  BY <1>1 DEF StoreInv, StoreTypeOK, SameAsMemory, ByCode
<1>8. QED BY <1>3, <1>4, <1>5, <1>6, <1>7 DEF StoreInv

LEMMA StoreInvariant == StoreSpec => []StoreInv
<1>1. StoreInit => StoreInv
  <2> SUFFICES ASSUME StoreInit PROVE StoreInv
    OBVIOUS
  <2>1. \A g \in Callers : call[g] \in Call /\ call[g].at = "none"
    BY DEF StoreInit, Call, MaybeValue
  <2>2. StoreTypeOK
    <3>1. call \in [Callers -> Call]
      BY DEF StoreInit, Call, MaybeValue
    <3>2. QED BY <3>1 DEF StoreInit, StoreTypeOK, MaybeValue
  <2>3. Alone /\ Done
    BY <2>1 DEF Alone, Done, At, Writes
  <2>4. Looks /\ AnswersAreTrue
    BY <2>1 DEF Looks, AnswersAreTrue, At, Reads
  <2>5. SameAsMemory
    BY DEF StoreInit, SameAsMemory, ByCode, Keys
  <2>6. QED BY <2>2, <2>3, <2>4, <2>5 DEF StoreInv
<1>2. StoreInv /\ [StoreNext]_storeVars => StoreInv'
  <2> SUFFICES ASSUME StoreInv, [StoreNext]_storeVars PROVE StoreInv'
    OBVIOUS
  <2>1. ASSUME NEW g \in Callers, Ask(g) PROVE StoreInv'
    <3>1. Rooms \subseteq Keys /\ Sessions \subseteq Keys
          /\ Values \subseteq MaybeValue /\ Nothing \in MaybeValue
      BY DEF Keys, MaybeValue
    <3>2. QED BY <2>1, <3>1, BeginStep
              DEF Ask, SaveRoom, DeleteRoom, GetRoom, GetRoomByCode, SaveSession,
                  GetSession, DeleteSession
  <2>2. ASSUME NEW g \in Callers, Command(g) \/ Fail(g) PROVE StoreInv'
    BY <2>2, CommandStep
  <2>3. ASSUME NEW k \in Keys, Expire(k) PROVE StoreInv'
    BY <2>3, ExpireStep
  <2>4. CASE UNCHANGED storeVars
    BY <2>4 DEF storeVars, StoreInv, StoreTypeOK, Alone, Done, Looks, SameAsMemory,
                AnswersAreTrue, At, Key, Value, ByCode
  <2>5. QED BY <2>1, <2>2, <2>3, <2>4 DEF StoreNext
<1>3. QED BY <1>1, <1>2, PTL DEF StoreSpec

-----------------------------------------------------------------------------
(* The theorems.                                                           *)

\* Variables have their types.
THEOREM StoreTypes == StoreSpec => []StoreTypeOK
<1>1. StoreInv => StoreTypeOK
  BY DEF StoreInv
<1>2. QED BY <1>1, StoreInvariant, PTL

\* After an undisturbed call RedisStore and MemoryStore hold the same under the
\* key, by id and by code, whatever has failed or expired before.
THEOREM StoresAgree == StoreSpec => []SameAsMemory
<1>1. StoreInv => SameAsMemory
  BY DEF StoreInv
<1>2. QED BY <1>1, StoreInvariant, PTL

\* An undisturbed lookup, by id or by code, finds what MemoryStore holds.
THEOREM LookupsAgree == StoreSpec => []AnswersAreTrue
<1>1. StoreInv => AnswersAreTrue
  BY DEF StoreInv
<1>2. QED BY <1>1, StoreInvariant, PTL
==============================================================================
