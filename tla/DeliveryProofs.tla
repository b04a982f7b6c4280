--------------------------- MODULE DeliveryProofs ---------------------------
(***************************************************************************)
(* The safety properties of Delivery, for any connections, goroutines and  *)
(* bounds.                                                                 *)
(*                                                                         *)
(* The inductive invariant says what each goroutine is busy with (Aims),   *)
(* who holds the two mutexes of a client (Owners), what the holder may     *)
(* rely on (Flags), and that a registered connection which has not been    *)
(* shown a change has somebody on the way to show it (Reach).              *)
(***************************************************************************)
EXTENDS DeliveryProperties, TLAPS

Aimed == {"answer", "put", "hold", "close", "cut", "enter", "turn", "write"}

AimsAt(g) ==
  /\ job[g].at \in Aimed \/ (At(g, "snap") /\ Kind(g) = "state") =>
       Target(g) \in Clients
  /\ \A c \in Clients : g = Pump(c) /\ job[g].at \in {"hold", "write"} => Target(g) = c
  /\ g \in Players /\ job[g].at \in {"answer", "put"} => Kind(g) \in Answers
  /\ g = Hub =>
       /\ At(g, "unregister") => Target(g) \in Clients
       /\ job[g].at \in {"register", "close", "cut"} <=> newcomer \in Clients
Aims == \A g \in Goroutines : AimsAt(g)

Owners ==
  \A g \in Goroutines, c \in Clients :
    /\ closeMu[c] = g <=> job[g].at \in {"put", "turn", "cut"} /\ Target(g) = c
    /\ writeMu[c] = g <=> At(g, "write") /\ Target(g) = c

Flags ==
  /\ \A g \in Goroutines :
       /\ job[g].at \in {"put", "turn"} => ~closed[Target(g)]
       /\ At(g, "cut") => closed[Target(g)]
  /\ \A c \in cut : closed[c]
  /\ NoDirectWriteAfterClose

\* Only a registered client is owed anything.
Dues ==
  \A c \in Clients :
    /\ due[c] <= version
    /\ At(Reader(c), "new") => At(Pump(c), "new") /\ newcomer # c
    /\ At(Reader(c), "new") \/ newcomer = c => due[c] = 0 /\ hub[SeatOf[c]] # c

\* g is on its way to show c a state as new as it is owed.
Carries(g, c) ==
  /\ Showing(g)
  /\ \/ Announces(g)
     \/ job[g].seat < SeatOf[c] /\ (Kind(g) = "end" => job[g].got >= due[c])
     \/ /\ job[g].seat = SeatOf[c]
        /\ \/ At(g, "snap") /\ (Kind(g) = "state" => Target(g) = c)
           \/ At(g, "look") /\ (Kind(g) = "state" \/ job[g].got >= due[c])
           \/ /\ job[g].at \in {"enter", "turn", "write"}
              /\ Target(g) = c /\ job[g].got >= due[c]

Reach ==
  \A c \in Clients :
    Open(c) /\ newest[c] < due[c] => \E g \in Players : Carries(g, c)

DeliveryInv == DeliveryTypeOK /\ Aims /\ Owners /\ Flags /\ Dues /\ Reach

-----------------------------------------------------------------------------
(* Names and shapes.                                                       *)

\* Goroutines of different kinds, or of different clients, differ.
LEMMA Names ==
  /\ Hub \in Goroutines \ Players /\ Hub \notin Pumps
  /\ \A w \in Workers : Worker(w) \in Players
  /\ \A c \in Clients : /\ Reader(c) \in Players
                        /\ Pump(c) \in Goroutines \ Players
                        /\ Pump(c) # Hub
                        /\ Pump(c) \in Pumps
  /\ \A c, d \in Clients : c # d => Pump(c) # Pump(d) /\ Reader(c) # Reader(d)
  /\ Players \subseteq Goroutines
  /\ Players \cap Pumps = {} /\ Pumps \subseteq Goroutines
  /\ Nobody \notin Goroutines
BY DEF Goroutines, Players, Readers, Pumps, Reader, Pump, Worker, Hub, Nobody

LEMMA JobShape ==
  /\ \A pc \in PCs, k \in Kinds, s \in Seats, c \in MaybeClient, v \in Nat :
       LET j == MkJob(pc, k, s, c, v)
       IN /\ j \in Job
          /\ j.at = pc /\ j.kind = k /\ j.seat = s /\ j.to = c /\ j.got = v
  /\ \A j \in Job : /\ j.at \in PCs /\ j.kind \in Kinds /\ j.seat \in Seats
                    /\ j.to \in MaybeClient /\ j.got \in Nat
  /\ \A j \in Job, pc \in PCs : [j EXCEPT !.at = pc] \in Job
BY DEF MkJob, Job

\* Only the job of g changes, to one of the given parts.
Alone(g) ==
  /\ job' \in [Goroutines -> Job]
  /\ \A h \in Goroutines : h # g => job'[h] = job[h]
Takes(g, pc, k, s, c, v) ==
  /\ Alone(g)
  /\ job'[g].at = pc /\ job'[g].kind = k /\ job'[g].seat = s
  /\ job'[g].to = c /\ job'[g].got = v
Moves(g, pc) == Takes(g, pc, job[g].kind, job[g].seat, job[g].to, job[g].got)

LEMMA Becomes ==
  ASSUME DeliveryTypeOK, NEW g \in Goroutines, NEW pc \in PCs, NEW k \in Kinds,
         NEW s \in Seats, NEW c \in MaybeClient, NEW v \in Nat,
         Become(g, MkJob(pc, k, s, c, v))
  PROVE  Takes(g, pc, k, s, c, v)
<1>1. MkJob(pc, k, s, c, v) \in Job /\ job \in [Goroutines -> Job]
  BY JobShape DEF DeliveryTypeOK
<1>2. /\ job' \in [Goroutines -> Job] /\ job'[g] = MkJob(pc, k, s, c, v)
      /\ \A h \in Goroutines : h # g => job'[h] = job[h]
  BY <1>1 DEF Become
<1>3. QED BY <1>2, JobShape DEF Takes, Alone

LEMMA Goes ==
  ASSUME DeliveryTypeOK, NEW g \in Goroutines, NEW pc \in PCs, Goto(g, pc)
  PROVE  Moves(g, pc)
<1>1. job' = [job EXCEPT ![g] = [job[g] EXCEPT !.at = pc]]
  BY DEF Goto
<1>2. job \in [Goroutines -> Job] /\ [job[g] EXCEPT !.at = pc] \in Job
  BY JobShape DEF DeliveryTypeOK
<1>3. /\ job' \in [Goroutines -> Job] /\ job'[g] = [job[g] EXCEPT !.at = pc]
      /\ \A h \in Goroutines : h # g => job'[h] = job[h]
  BY <1>1, <1>2
<1>4. job[g] \in Job
  BY <1>2
<1>5. QED BY <1>3, <1>4 DEF Job, Takes, Moves, Alone

\* A broadcast ends, goes on with the other seat, or with what comes after it.
Advances(g) ==
  \/ Kind(g) = "left" /\ Takes(g, "unregister", "none", 0, NoClient, 0)
  \/ /\ Kind(g) = "matched" /\ job[g].seat = 1
     /\ Takes(g, "look", "state", 0, NoClient, 0)
  \/ /\ Kind(g) \notin {"left", "matched"}
     /\ Kind(g) = "queue_timeout" \/ job[g].seat = 1
     /\ Takes(g, "idle", "none", 0, NoClient, 0)
  \/ /\ Kind(g) \notin OneSeat /\ job[g].seat = 0
     /\ Takes(g, FirstStep(Kind(g)), Kind(g), 1, NoClient,
              IF Kind(g) = "end" THEN job[g].got ELSE 0)

LEMMA SeatAdvances ==
  ASSUME DeliveryTypeOK, NEW g \in Goroutines, NextSeat(g)
  PROVE  Advances(g)
<1>1. /\ job[g].seat \in Seats /\ Kind(g) \in Kinds /\ job[g].got \in Nat
      /\ FirstStep(Kind(g)) \in PCs /\ NoClient \in MaybeClient
      /\ {"unregister", "idle", "look"} \subseteq PCs /\ {"none", "state"} \subseteq Kinds
      /\ {0, 1} \subseteq Seats
      /\ (IF Kind(g) = "end" THEN job[g].got ELSE 0) \in Nat
  BY JobShape
  DEF DeliveryTypeOK, Kind, FirstStep, PCs, Writing, MaybeClient, Kinds, Seats
<1>2. CASE job[g].seat = 0 /\ Kind(g) \notin OneSeat
  BY <1>1, <1>2, Becomes DEF NextSeat, OtherSeat, Advances
<1>3. CASE ~(job[g].seat = 0 /\ Kind(g) \notin OneSeat)
  <2>1. Afterwards(g) /\ (job[g].seat = 1 \/ Kind(g) \in OneSeat)
    BY <1>1, <1>3 DEF NextSeat, Seats
  <2>2. CASE Kind(g) = "left"
    BY <1>1, <2>1, <2>2, Becomes DEF Afterwards, Advances
  <2>3. CASE Kind(g) = "matched"
    BY <1>1, <2>1, <2>3, Becomes DEF Afterwards, Advances, OneSeat
  <2>4. CASE Kind(g) \notin {"left", "matched"}
    BY <1>1, <2>1, <2>4, Becomes DEF Afterwards, Advances, Idle, OneSeat
  <2>5. QED BY <2>2, <2>3, <2>4
<1>4. QED BY <1>2, <1>3

\* After a word to a player comes the other one, after the answer to a
\* reconnection the state.
Answered(g) ==
  \/ Kind(g) \in Words /\ Advances(g)
  \/ Kind(g) = "reconnected" /\ Takes(g, "look", "state", 0, NoClient, 0)
  \/ /\ Kind(g) \notin Words \cup {"reconnected"}
     /\ Takes(g, "idle", "none", 0, NoClient, 0)

LEMMA SendAnswers ==
  ASSUME DeliveryTypeOK, NEW g \in Goroutines, AfterSend(g)
  PROVE  Answered(g)
<1>1. /\ {"idle", "look"} \subseteq PCs /\ {"none", "state"} \subseteq Kinds
      /\ 0 \in Seats /\ 0 \in Nat /\ NoClient \in MaybeClient
  BY DEF PCs, Writing, Kinds, Seats, MaybeClient
<1>2. CASE Kind(g) \in Words
  BY <1>2, SeatAdvances DEF AfterSend, Answered
<1>3. CASE Kind(g) = "reconnected"
  BY <1>1, <1>3, Becomes DEF AfterSend, Answered, Words, Broadcast, FirstStep
<1>4. CASE Kind(g) \notin Words \cup {"reconnected"}
  BY <1>1, <1>4, Becomes DEF AfterSend, Answered, Idle
<1>5. QED BY <1>2, <1>3, <1>4

-----------------------------------------------------------------------------
(* What a step of one goroutine leaves alone.                              *)

Holding == {"put", "turn", "cut"}

LEMMA AimsFrame ==
  ASSUME Aims, NEW g \in Goroutines, Alone(g), AimsAt(g)',
         g = Hub \/ newcomer' = newcomer
  PROVE  Aims'
<1>1. ASSUME NEW h \in Goroutines, h # g PROVE AimsAt(h)'
  <2>1. AimsAt(h) /\ job'[h] = job[h]
    BY <1>1 DEF Aims, Alone
  <2>2. h = Hub => newcomer' = newcomer
    BY <1>1
  <2>3. QED BY <2>1, <2>2 DEF AimsAt, At, Kind, Target
<1>2. QED BY <1>1 DEF Aims

\* g holds no mutex before the step or after it.
LEMMA OwnersFrame ==
  ASSUME Owners, NEW g \in Goroutines, Alone(g), UNCHANGED lockVars,
         job[g].at \notin Holding \cup {"write"},
         job'[g].at \notin Holding \cup {"write"}
  PROVE  Owners'
<1>1. ASSUME NEW h \in Goroutines, NEW c \in Clients
      PROVE  /\ closeMu'[c] = h <=> job'[h].at \in Holding /\ job'[h].to = c
             /\ writeMu'[c] = h <=> job'[h].at = "write" /\ job'[h].to = c
  <2>1. h # g => job'[h] = job[h]
    BY DEF Alone
  <2>2. QED BY <2>1 DEF Owners, At, Target, Holding, lockVars
<1>2. QED BY <1>1 DEF Owners, At, Target, Holding

\* g takes or gives back the closeMu of c ...
LEMMA CloseMuTaken ==
  ASSUME Owners, DeliveryTypeOK, NEW g \in Goroutines, NEW c \in Clients,
         Alone(g), closeMu[c] = Nobody, closeMu' = [closeMu EXCEPT ![c] = g],
         writeMu' = writeMu,
         job[g].at \notin Holding \cup {"write"},
         job'[g].at \in Holding, job'[g].to = c
  PROVE  Owners'
<1>1. ASSUME NEW h \in Goroutines, NEW d \in Clients
      PROVE  /\ closeMu'[d] = h <=> job'[h].at \in Holding /\ job'[h].to = d
             /\ writeMu'[d] = h <=> job'[h].at = "write" /\ job'[h].to = d
  <2>1. closeMu'[d] = IF d = c THEN g ELSE closeMu[d]
    BY DEF DeliveryTypeOK
  <2>2. h # g => job'[h] = job[h]
    BY DEF Alone
  <2>3. /\ closeMu[d] = h <=> job[h].at \in Holding /\ job[h].to = d
        /\ writeMu[d] = h <=> job[h].at = "write" /\ job[h].to = d
    BY DEF Owners, At, Target, Holding
  <2>4. closeMu[c] # h
    BY Names
  <2>5. QED BY <2>1, <2>2, <2>3, <2>4 DEF Holding
<1>2. QED BY <1>1 DEF Owners, At, Target, Holding

LEMMA CloseMuGiven ==
  ASSUME Owners, DeliveryTypeOK, NEW g \in Goroutines, NEW c \in Clients,
         Alone(g), job[g].at \in Holding, job[g].to = c,
         closeMu' = [closeMu EXCEPT ![c] = Nobody],
         job'[g].at \notin Holding,
         \/ job'[g].at # "write" /\ writeMu' = writeMu
         \/ /\ job'[g].at = "write" /\ job'[g].to = c
            /\ writeMu[c] = Nobody /\ writeMu' = [writeMu EXCEPT ![c] = g]
  PROVE  Owners'
<1>1. ASSUME NEW h \in Goroutines, NEW d \in Clients
      PROVE  /\ closeMu'[d] = h <=> job'[h].at \in Holding /\ job'[h].to = d
             /\ writeMu'[d] = h <=> job'[h].at = "write" /\ job'[h].to = d
  <2>1. /\ closeMu'[d] = IF d = c THEN Nobody ELSE closeMu[d]
        /\ writeMu'[d] = IF d = c /\ job'[g].at = "write" THEN g ELSE writeMu[d]
    BY DEF DeliveryTypeOK
  <2>2. h # g => job'[h] = job[h]
    BY DEF Alone
  <2>3. /\ closeMu[d] = h <=> job[h].at \in Holding /\ job[h].to = d
        /\ writeMu[d] = h <=> job[h].at = "write" /\ job[h].to = d
        /\ closeMu[c] = g
    BY DEF Owners, At, Target, Holding
  <2>4. h # Nobody
    BY Names
  <2>5. QED BY <2>1, <2>2, <2>3, <2>4 DEF Holding
<1>2. QED BY <1>1 DEF Owners, At, Target, Holding

\* ... and takes or gives back its writeMu.
LEMMA WriteMuTaken ==
  ASSUME Owners, DeliveryTypeOK, NEW g \in Goroutines, NEW c \in Clients,
         Alone(g), writeMu[c] = Nobody, writeMu' = [writeMu EXCEPT ![c] = g],
         closeMu' = closeMu,
         job[g].at \notin Holding \cup {"write"},
         job'[g].at = "write", job'[g].to = c
  PROVE  Owners'
<1>1. ASSUME NEW h \in Goroutines, NEW d \in Clients
      PROVE  /\ closeMu'[d] = h <=> job'[h].at \in Holding /\ job'[h].to = d
             /\ writeMu'[d] = h <=> job'[h].at = "write" /\ job'[h].to = d
  <2>1. writeMu'[d] = IF d = c THEN g ELSE writeMu[d]
    BY DEF DeliveryTypeOK
  <2>2. h # g => job'[h] = job[h]
    BY DEF Alone
  <2>3. /\ closeMu[d] = h <=> job[h].at \in Holding /\ job[h].to = d
        /\ writeMu[d] = h <=> job[h].at = "write" /\ job[h].to = d
    BY DEF Owners, At, Target, Holding
  <2>4. writeMu[c] # h
    BY Names
  <2>5. QED BY <2>1, <2>2, <2>3, <2>4 DEF Holding
<1>2. QED BY <1>1 DEF Owners, At, Target, Holding

LEMMA WriteMuGiven ==
  ASSUME Owners, DeliveryTypeOK, NEW g \in Goroutines, NEW c \in Clients,
         Alone(g), At(g, "write"), Target(g) = c,
         writeMu' = [writeMu EXCEPT ![c] = Nobody], closeMu' = closeMu,
         job'[g].at \notin Holding \cup {"write"}
  PROVE  Owners'
<1>1. ASSUME NEW h \in Goroutines, NEW d \in Clients
      PROVE  /\ closeMu'[d] = h <=> job'[h].at \in Holding /\ job'[h].to = d
             /\ writeMu'[d] = h <=> job'[h].at = "write" /\ job'[h].to = d
  <2>1. writeMu'[d] = IF d = c THEN Nobody ELSE writeMu[d]
    BY DEF DeliveryTypeOK
  <2>2. h # g => job'[h] = job[h]
    BY DEF Alone
  <2>3. /\ closeMu[d] = h <=> job[h].at \in Holding /\ job[h].to = d
        /\ writeMu[d] = h <=> job[h].at = "write" /\ job[h].to = d
        /\ writeMu[c] = g
    BY DEF Owners, At, Target, Holding
  <2>4. h # Nobody /\ job[g].at = "write" /\ job[g].to = c
    BY Names DEF At, Target
  <2>5. QED BY <2>1, <2>2, <2>3, <2>4 DEF Holding
<1>2. QED BY <1>1 DEF Owners, At, Target, Holding

\* What the holder of a mutex relies on is not touched, and g comes to rely on
\* nothing.
LEMMA FlagsFrame ==
  ASSUME Flags, NEW g \in Goroutines, Alone(g), UNCHANGED <<closed, cut>>,
         job'[g].at \notin Holding, job'[g].at = "write" => g \notin Players
  PROVE  Flags'
<1>1. ASSUME NEW h \in Goroutines
      PROVE  /\ job'[h].at \in {"put", "turn"} => ~closed'[job'[h].to]
             /\ job'[h].at = "cut" => closed'[job'[h].to]
             /\ h \in Players /\ job'[h].at = "write" => job'[h].to \notin cut'
  <2>1. h # g => job'[h] = job[h]
    BY DEF Alone
  <2>2. QED BY <2>1 DEF Flags, NoDirectWriteAfterClose, At, Target, Holding
<1>2. QED BY <1>1, Names DEF Flags, NoDirectWriteAfterClose, At, Target

\* Nobody is registered, and no new connection begins.
LEMMA DuesFrame ==
  ASSUME Dues, NEW g \in Goroutines, Alone(g),
         UNCHANGED <<due, version, hub, newcomer>>,
         job[g].at # "new", job'[g].at # "new"
  PROVE  Dues'
<1>1. ASSUME NEW c \in Clients
      PROVE  /\ due'[c] <= version'
             /\ job'[Reader(c)].at = "new" =>
                  job'[Pump(c)].at = "new" /\ newcomer' # c
             /\ job'[Reader(c)].at = "new" \/ newcomer' = c =>
                  due'[c] = 0 /\ hub'[SeatOf[c]] # c
  <2>1. /\ Reader(c) # g => job'[Reader(c)] = job[Reader(c)]
        /\ Pump(c) # g => job'[Pump(c)] = job[Pump(c)]
    BY Names DEF Alone
  <2>2. QED BY <2>1 DEF Dues, At
<1>2. QED BY <1>1 DEF Dues, At

\* g was not on its way to show the game.
LEMMA ReachFrame ==
  ASSUME Reach, NEW g \in Goroutines, Alone(g), UNCHANGED <<newest, due>>,
         \A c \in Clients : Open(c)' => Open(c),
         g \in Players => ~Showing(g)
  PROVE  Reach'
<1>1. ASSUME NEW c \in Clients, NEW h \in Players, Carries(h, c)
      PROVE  Carries(h, c)'
  <2>1. h # g
    BY <1>1 DEF Carries
  <2>2. job'[h] = job[h]
    BY <2>1, Names DEF Alone
  <2>3. QED BY <1>1, <2>2 DEF Carries, At, Kind, Target, Showing, Announces, ShowsGame
<1>2. QED BY <1>1 DEF Reach

\* Whatever another goroutine carried it still carries.
LEMMA CarriedOn ==
  ASSUME NEW g \in Goroutines, Alone(g), due' = due,
         g \in Players => ~Showing(g)
  PROVE  \A c \in Clients, h \in Players : Carries(h, c) => Carries(h, c)'
<1>1. ASSUME NEW c \in Clients, NEW h \in Players, Carries(h, c)
      PROVE  Carries(h, c)'
  <2>1. h # g
    BY <1>1 DEF Carries
  <2>2. job'[h] = job[h]
    BY <2>1, Names DEF Alone
  <2>3. QED BY <1>1, <2>2 DEF Carries, At, Kind, Target, Showing, Announces, ShowsGame
<1>2. QED BY <1>1

\* g takes a step of its broadcast.
LEMMA CarrierMoves ==
  ASSUME Reach, DeliveryTypeOK, NEW g \in Players, Alone(g), due' = due,
         \A c \in Clients : Open(c)' => Open(c),
         \A c \in Clients : newest'[c] >= newest[c] /\ newest'[c] \in Nat,
         \A c \in Clients :
           Carries(g, c) /\ Open(c)' /\ newest'[c] < due[c] => Carries(g, c)'
  PROVE  Reach'
<1>1. ASSUME NEW c \in Clients, Open(c)', newest'[c] < due'[c]
      PROVE  \E h \in Players : Carries(h, c)'
  <2>1. newest[c] < due[c]
    BY <1>1 DEF DeliveryTypeOK
  <2>2. PICK h \in Players : Carries(h, c)
    BY <1>1, <2>1 DEF Reach
  <2>3. CASE h = g
    BY <1>1, <2>2, <2>3
  <2>4. CASE h # g
    <3>1. job'[h] = job[h]
      BY <2>4, Names DEF Alone
    <3>2. Carries(h, c)'
      BY <2>2, <3>1 DEF Carries, At, Kind, Target, Showing, Announces, ShowsGame
    <3>3. QED BY <3>2
  <2>5. QED BY <2>3, <2>4
<1>2. QED BY <1>1 DEF Reach

\* The hub registers the newcomer, which is owed nothing yet.
LEMMA Entering ==
  ASSUME DeliveryInv, newcomer \in Clients, Alone(Hub),
         hub' = [hub EXCEPT ![SeatOf[newcomer]] = newcomer], newcomer' = NoClient,
         UNCHANGED <<due, version, newest, broken>>,
         \A c \in Clients : ~closed'[c] => ~closed[c],
         job[Hub].at # "new", job'[Hub].at # "new"
  PROVE  Dues' /\ Reach'
<1>1. ASSUME NEW c \in Clients
      PROVE  hub'[SeatOf[c]] = c <=>
               \/ c = newcomer
               \/ hub[SeatOf[c]] = c /\ SeatOf[c] # SeatOf[newcomer]
  BY DeliveryAssumption DEF DeliveryInv, DeliveryTypeOK
<1>2. ASSUME NEW c \in Clients
      PROVE  /\ due'[c] <= version'
             /\ job'[Reader(c)].at = "new" =>
                  job'[Pump(c)].at = "new" /\ newcomer' # c
             /\ job'[Reader(c)].at = "new" \/ newcomer' = c =>
                  due'[c] = 0 /\ hub'[SeatOf[c]] # c
  <2>1. /\ Reader(c) # Hub /\ Pump(c) # Hub
        /\ job'[Reader(c)] = job[Reader(c)] /\ job'[Pump(c)] = job[Pump(c)]
    BY Names DEF Alone
  <2>2. newcomer' # c
    BY DeliveryAssumption
  <2>3. job[Reader(c)].at = "new" => c # newcomer
    BY DEF DeliveryInv, Dues, At
  <2>4. QED BY <1>1, <2>1, <2>2, <2>3 DEF DeliveryInv, Dues, At
<1>3. \A c \in Clients, h \in Players : Carries(h, c) => Carries(h, c)'
  BY Names, CarriedOn
<1>4. ASSUME NEW c \in Clients, Open(c)', newest'[c] < due'[c]
      PROVE  \E h \in Players : Carries(h, c)'
  <2>1. CASE c = newcomer
    BY <1>4, <2>1 DEF DeliveryInv, Dues, DeliveryTypeOK
  <2>2. CASE c # newcomer
    BY <1>1, <1>3, <1>4, <2>2 DEF DeliveryInv, Reach, Open
  <2>3. QED BY <2>1, <2>2
<1>5. QED BY <1>2, <1>4 DEF Dues, Reach, At

\* A broadcast that goes on with the other seat will reach it, and the word of
\* the start is followed by one.
LEMMA AdvanceCarries ==
  ASSUME DeliveryTypeOK, NEW g \in Players, NEW d \in Clients, Advances(g),
         Carries(g, d), due' = due,
         \/ Kind(g) = "matched"
         \/ ~Announces(g) /\ job[g].seat < SeatOf[d]
  PROVE  Carries(g, d)'
<1>1. job[g].seat \in Seats /\ SeatOf[d] \in Seats
  <2>1. job[g] \in Job
    BY Names DEF DeliveryTypeOK
  <2>2. QED BY <2>1, JobShape, DeliveryAssumption
<1>2. CASE Kind(g) = "matched"
  <2>1. \/ Takes(g, "look", "state", 0, NoClient, 0)
        \/ Takes(g, "look", "matched", 1, NoClient, 0)
    BY <1>1, <1>2 DEF Advances, FirstStep, OneSeat, Seats
  <2>2. QED BY <1>1, <2>1
            DEF Takes, Carries, At, Kind, Showing, Announces, ShowsGame,
                Writing, Seats
<1>3. CASE ~Announces(g) /\ job[g].seat < SeatOf[d]
  <2>1. job[g].seat = 0 /\ SeatOf[d] = 1
    BY <1>1, <1>3 DEF Seats
  <2>2. /\ Kind(g) \in {"state", "notice", "end"}
        /\ Kind(g) = "end" => job[g].got >= due[d]
    BY <1>3, <2>1 DEF Carries, Showing, Announces, ShowsGame
  <2>3. Takes(g, FirstStep(Kind(g)), Kind(g), 1, NoClient,
              IF Kind(g) = "end" THEN job[g].got ELSE 0)
    BY <2>1, <2>2 DEF Advances, OneSeat
  <2>4. QED BY <2>1, <2>2, <2>3
            DEF Takes, FirstStep, Carries, At, Kind, Showing, Announces,
                ShowsGame, Writing
<1>4. QED BY <1>2, <1>3

LEMMA AnswerCarries ==
  ASSUME DeliveryTypeOK, NEW g \in Players, NEW d \in Clients, Answered(g),
         Carries(g, d), due' = due, job[g].at \in {"answer", "put"}
  PROVE  Carries(g, d)'
<1>1. Kind(g) \in {"matched", "reconnected"} /\ SeatOf[d] \in Seats
  BY DeliveryAssumption DEF Carries, Showing, Announces, Writing
<1>2. CASE Kind(g) = "matched"
  BY <1>2, AdvanceCarries DEF Answered, Words
<1>3. CASE Kind(g) = "reconnected"
  <2>1. Takes(g, "look", "state", 0, NoClient, 0)
    BY <1>3 DEF Answered, Words
  <2>2. QED BY <1>1, <2>1
            DEF Takes, Carries, At, Kind, Showing, ShowsGame, Writing, Seats
<1>4. QED BY <1>1, <1>2, <1>3

-----------------------------------------------------------------------------
(* The steps.                                                              *)

LEMMA ConnectStep ==
  ASSUME DeliveryInv, NEW c \in Clients, Connect(c)
  PROVE  DeliveryInv'
<1>1. /\ job' \in [Goroutines -> Job]
      /\ \A h \in Goroutines \ {Hub, Reader(c), Pump(c)} : job'[h] = job[h]
      /\ At(Reader(c), "new") /\ At(Hub, "idle") /\ At(Pump(c), "new")
      /\ At(Reader(c), "idle")' /\ At(Pump(c), "idle")' /\ At(Hub, "register")'
  <2>1. /\ At(Reader(c), "new") /\ At(Hub, "idle") /\ At(Pump(c), "new")
        /\ job' = [job EXCEPT ![Hub].at = "register", ![Reader(c)] = Idle,
                              ![Pump(c)] = Idle]
    BY DEF Connect, DeliveryInv, Dues
  <2>2. /\ job \in [Goroutines -> Job] /\ job[Hub] \in Job /\ Idle \in Job
        /\ [job[Hub] EXCEPT !.at = "register"] \in Job
        /\ [job[Hub] EXCEPT !.at = "register"].at = "register"
        /\ Idle.at = "idle"
    <3>1. job \in [Goroutines -> Job] /\ job[Hub] \in Job
      BY Names DEF DeliveryInv, DeliveryTypeOK
    <3>2. /\ {"idle", "register"} \subseteq PCs /\ "none" \in Kinds /\ 0 \in Seats
          /\ NoClient \in MaybeClient /\ 0 \in Nat
      BY DEF PCs, Kinds, Seats, MaybeClient
    <3>3. Idle \in Job /\ Idle.at = "idle"
      BY <3>2, JobShape DEF Idle
    <3>4. [job[Hub] EXCEPT !.at = "register"].at = "register"
      BY <3>1 DEF Job
    <3>5. QED BY <3>1, <3>2, <3>3, <3>4, JobShape
  <2>3. Hub # Reader(c) /\ Hub # Pump(c) /\ Reader(c) # Pump(c)
    BY Names
  <2>4. {Hub, Reader(c), Pump(c)} \subseteq Goroutines
    BY Names
  <2>5. /\ job' \in [Goroutines -> Job]
        /\ \A h \in Goroutines \ {Hub, Reader(c), Pump(c)} : job'[h] = job[h]
        /\ job'[Hub] = [job[Hub] EXCEPT !.at = "register"]
        /\ job'[Reader(c)] = Idle /\ job'[Pump(c)] = Idle
    BY <2>1, <2>2, <2>3, <2>4
  <2>6. QED BY <2>1, <2>2, <2>5 DEF At
<1>2. DeliveryTypeOK'
  BY <1>1, DeliveryAssumption
  DEF Connect, lockVars, peerVars, roomVars, shownVars, Takes, Moves, Alone,
      DeliveryInv, DeliveryTypeOK, MaybeClient, Seats
<1>4. Aims'
  <2>1. ASSUME NEW h \in Goroutines, h \notin {Hub, Reader(c), Pump(c)}
        PROVE  AimsAt(h)'
    BY <1>1, <2>1 DEF DeliveryInv, Aims, AimsAt, At, Kind, Target
  <2>2. ASSUME NEW h \in {Hub, Reader(c), Pump(c)} PROVE AimsAt(h)'
    BY <1>1, <2>2, Names DEF AimsAt, Aimed, At, Kind, Target, Connect
  <2>3. QED BY <2>1, <2>2, Names DEF Aims
<1>5. Owners'
  <2>1. ASSUME NEW h \in Goroutines, NEW d \in Clients
        PROVE  /\ closeMu'[d] = h <=> job'[h].at \in Holding /\ job'[h].to = d
               /\ writeMu'[d] = h <=> job'[h].at = "write" /\ job'[h].to = d
    <3>1. closeMu' = closeMu /\ writeMu' = writeMu
      BY DEF Connect, lockVars
    <3>2. CASE h \notin {Hub, Reader(c), Pump(c)}
      BY <1>1, <3>1, <3>2 DEF DeliveryInv, Owners, At, Target, Holding
    <3>3. CASE h \in {Hub, Reader(c), Pump(c)}
      <4>1. /\ job[h].at \notin Holding \cup {"write"}
            /\ job'[h].at \notin Holding \cup {"write"}
        BY <1>1, <3>3 DEF At, Holding
      <4>2. QED BY <3>1, <4>1 DEF DeliveryInv, Owners, At, Target, Holding
    <3>4. QED BY <3>2, <3>3
  <2>2. QED BY <2>1 DEF Owners, At, Target, Holding
<1>6. Flags'
  <2>1. ASSUME NEW h \in Goroutines
        PROVE  \/ job'[h] = job[h]
               \/ job'[h].at \notin Holding \cup {"write"}
    BY <1>1 DEF At, Holding
  <2>2. closed' = closed /\ cut' = cut
    BY DEF Connect, peerVars
  <2>3. QED BY <2>1, <2>2, Names DEF DeliveryInv, Flags, NoDirectWriteAfterClose,
             At, Target, Holding
<1>7. Dues'
  <2>1. ASSUME NEW d \in Clients
        PROVE  /\ job'[Reader(d)].at = "new" => job'[Pump(d)].at = "new"
               /\ job'[Reader(d)].at = "new" => job[Reader(d)].at = "new" /\ d # c
    <3>1. CASE d = c
      BY <1>1, <3>1 DEF At
    <3>2. CASE d # c
      <4>1. /\ job'[Reader(d)] = job[Reader(d)]
            /\ job'[Pump(d)] = job[Pump(d)]
        BY <1>1, <3>2, Names
      <4>2. QED BY <3>2, <4>1 DEF DeliveryInv, Dues, At
    <3>3. QED BY <3>1, <3>2
  <2>2. QED BY <1>1, <2>1 DEF DeliveryInv, Dues, At, Connect, roomVars
<1>8. Reach'
  <2>1. ASSUME NEW h \in Players, NEW d \in Clients, Carries(h, d)
        PROVE  Carries(h, d)'
    <3>1. h \notin {Hub, Reader(c), Pump(c)}
      BY <1>1, <2>1, Names DEF Carries, Showing, Announces, At, Writing
    <3>2. QED BY <1>1, <2>1, <3>1, Names
              DEF Carries, At, Kind, Target, Showing, Announces, ShowsGame, Connect
  <2>2. QED BY <2>1 DEF DeliveryInv, Reach, Open, Connect, shownVars, peerVars
<1>9. QED BY <1>2, <1>4, <1>5, <1>6, <1>7, <1>8 DEF DeliveryInv

LEMMA HubRegisterStep ==
  ASSUME DeliveryInv, HubRegister
  PROVE  DeliveryInv'
<1>1. /\ At(Hub, "register") /\ newcomer \in Clients
      /\ \/ /\ hub' = [hub EXCEPT ![SeatOf[newcomer]] = newcomer]
            /\ newcomer' = NoClient
            /\ Takes(Hub, "idle", "none", 0, NoClient, 0)
         \/ /\ hub[SeatOf[newcomer]] \in Clients /\ UNCHANGED <<hub, newcomer>>
            /\ Takes(Hub, "close", "none", 0, hub[SeatOf[newcomer]], 0)
  <2>1. At(Hub, "register") /\ newcomer \in Clients
    BY Names DEF HubRegister, DeliveryInv, Aims, AimsAt, At
  <2>2. hub[SeatOf[newcomer]] \in MaybeClient
    BY <2>1, DeliveryAssumption DEF DeliveryInv, DeliveryTypeOK
  <2>3. /\ {"idle", "close"} \subseteq PCs /\ "none" \in Kinds
        /\ 0 \in Seats /\ 0 \in Nat /\ NoClient \in MaybeClient
    BY DEF PCs, Kinds, Seats, MaybeClient
  <2>4. CASE hub[SeatOf[newcomer]] = NoClient
    BY <2>1, <2>3, <2>4, Names, Becomes DEF HubRegister, Enters, Idle, DeliveryInv
  <2>5. CASE hub[SeatOf[newcomer]] # NoClient
    BY <2>1, <2>2, <2>3, <2>5, Names, Becomes
    DEF HubRegister, DeliveryInv, MaybeClient
  <2>6. QED BY <2>4, <2>5
<1>2. DeliveryTypeOK'
  <2>1. job' \in [Goroutines -> Job]
    BY <1>1 DEF Takes, Moves, Alone
  <2>2. hub' \in [Seats -> MaybeClient] /\ newcomer' \in MaybeClient
    <3>1. hub \in [Seats -> MaybeClient] /\ newcomer \in MaybeClient
      BY DEF DeliveryInv, DeliveryTypeOK
    <3>2. NoClient \in MaybeClient
      BY DEF MaybeClient
    <3>3. [hub EXCEPT ![SeatOf[newcomer]] = newcomer] \in [Seats -> MaybeClient]
      BY <3>1
    <3>4. \/ /\ hub' = [hub EXCEPT ![SeatOf[newcomer]] = newcomer]
             /\ newcomer' = NoClient
          \/ UNCHANGED <<hub, newcomer>>
      BY <1>1
    <3>5. QED BY <3>1, <3>2, <3>3, <3>4
  <2>3. QED
    BY <2>1, <2>2
    DEF HubRegister, lockVars, peerVars, roomVars, shownVars, DeliveryInv,
        DeliveryTypeOK
<1>3. /\ Alone(Hub) /\ Hub \in Goroutines /\ DeliveryTypeOK
      /\ Aims /\ Owners /\ Flags /\ Dues /\ Reach
  BY <1>1, Names
  DEF Takes, Moves, Alone, DeliveryInv
<1>4. Aims'
  <2>1. AimsAt(Hub)'
    BY <1>1, Names, DeliveryAssumption DEF Takes, AimsAt, Aimed, At, Kind, Target
  <2>2. QED BY <1>3, <2>1, AimsFrame
<1>5. Owners'
  BY <1>1, <1>3, OwnersFrame
  DEF Takes, Moves, At, Kind, Target, Holding, HubRegister, lockVars
<1>6. Flags'
  BY <1>1, <1>3, Names, FlagsFrame
  DEF Takes, Moves, At, Kind, Target, Holding, HubRegister, lockVars, peerVars,
      roomVars, shownVars
<1>7. Dues'
  <2>1. CASE hub[SeatOf[newcomer]] = NoClient
    BY <1>1, <1>3, <2>1, DeliveryAssumption, Entering
    DEF HubRegister, roomVars, shownVars, peerVars, Takes, At
  <2>2. CASE hub[SeatOf[newcomer]] # NoClient
    BY <1>1, <1>3, <2>2, DuesFrame DEF Takes, At, HubRegister, roomVars, Enters
  <2>3. QED BY <2>1, <2>2
<1>8. Reach'
  <2>1. CASE hub[SeatOf[newcomer]] = NoClient
    BY <1>1, <1>3, <2>1, DeliveryAssumption, Entering
    DEF HubRegister, roomVars, shownVars, peerVars, Takes, At
  <2>2. CASE hub[SeatOf[newcomer]] # NoClient
    <3>1. hub' = hub /\ Alone(Hub)
      BY <1>1, <1>3, <2>2 DEF HubRegister
    <3>2. QED BY <1>3, <3>1, Names, ReachFrame
              DEF HubRegister, shownVars, peerVars, Open
  <2>3. QED BY <2>1, <2>2
<1>9. QED BY <1>2, <1>4, <1>5, <1>6, <1>7, <1>8 DEF DeliveryInv

LEMMA HubUnregisterStep ==
  ASSUME DeliveryInv, HubUnregister
  PROVE  DeliveryInv'
<1>1. At(Hub, "unregister") /\ Takes(Hub, "idle", "none", 0, NoClient, 0)
  BY Becomes, JobShape, Names, DeliveryAssumption
  DEF HubUnregister, Idle, At, Target, Kind, DeliveryInv, DeliveryTypeOK, Aims,
      AimsAt, Aimed, PCs, Kinds, Answers, Words, Writing, MaybeClient, Seats
<1>2. DeliveryTypeOK'
  BY <1>1, DeliveryAssumption
  DEF HubUnregister, lockVars, peerVars, roomVars, shownVars, Takes, Moves,
      Alone, DeliveryInv, DeliveryTypeOK, MaybeClient, Seats
<1>3. /\ Alone(Hub) /\ Hub \in Goroutines /\ DeliveryTypeOK
      /\ Aims /\ Owners /\ Flags /\ Dues /\ Reach
  BY <1>1, Names
  DEF Takes, Moves, Alone, DeliveryInv
<1>4. Aims'
  <2>1. newcomer \notin Clients
    BY <1>1, <1>3 DEF Aims, AimsAt, At
  <2>2. AimsAt(Hub)'
    BY <1>1, <2>1, Names DEF Takes, AimsAt, Aimed, At, Kind, Target, HubUnregister
  <2>3. QED BY <1>3, <2>2, AimsFrame
<1>5. Owners'
  BY <1>1, <1>3, OwnersFrame
  DEF Takes, Moves, At, Kind, Target, Holding, HubUnregister, lockVars
<1>6. Flags'
  BY <1>1, <1>3, Names, FlagsFrame
  DEF Takes, Moves, At, Kind, Target, Holding, HubUnregister, lockVars,
      peerVars, roomVars, shownVars
<1>7. Dues'
  <2>1. \A c \in Clients : hub'[SeatOf[c]] = c => hub[SeatOf[c]] = c
    BY <1>1, DeliveryAssumption
    DEF HubUnregister, DeliveryInv, DeliveryTypeOK
  <2>2. \A c \in Clients : Reader(c) # Hub /\ Pump(c) # Hub
    BY Names
  <2>3. \A c \in Clients :
          job'[Reader(c)] = job[Reader(c)] /\ job'[Pump(c)] = job[Pump(c)]
    BY <1>3, <2>2, Names DEF Alone
  <2>4. QED BY <1>3, <2>1, <2>3 DEF Dues, At, HubUnregister, roomVars
<1>8. Reach'
  <2>1. \A c \in Clients : hub'[SeatOf[c]] = c => hub[SeatOf[c]] = c
    BY <1>1, DeliveryAssumption
    DEF HubUnregister, DeliveryInv, DeliveryTypeOK
  <2>2. QED BY <1>3, <2>1, Names, ReachFrame
            DEF HubUnregister, shownVars, peerVars, Open
<1>9. QED BY <1>2, <1>4, <1>5, <1>6, <1>7, <1>8 DEF DeliveryInv

LEMMA BeginCloseStep ==
  ASSUME DeliveryInv, NEW g \in Goroutines, BeginClose(g)
  PROVE  DeliveryInv'
<1>1. /\ At(g, "close") /\ Target(g) \in Clients
      /\ \/ /\ Moves(g, "cut") /\ UNCHANGED <<hub, newcomer>>
            /\ ~closed[Target(g)] /\ closed' = [closed EXCEPT ![Target(g)] = TRUE]
            /\ closeMu' = [closeMu EXCEPT ![Target(g)] = g]
         \/ /\ closed[Target(g)] /\ UNCHANGED <<closed, closeMu>>
            /\ g = Hub => /\ Takes(Hub, "idle", "none", 0, NoClient, 0)
                          /\ hub' = [hub EXCEPT ![SeatOf[newcomer]] = newcomer]
                          /\ newcomer' = NoClient
            /\ g # Hub => /\ Takes(g, "gone", "none", 0, NoClient, 0)
                          /\ UNCHANGED <<hub, newcomer>>
  BY Becomes, Goes, JobShape, Names, DeliveryAssumption
  DEF BeginClose, AfterClose, Enters, Idle, Gone, At, Target, Kind,
      DeliveryInv, DeliveryTypeOK, Aims, AimsAt, Aimed, PCs, Kinds, Answers, Words,
      Writing, MaybeClient, Seats
<1>2. DeliveryTypeOK'
  <2>1. job' \in [Goroutines -> Job]
    BY <1>1 DEF Takes, Moves, Alone
  <2>2. hub' \in [Seats -> MaybeClient] /\ newcomer' \in MaybeClient
    <3>1. hub \in [Seats -> MaybeClient] /\ newcomer \in MaybeClient
      BY DEF DeliveryInv, DeliveryTypeOK
    <3>2. NoClient \in MaybeClient
      BY DEF MaybeClient
    <3>3. [hub EXCEPT ![SeatOf[newcomer]] = newcomer] \in [Seats -> MaybeClient]
      BY <3>1
    <3>4. \/ /\ hub' = [hub EXCEPT ![SeatOf[newcomer]] = newcomer]
             /\ newcomer' = NoClient
          \/ UNCHANGED <<hub, newcomer>>
      BY <1>1
    <3>5. QED BY <3>1, <3>2, <3>3, <3>4
  <2>3. closed' \in [Clients -> BOOLEAN]
    BY <1>1
    DEF BeginClose, DeliveryInv, DeliveryTypeOK
  <2>4. closeMu' \in [Clients -> Goroutines \cup {Nobody}]
    BY <1>1, Names
    DEF BeginClose, DeliveryInv, DeliveryTypeOK
  <2>5. QED
    BY <2>1, <2>2, <2>3, <2>4
    DEF BeginClose, peerVars, roomVars, shownVars, DeliveryInv, DeliveryTypeOK
<1>3. /\ Alone(g) /\ g \in Goroutines /\ DeliveryTypeOK
      /\ Aims /\ Owners /\ Flags /\ Dues /\ Reach
  BY <1>1, Names
  DEF Takes, Moves, Alone, DeliveryInv
<1>4. Aims'
  <2>1. \A c \in Clients : g = Reader(c) => g # Hub
    BY Names
  <2>2. g = Hub => newcomer \in Clients
    BY <1>1, <1>3 DEF Aims, AimsAt, At
  <2>3. AimsAt(g)'
    BY <1>1, <2>1, <2>2, DeliveryAssumption
    DEF Takes, Moves, AimsAt, Aimed, At, Kind, Target
  <2>4. QED BY <1>1, <1>3, <2>3, AimsFrame
<1>5. Owners'
  <2>1. CASE closed[Target(g)]
    BY <1>1, <1>3, <2>1, Names, OwnersFrame
    DEF At, Holding, BeginClose, lockVars, Takes
  <2>2. CASE ~closed[Target(g)]
    <3>1. /\ job[g].at \notin Holding \cup {"write"} /\ writeMu' = writeMu
          /\ job'[g].at \in Holding /\ job'[g].to = Target(g)
          /\ closeMu[Target(g)] = Nobody
          /\ closeMu' = [closeMu EXCEPT ![Target(g)] = g]
      BY <1>1, <2>2 DEF At, Holding, BeginClose, Takes, Moves, Target
    <3>2. QED BY <1>1, <1>3, <3>1, CloseMuTaken
  <2>3. QED BY <2>1, <2>2
<1>6. Flags'
  <2>1. CASE closed[Target(g)]
    BY <1>1, <1>3, <2>1, Names, FlagsFrame
    DEF At, Holding, BeginClose, peerVars, Takes
  <2>2. CASE ~closed[Target(g)]
    <3>1. /\ Moves(g, "cut") /\ closeMu[Target(g)] = Nobody /\ cut' = cut
          /\ closed' = [closed EXCEPT ![Target(g)] = TRUE]
      BY <1>1, <2>2 DEF BeginClose, peerVars
    <3>2. \A c \in Clients : closed'[c] <=> closed[c] \/ c = Target(g)
      BY <1>1, <3>1 DEF DeliveryInv, DeliveryTypeOK
    <3>3. ASSUME NEW h \in Goroutines, h # g
          PROVE  /\ job'[h].at \in {"put", "turn"} => ~closed'[job'[h].to]
                 /\ job'[h].at = "cut" => closed'[job'[h].to]
                 /\ h \in Players /\ job'[h].at = "write" =>
                      job'[h].to \notin cut'
      <4>1. job'[h] = job[h]
        BY <1>3, <3>3 DEF Alone
      <4>2. job[h].at \in {"put", "turn", "cut", "write"} => job[h].to \in Clients
        BY <1>3 DEF Aims, AimsAt, Aimed, Target
      <4>3. job[h].at \in {"put", "turn"} => job[h].to # Target(g)
        BY <1>3, <3>1, <4>2, Names DEF Owners, Target
      <4>4. QED BY <1>3, <3>1, <3>2, <4>1, <4>2, <4>3
                DEF Flags, NoDirectWriteAfterClose, At, Target
    <3>4. job'[g].at = "cut" /\ job'[g].to = Target(g)
      BY <3>1 DEF Moves, Takes, Target
    <3>5. cut \subseteq Clients
      BY DEF DeliveryInv, DeliveryTypeOK
    <3>6. QED BY <1>1, <1>3, <3>1, <3>2, <3>3, <3>4, <3>5, Names
              DEF Flags, NoDirectWriteAfterClose, At, Target
  <2>3. QED BY <2>1, <2>2
<1>7. Dues'
  <2>1. CASE closed[Target(g)] /\ g = Hub
    <3>1. newcomer \in Clients
      BY <1>1, <1>3, <2>1 DEF Aims, AimsAt, At
    <3>2. QED BY <1>1, <1>3, <2>1, <3>1, Entering
              DEF BeginClose, DeliveryTypeOK, roomVars, shownVars, peerVars, Takes,
                  At
  <2>2. CASE ~(closed[Target(g)] /\ g = Hub)
    <3>1. hub' = hub /\ newcomer' = newcomer
      BY <1>1, <2>2
    <3>2. QED BY <1>1, <1>3, <2>2, <3>1, DuesFrame
              DEF BeginClose, roomVars, Takes, Moves, At
  <2>3. QED BY <2>1, <2>2
<1>8. Reach'
  <2>1. CASE closed[Target(g)] /\ g = Hub
    <3>1. newcomer \in Clients
      BY <1>1, <1>3, <2>1 DEF Aims, AimsAt, At
    <3>2. QED BY <1>1, <1>3, <2>1, <3>1, Entering
              DEF BeginClose, DeliveryTypeOK, roomVars, shownVars, peerVars, Takes,
                  At
  <2>2. CASE ~(closed[Target(g)] /\ g = Hub)
    <3>1. hub' = hub
      BY <1>1, <2>2
    <3>2. \A c \in Clients : Open(c)' => Open(c)
      BY <1>1, <3>1 DEF BeginClose, peerVars, Open, DeliveryInv, DeliveryTypeOK
    <3>3. ~Showing(g)
      BY <1>1 DEF Showing, Announces, At, Writing
    <3>4. QED BY <1>3, <3>2, <3>3, ReachFrame DEF BeginClose, shownVars
  <2>3. QED BY <2>1, <2>2
<1>9. QED BY <1>2, <1>4, <1>5, <1>6, <1>7, <1>8 DEF DeliveryInv

LEMMA CutConnectionStep ==
  ASSUME DeliveryInv, NEW g \in Goroutines, CutConnection(g)
  PROVE  DeliveryInv'
<1>1. /\ At(g, "cut") /\ Target(g) \in Clients
      /\ g = Hub => /\ Takes(Hub, "idle", "none", 0, NoClient, 0)
                    /\ hub' = [hub EXCEPT ![SeatOf[newcomer]] = newcomer]
                    /\ newcomer' = NoClient
      /\ g # Hub => /\ Takes(g, "gone", "none", 0, NoClient, 0)
                    /\ UNCHANGED <<hub, newcomer>>
  BY Becomes, JobShape, Names, DeliveryAssumption
  DEF CutConnection, AfterClose, Enters, Idle, Gone, At, Target, Kind,
      DeliveryInv, DeliveryTypeOK, Aims, AimsAt, Aimed, PCs, Kinds, Answers, Words,
      Writing, MaybeClient, Seats
<1>2. DeliveryTypeOK'
  <2>1. job' \in [Goroutines -> Job]
    BY <1>1 DEF Takes, Moves, Alone
  <2>2. hub' \in [Seats -> MaybeClient] /\ newcomer' \in MaybeClient
    <3>1. hub \in [Seats -> MaybeClient] /\ newcomer \in MaybeClient
      BY DEF DeliveryInv, DeliveryTypeOK
    <3>2. NoClient \in MaybeClient
      BY DEF MaybeClient
    <3>3. [hub EXCEPT ![SeatOf[newcomer]] = newcomer] \in [Seats -> MaybeClient]
      BY <3>1
    <3>4. \/ /\ hub' = [hub EXCEPT ![SeatOf[newcomer]] = newcomer]
             /\ newcomer' = NoClient
          \/ UNCHANGED <<hub, newcomer>>
      BY <1>1
    <3>5. QED BY <3>1, <3>2, <3>3, <3>4
  <2>3. cut' \in SUBSET Clients
    BY <1>1
    DEF CutConnection, DeliveryInv, DeliveryTypeOK
  <2>4. closeMu' \in [Clients -> Goroutines \cup {Nobody}]
    BY <1>1, Names
    DEF CutConnection, DeliveryInv, DeliveryTypeOK
  <2>5. QED
    BY <2>1, <2>2, <2>3, <2>4
    DEF CutConnection, roomVars, shownVars, DeliveryInv, DeliveryTypeOK
<1>3. /\ Alone(g) /\ g \in Goroutines /\ DeliveryTypeOK
      /\ Aims /\ Owners /\ Flags /\ Dues /\ Reach
  BY <1>1, Names
  DEF Takes, Moves, Alone, DeliveryInv
<1>4. Aims'
  <2>1. \A c \in Clients : g = Reader(c) => g # Hub
    BY Names
  <2>2. g = Hub => newcomer \in Clients
    BY <1>1, <1>3 DEF Aims, AimsAt, At
  <2>3. AimsAt(g)'
    BY <1>1, <2>1, <2>2, DeliveryAssumption
    DEF Takes, Moves, AimsAt, Aimed, At, Kind, Target
  <2>4. QED BY <1>1, <1>3, <2>3, AimsFrame
<1>5. Owners'
  <2>1. /\ job[g].at \in Holding /\ job[g].to = Target(g)
        /\ job'[g].at \notin Holding \cup {"write"}
    BY <1>1 DEF At, Target, Holding, Takes
  <2>2. QED BY <1>1, <1>3, <2>1, CloseMuGiven DEF CutConnection
<1>6. Flags'
  <2>1. ASSUME NEW h \in Goroutines, h # g
        PROVE  /\ job'[h].at \in {"put", "turn"} => ~closed'[job'[h].to]
               /\ job'[h].at = "cut" => closed'[job'[h].to]
               /\ h \in Players /\ job'[h].at = "write" => job'[h].to \notin cut'
    <3>1. job'[h] = job[h]
      BY <1>3, <2>1 DEF Alone
    <3>2. job[h].at = "write" => job[h].to # Target(g)
      BY <1>1, <1>3, Names DEF Owners, Target, At, CutConnection
    <3>3. QED BY <1>3, <3>1, <3>2
              DEF Flags, NoDirectWriteAfterClose, At, Target, CutConnection
  <2>2. job'[g].at \notin Holding \cup {"write"}
    BY <1>1 DEF Takes, Holding
  <2>3. \A c \in cut' : closed'[c]
    BY <1>1, <1>3 DEF Flags, CutConnection
  <2>4. QED BY <2>1, <2>2, <2>3, Names
            DEF Flags, NoDirectWriteAfterClose, At, Target, Holding
<1>7. Dues'
  <2>1. CASE g = Hub
    <3>1. newcomer \in Clients
      BY <1>1, <1>3, <2>1 DEF Aims, AimsAt, At
    <3>2. QED BY <1>1, <1>3, <2>1, <3>1, Entering
              DEF CutConnection, roomVars, shownVars, peerVars, Takes,
                  At
  <2>2. CASE ~(g = Hub)
    <3>1. hub' = hub /\ newcomer' = newcomer
      BY <1>1, <2>2
    <3>2. QED BY <1>1, <1>3, <2>2, <3>1, DuesFrame
              DEF CutConnection, roomVars, Takes, Moves, At
  <2>3. QED BY <2>1, <2>2
<1>8. Reach'
  <2>1. CASE g = Hub
    <3>1. newcomer \in Clients
      BY <1>1, <1>3, <2>1 DEF Aims, AimsAt, At
    <3>2. QED BY <1>1, <1>3, <2>1, <3>1, Entering
              DEF CutConnection, roomVars, shownVars, peerVars, Takes,
                  At
  <2>2. CASE ~(g = Hub)
    <3>1. hub' = hub
      BY <1>1, <2>2
    <3>2. \A c \in Clients : Open(c)' => Open(c)
      BY <1>1, <3>1 DEF CutConnection, peerVars, Open, DeliveryInv, DeliveryTypeOK
    <3>3. ~Showing(g)
      BY <1>1 DEF Showing, Announces, At, Writing
    <3>4. QED BY <1>3, <3>2, <3>3, ReachFrame DEF CutConnection, shownVars
  <2>3. QED BY <2>1, <2>2
<1>9. QED BY <1>2, <1>4, <1>5, <1>6, <1>7, <1>8 DEF DeliveryInv

LEMMA LookStep ==
  ASSUME DeliveryInv, NEW g \in Players, Look(g)
  PROVE  DeliveryInv'
<1>1. /\ At(g, "look")
      /\ \/ hub[job[g].seat] = NoClient /\ Advances(g)
         \/ /\ hub[job[g].seat] \in Clients
            /\ Takes(g, WhenFound(Kind(g)), Kind(g), job[g].seat,
                     hub[job[g].seat], job[g].got)
  <2>1. /\ job[g] \in Job /\ g \in Goroutines /\ job \in [Goroutines -> Job]
        /\ hub[job[g].seat] \in MaybeClient
    BY Names, JobShape DEF DeliveryInv, DeliveryTypeOK
  <2>2. CASE hub[job[g].seat] = NoClient
    BY <2>1, <2>2, SeatAdvances DEF Look, DeliveryInv
  <2>3. CASE hub[job[g].seat] # NoClient
    <3>1. PICK pc \in PCs : /\ pc = WhenFound(Kind(g))
                            /\ job' = [job EXCEPT ![g].at = pc,
                                                  ![g].to = hub[job[g].seat]]
      BY <2>1, <2>3 DEF Look, WhenFound, PCs, Writing
    <3>2. Takes(g, pc, Kind(g), job[g].seat, hub[job[g].seat], job[g].got)
      BY <2>1, <3>1 DEF Takes, Alone, Kind, Job
    <3>3. QED BY <2>1, <2>3, <3>1, <3>2 DEF Look, MaybeClient
  <2>4. QED BY <2>2, <2>3
<1>2. DeliveryTypeOK'
  <2>1. job' \in [Goroutines -> Job]
    BY <1>1 DEF Takes, Alone, Advances
  <2>2. state' \in [Clients -> {"Lobby", "Waiting", "InGame"}]
    <3>1. state \in [Clients -> {"Lobby", "Waiting", "InGame"}]
      BY DEF DeliveryInv, DeliveryTypeOK
    <3>2. CASE hub[job[g].seat] = NoClient
      BY <3>1, <3>2 DEF Look
    <3>3. CASE hub[job[g].seat] # NoClient
      <4>1. PICK x \in {"Lobby", "Waiting", "InGame"} :
              state' = [state EXCEPT ![hub[job[g].seat]] = x]
        BY <1>1, <3>1, <3>3 DEF Look
      <4>2. QED BY <3>1, <4>1
    <3>4. QED BY <3>2, <3>3
  <2>3. QED
    BY <2>1, <2>2
    DEF Look, lockVars, peerVars, shownVars, DeliveryInv, DeliveryTypeOK
<1>3. /\ Alone(g) /\ g \in Goroutines /\ DeliveryTypeOK
      /\ Aims /\ Owners /\ Flags /\ Dues /\ Reach
  BY <1>1, Names
  DEF Takes, Moves, Alone, Advances, DeliveryInv
<1>4. Aims'
  <2>1. AimsAt(g)'
    BY <1>1, <1>3, Names
    DEF Takes, Moves, Advances, FirstStep, WhenFound, OneSeat, Answers, Aims,
        AimsAt, Aimed, At, Kind, Target, Look, DeliveryTypeOK, Kinds
  <2>2. QED BY <1>1, <1>3, <2>1, AimsFrame DEF Look
<1>5. Owners'
  BY <1>1, <1>3, OwnersFrame
  DEF Takes, Moves, Advances, FirstStep, WhenFound, OneSeat, At, Kind, Target,
      Holding, Look, lockVars
<1>6. Flags'
  BY <1>1, <1>3, Names, FlagsFrame
  DEF Takes, Moves, Advances, FirstStep, WhenFound, OneSeat, At, Kind, Target,
      Holding, Look, lockVars, peerVars, roomVars, shownVars
<1>7. Dues'
  BY <1>1, <1>3, DuesFrame
  DEF Takes, Moves, Advances, FirstStep, WhenFound, OneSeat, At, Kind, Target,
      Look, lockVars, peerVars, roomVars, shownVars
<1>8. Reach'
  <2>1. ASSUME NEW d \in Clients, Carries(g, d), Open(d)'
        PROVE  Carries(g, d)'
    <3>1. due' = due /\ hub[SeatOf[d]] = d
      BY <2>1 DEF Look, Open
    <3>2. CASE hub[job[g].seat] = NoClient
      <4>1. \/ Kind(g) = "matched"
            \/ ~Announces(g) /\ job[g].seat < SeatOf[d]
        BY <1>1, <2>1, <3>1, <3>2, DeliveryAssumption DEF Carries, Announces, At
      <4>2. Advances(g)
        BY <1>1, <3>2, DeliveryAssumption
      <4>3. QED BY <1>3, <2>1, <3>1, <4>1, <4>2, AdvanceCarries
    <3>3. CASE hub[job[g].seat] # NoClient
      BY <1>1, <2>1, <3>1, <3>3
      DEF WhenFound, Words, Carries, Takes, At, Kind, Target, Showing,
          Announces, ShowsGame, Writing
    <3>4. QED BY <3>2, <3>3
  <2>2. \A c \in Clients : Open(c)' => Open(c)
    BY DEF Open, Look, peerVars
  <2>3. \A c \in Clients : newest'[c] >= newest[c] /\ newest'[c] \in Nat
    BY <1>2 DEF Look, shownVars, DeliveryInv, DeliveryTypeOK
  <2>4. QED BY <1>3, <2>1, <2>2, <2>3, CarrierMoves DEF Look
<1>9. QED BY <1>2, <1>4, <1>5, <1>6, <1>7, <1>8 DEF DeliveryInv

LEMMA SnapshotStep ==
  ASSUME DeliveryInv, NEW g \in Players, Snapshot(g)
  PROVE  DeliveryInv'
<1>1. /\ At(g, "snap")
      /\ Takes(g, IF Kind(g) = "state" THEN "enter" ELSE "look", 
               Kind(g), job[g].seat, job[g].to, version)
  <2>1. /\ job[g] \in Job /\ g \in Goroutines /\ job \in [Goroutines -> Job]
        /\ version \in Nat
    BY Names, JobShape DEF DeliveryInv, DeliveryTypeOK
  <2>2. PICK pc \in PCs : /\ pc = IF Kind(g) = "state" THEN "enter" ELSE "look"
                          /\ job' = [job EXCEPT ![g].at = pc, ![g].got = version]
    BY <2>1 DEF Snapshot, PCs, Writing
  <2>3. Takes(g, pc, Kind(g), job[g].seat, job[g].to, version)
    BY <2>1, <2>2 DEF Takes, Alone, Kind, Job
  <2>4. QED BY <2>2, <2>3 DEF Snapshot
<1>2. DeliveryTypeOK'
  BY <1>1, DeliveryAssumption
  DEF Snapshot, lockVars, peerVars, roomVars, shownVars, Takes, Moves, Alone,
      DeliveryInv, DeliveryTypeOK, MaybeClient, Seats
<1>3. /\ Alone(g) /\ g \in Goroutines /\ DeliveryTypeOK
      /\ Aims /\ Owners /\ Flags /\ Dues /\ Reach
  BY <1>1, Names
  DEF Takes, Moves, Alone, DeliveryInv
<1>4. Aims'
  <2>1. AimsAt(g)'
    BY <1>1, <1>3, Names
    DEF Takes, Moves, Aims, AimsAt, Aimed, At, Kind, Target, Snapshot,
        DeliveryTypeOK, Kinds
  <2>2. QED BY <1>1, <1>3, <2>1, AimsFrame DEF Snapshot
<1>5. Owners'
  <2>1. /\ job[g].at \notin Holding \cup {"write"}
        /\ job'[g].at \notin Holding \cup {"write"}
    BY <1>1 DEF At, Holding, Takes
  <2>2. QED BY <1>3, <2>1, OwnersFrame DEF Snapshot, lockVars
<1>6. Flags'
  <2>1. job'[g].at \notin Holding \cup {"write"}
    BY <1>1 DEF Holding, Takes
  <2>2. QED BY <1>3, <2>1, FlagsFrame DEF Snapshot, peerVars
<1>7. Dues'
  <2>1. job[g].at # "new" /\ job'[g].at # "new"
    BY <1>1 DEF At, Takes
  <2>2. QED BY <1>3, <2>1, DuesFrame DEF Snapshot, roomVars
<1>8. Reach'
  <2>1. ASSUME NEW d \in Clients, Carries(g, d)
        PROVE  Carries(g, d)'
    BY <1>1, <2>1, DeliveryAssumption
    DEF Carries, Takes, Moves, At, Kind, Target, Showing, Announces, ShowsGame,
        Writing, Snapshot, lockVars, peerVars, roomVars, shownVars, DeliveryInv,
        DeliveryTypeOK, Dues, Seats
  <2>2. \A c \in Clients : Open(c)' => Open(c)
    BY DEF Open, Snapshot, peerVars
  <2>3. \A c \in Clients : newest'[c] >= newest[c] /\ newest'[c] \in Nat
    BY <1>2 DEF Snapshot, shownVars, DeliveryInv, DeliveryTypeOK
  <2>4. QED BY <1>3, <2>1, <2>2, <2>3, CarrierMoves DEF Snapshot
<1>9. QED BY <1>2, <1>4, <1>5, <1>6, <1>7, <1>8 DEF DeliveryInv

LEMMA EnterWriteStep ==
  ASSUME DeliveryInv, NEW g \in Players, EnterWrite(g)
  PROVE  DeliveryInv'
<1>1. /\ At(g, "enter") /\ Target(g) \in Clients
      /\ \/ closed[Target(g)] /\ Advances(g)
         \/ ~closed[Target(g)] /\ Moves(g, "turn")
  BY SeatAdvances, Goes, JobShape, Names, DeliveryAssumption
  DEF EnterWrite, At, Target, Kind, DeliveryInv, DeliveryTypeOK, Aims, AimsAt,
      Aimed, PCs, Kinds, Answers, Words, Writing, MaybeClient, Seats
<1>2. DeliveryTypeOK'
  <2>1. job' \in [Goroutines -> Job]
    BY <1>1 DEF Takes, Moves, Alone, Advances
  <2>2. closeMu' \in [Clients -> Goroutines \cup {Nobody}]
    BY <1>1, Names
    DEF EnterWrite, DeliveryInv, DeliveryTypeOK
  <2>3. QED
    BY <2>1, <2>2
    DEF EnterWrite, peerVars, roomVars, shownVars, DeliveryInv, DeliveryTypeOK
<1>3. /\ Alone(g) /\ g \in Goroutines /\ DeliveryTypeOK
      /\ Aims /\ Owners /\ Flags /\ Dues /\ Reach
  BY <1>1, Names
  DEF Takes, Moves, Alone, Advances, DeliveryInv
<1>4. Aims'
  <2>1. AimsAt(g)'
    BY <1>1, <1>3, Names
    DEF Takes, Moves, Advances, FirstStep, Aims, AimsAt, Aimed, At, Kind,
        Target, EnterWrite, DeliveryTypeOK, Kinds
  <2>2. QED BY <1>1, <1>3, <2>1, AimsFrame DEF EnterWrite
<1>5. Owners'
  <2>1. CASE closed[Target(g)]
    <3>1. /\ job[g].at \notin Holding \cup {"write"}
          /\ job'[g].at \notin Holding \cup {"write"}
      BY <1>1, <2>1 DEF At, Holding, Takes, Advances, FirstStep
    <3>2. QED BY <1>3, <2>1, <3>1, OwnersFrame DEF EnterWrite, lockVars
  <2>2. CASE ~closed[Target(g)]
    <3>1. /\ job[g].at \notin Holding \cup {"write"}
          /\ job'[g].at \in Holding /\ job'[g].to = Target(g)
      BY <1>1, <2>2 DEF At, Holding, Takes, Moves, Target
    <3>2. QED BY <1>1, <1>3, <2>2, <3>1, CloseMuTaken DEF EnterWrite
  <2>3. QED BY <2>1, <2>2
<1>6. Flags'
  <2>1. ASSUME NEW h \in Goroutines
        PROVE  /\ job'[h].at \in {"put", "turn"} => ~closed'[job'[h].to]
               /\ job'[h].at = "cut" => closed'[job'[h].to]
               /\ h \in Players /\ job'[h].at = "write" => job'[h].to \notin cut'
    <3>1. h # g => job'[h] = job[h]
      BY <1>3 DEF Alone
    <3>2. closed' = closed /\ cut' = cut
      BY DEF EnterWrite, peerVars
    <3>3. /\ job'[g].at \notin {"put", "cut", "write"}
          /\ job'[g].at = "turn" => ~closed[job'[g].to]
      BY <1>1 DEF Advances, FirstStep, Takes, Moves, Target
    <3>4. QED BY <1>3, <3>1, <3>2, <3>3
              DEF Flags, NoDirectWriteAfterClose, At, Target
  <2>2. cut' = cut /\ closed' = closed
    BY DEF EnterWrite, peerVars
  <2>3. QED BY <1>3, <2>1, <2>2, Names
            DEF Flags, NoDirectWriteAfterClose, At, Target
<1>7. Dues'
  BY <1>1, <1>3, DuesFrame
  DEF Takes, Moves, Advances, FirstStep, At, Kind, Target, EnterWrite,
      peerVars, roomVars, shownVars
<1>8. Reach'
  <2>1. ASSUME NEW d \in Clients, Carries(g, d), Open(d)'
        PROVE  Carries(g, d)'
    <3>1. due' = due /\ ~closed[d]
      BY <2>1 DEF EnterWrite, Open
    <3>2. CASE closed[Target(g)]
      <4>1. ~Announces(g) /\ job[g].seat < SeatOf[d]
        BY <1>1, <2>1, <3>1, <3>2 DEF Carries, Announces, At
      <4>2. QED BY <1>1, <1>3, <2>1, <3>1, <3>2, <4>1, AdvanceCarries
    <3>3. CASE ~closed[Target(g)]
      BY <1>1, <2>1, <3>1, <3>3
      DEF Carries, Takes, Moves, At, Kind, Target, Showing, Announces,
          ShowsGame, Writing
    <3>4. QED BY <3>2, <3>3
  <2>2. \A c \in Clients : Open(c)' => Open(c)
    BY DEF Open, EnterWrite, peerVars
  <2>3. \A c \in Clients : newest'[c] >= newest[c] /\ newest'[c] \in Nat
    BY <1>2 DEF EnterWrite, shownVars, DeliveryInv, DeliveryTypeOK
  <2>4. QED BY <1>3, <2>1, <2>2, <2>3, CarrierMoves DEF EnterWrite
<1>9. QED BY <1>2, <1>4, <1>5, <1>6, <1>7, <1>8 DEF DeliveryInv

LEMMA BeginWriteStep ==
  ASSUME DeliveryInv, NEW g \in Players, BeginWrite(g)
  PROVE  DeliveryInv'
<1>1. At(g, "turn") /\ Target(g) \in Clients /\ Moves(g, "write")
  BY Goes, JobShape, Names, DeliveryAssumption
  DEF BeginWrite, At, Target, Kind, DeliveryInv, DeliveryTypeOK, Aims, AimsAt,
      Aimed, PCs, Kinds, Answers, Words, Writing, MaybeClient, Seats
<1>2. DeliveryTypeOK'
  <2>1. job' \in [Goroutines -> Job]
    BY <1>1 DEF Takes, Moves, Alone, Advances
  <2>2. QED BY <1>1, <2>1, Names, DeliveryAssumption
    DEF BeginWrite, peerVars, roomVars, shownVars, DeliveryInv, DeliveryTypeOK,
        MaybeClient, Seats
<1>3. /\ Alone(g) /\ g \in Goroutines /\ DeliveryTypeOK
      /\ Aims /\ Owners /\ Flags /\ Dues /\ Reach
  BY <1>1, Names
  DEF Takes, Moves, Alone, DeliveryInv
<1>4. Aims'
  <2>1. AimsAt(g)'
    BY <1>1, <1>3, Names
    DEF Takes, Moves, Aims, AimsAt, Aimed, At, Kind, Target, BeginWrite,
        DeliveryTypeOK, Kinds
  <2>2. QED BY <1>1, <1>3, <2>1, AimsFrame DEF BeginWrite
<1>5. Owners'
  <2>1. /\ job[g].at \in Holding /\ job[g].to = Target(g)
        /\ job'[g].at = "write" /\ job'[g].to = Target(g)
    BY <1>1 DEF At, Target, Holding, Takes, Moves
  <2>2. QED BY <1>1, <1>3, <2>1, CloseMuGiven DEF BeginWrite, Holding
<1>6. Flags'
  <2>1. ASSUME NEW h \in Goroutines
        PROVE  /\ job'[h].at \in {"put", "turn"} => ~closed'[job'[h].to]
               /\ job'[h].at = "cut" => closed'[job'[h].to]
               /\ h \in Players /\ job'[h].at = "write" => job'[h].to \notin cut'
    <3>1. h # g => job'[h] = job[h]
      BY <1>3 DEF Alone
    <3>2. closed' = closed /\ cut' = cut
      BY DEF BeginWrite, peerVars
    <3>3. /\ job'[g].at = "write" /\ job'[g].to \notin cut
      BY <1>1, <1>3 DEF Takes, Moves, Target, Flags, At
    <3>4. QED BY <1>3, <3>1, <3>2, <3>3
              DEF Flags, NoDirectWriteAfterClose, At, Target
  <2>2. cut' = cut /\ closed' = closed
    BY DEF BeginWrite, peerVars
  <2>3. QED BY <1>3, <2>1, <2>2, Names
            DEF Flags, NoDirectWriteAfterClose, At, Target
<1>7. Dues'
  BY <1>1, <1>3, DuesFrame
  DEF Takes, Moves, At, Kind, Target, BeginWrite, peerVars, roomVars, shownVars
<1>8. Reach'
  <2>1. ASSUME NEW d \in Clients, Carries(g, d)
        PROVE  Carries(g, d)'
    BY <1>1, <2>1, DeliveryAssumption
    DEF Carries, Takes, Moves, At, Kind, Target, Showing, Announces, ShowsGame,
        Writing, BeginWrite, peerVars, roomVars, shownVars, DeliveryInv,
        DeliveryTypeOK, Dues, Seats
  <2>2. \A c \in Clients : Open(c)' => Open(c)
    BY DEF Open, BeginWrite, peerVars
  <2>3. \A c \in Clients : newest'[c] >= newest[c] /\ newest'[c] \in Nat
    BY <1>2 DEF BeginWrite, shownVars, DeliveryInv, DeliveryTypeOK
  <2>4. QED BY <1>3, <2>1, <2>2, <2>3, CarrierMoves DEF BeginWrite
<1>9. QED BY <1>2, <1>4, <1>5, <1>6, <1>7, <1>8 DEF DeliveryInv

LEMMA EndWriteStep ==
  ASSUME DeliveryInv, NEW g \in Players, EndWrite(g)
  PROVE  DeliveryInv'
<1>1. At(g, "write") /\ Target(g) \in Clients /\ Advances(g)
  BY SeatAdvances, JobShape, Names, DeliveryAssumption
  DEF EndWrite, At, Target, Kind, DeliveryInv, DeliveryTypeOK, Aims, AimsAt,
      Aimed, PCs, Kinds, Answers, Words, Writing, MaybeClient, Seats
<1>2. DeliveryTypeOK'
  <2>0. job[g].got \in Nat
    BY Names, JobShape DEF DeliveryInv, DeliveryTypeOK
  <2>1. job' \in [Goroutines -> Job]
    BY <1>1 DEF Takes, Moves, Alone, Advances
  <2>2. broken' \in SUBSET Clients
    BY <1>1
    DEF EndWrite, DeliveryInv, DeliveryTypeOK
  <2>3. writeMu' \in [Clients -> Goroutines \cup {Nobody}]
    BY <1>1, Names
    DEF EndWrite, DeliveryInv, DeliveryTypeOK
  <2>4. view' \in [Clients -> Nat]
    BY <1>1, <2>0
    DEF EndWrite, DeliveryInv, DeliveryTypeOK
  <2>5. newest' \in [Clients -> Nat]
    BY <1>1, <2>0
    DEF EndWrite, Bigger, DeliveryInv, DeliveryTypeOK
  <2>6. QED
    BY <2>1, <2>2, <2>3, <2>4, <2>5
    DEF EndWrite, roomVars, DeliveryInv, DeliveryTypeOK
<1>3. /\ Alone(g) /\ g \in Goroutines /\ DeliveryTypeOK
      /\ Aims /\ Owners /\ Flags /\ Dues /\ Reach
  BY <1>1, Names
  DEF Takes, Moves, Alone, Advances, DeliveryInv
<1>4. Aims'
  <2>1. AimsAt(g)'
    BY <1>1, <1>3, Names
    DEF Takes, Moves, Advances, FirstStep, Aims, AimsAt, Aimed, At, Kind,
        Target, EndWrite, DeliveryTypeOK, Kinds
  <2>2. QED BY <1>1, <1>3, <2>1, AimsFrame DEF EndWrite
<1>5. Owners'
  BY <1>1, <1>3, WriteMuGiven
  DEF Takes, Moves, At, Kind, Target, Holding, EndWrite, Advances, FirstStep
<1>6. Flags'
  BY <1>1, <1>3, Names, FlagsFrame
  DEF Takes, Moves, Advances, FirstStep, At, Kind, Target, Holding, EndWrite,
      roomVars
<1>7. Dues'
  BY <1>1, <1>3, DuesFrame
  DEF Takes, Moves, Advances, FirstStep, At, Kind, Target, EndWrite, roomVars
<1>8. Reach'
  <2>9. job[g].got \in Nat /\ newest \in [Clients -> Nat]
    BY Names, JobShape DEF DeliveryInv, DeliveryTypeOK
  <2>1. ASSUME NEW d \in Clients, Carries(g, d), Open(d)', newest'[d] < due[d]
        PROVE  Carries(g, d)'
    <3>1. due' = due
      BY DEF EndWrite
    <3>2. job[g].seat < SeatOf[d]
      <4>1. SUFFICES ASSUME ~(job[g].seat < SeatOf[d]) PROVE FALSE
        OBVIOUS
      <4>2. Target(g) = d /\ job[g].got >= due[d] /\ ShowsGame(g)
        BY <1>1, <2>1, <4>1 DEF Carries, Showing, Announces, At
      <4>3. newest'[d] >= job[g].got
        BY <2>9, <2>1, <4>2 DEF EndWrite, Bigger, Open
      <4>4. newest'[d] \in Nat /\ due[d] \in Nat
        BY <1>2, <1>3 DEF DeliveryTypeOK
      <4>5. QED BY <2>9, <2>1, <4>2, <4>3, <4>4
    <3>3. ~Announces(g)
      BY <1>1 DEF At, Announces
    <3>4. QED BY <1>1, <1>3, <2>1, <3>1, <3>2, <3>3, AdvanceCarries
  <2>2. \A c \in Clients : Open(c)' => Open(c)
    BY DEF Open, EndWrite
  <2>3. \A c \in Clients : newest'[c] >= newest[c] /\ newest'[c] \in Nat
    BY <1>1, <2>9 DEF EndWrite, Bigger
  <2>4. QED BY <1>3, <2>1, <2>2, <2>3, CarrierMoves DEF EndWrite
<1>9. QED BY <1>2, <1>4, <1>5, <1>6, <1>7, <1>8 DEF DeliveryInv

LEMMA BeginSendStep ==
  ASSUME DeliveryInv, NEW g \in Players, BeginSend(g)
  PROVE  DeliveryInv'
<1> DEFINE c == Target(g)
<1>1. /\ At(g, "answer") /\ c \in Clients
      /\ \/ ~closed[c] /\ Moves(g, "put")
         \/ closed[c] /\ Answered(g)
  BY SendAnswers, Goes, Names
  DEF BeginSend, At, DeliveryInv, Aims, AimsAt, Aimed, PCs
<1>2. DeliveryTypeOK'
  <2>1. job' \in [Goroutines -> Job]
    BY <1>1 DEF Answered, Advances, FirstStep, OneSeat, Words, Takes, Moves, Alone
  <2>2. closeMu' \in [Clients -> Goroutines \cup {Nobody}]
    BY <1>1, Names
    DEF BeginSend, DeliveryInv, DeliveryTypeOK
  <2>3. QED
    BY <2>1, <2>2
    DEF BeginSend, peerVars, roomVars, shownVars, DeliveryInv, DeliveryTypeOK
<1>3. /\ Alone(g) /\ g \in Goroutines /\ DeliveryTypeOK
      /\ Aims /\ Owners /\ Flags /\ Dues /\ Reach
  BY <1>1, Names
  DEF Answered, Advances, FirstStep, OneSeat, Words, Takes, Moves, Alone,
      DeliveryInv
<1>4. Aims'
  <2>1. AimsAt(g)'
    BY <1>1, <1>3, Names
    DEF Answered, Advances, FirstStep, OneSeat, Words, Takes, Moves, Aims,
        AimsAt, Aimed, At, Kind, Target, BeginSend, DeliveryTypeOK, Kinds
  <2>2. QED BY <1>1, <1>3, <2>1, AimsFrame DEF BeginSend
<1>5. Owners'
  <2>1. Target(g) = c
    BY <1>1, <1>3 DEF Aims, AimsAt, At
  <2>2. CASE closed[c]
    <3>1. /\ job[g].at \notin Holding \cup {"write"}
          /\ job'[g].at \notin Holding \cup {"write"}
      BY <1>1, <2>2 DEF At, Holding, Answered, Advances, FirstStep, Takes
    <3>2. QED BY <1>3, <2>2, <3>1, OwnersFrame DEF BeginSend, lockVars
  <2>3. CASE ~closed[c]
    <3>1. /\ job[g].at \notin Holding \cup {"write"}
          /\ job'[g].at \in Holding /\ job'[g].to = c
      BY <1>1, <2>1, <2>3
      DEF At, Holding, Answered, Advances, FirstStep, Takes, Moves, Target
    <3>2. QED BY <1>1, <1>3, <2>3, <3>1, CloseMuTaken DEF BeginSend
  <2>4. QED BY <2>2, <2>3
<1>6. Flags'
  <2>1. ASSUME NEW h \in Goroutines
        PROVE  /\ job'[h].at \in {"put", "turn"} => ~closed'[job'[h].to]
               /\ job'[h].at = "cut" => closed'[job'[h].to]
               /\ h \in Players /\ job'[h].at = "write" => job'[h].to \notin cut'
    <3>1. h # g => job'[h] = job[h]
      BY <1>3 DEF Alone
    <3>2. closed' = closed /\ cut' = cut
      BY DEF BeginSend, peerVars
    <3>3. /\ job'[g].at \notin {"turn", "cut", "write"}
          /\ job'[g].at = "put" => ~closed[job'[g].to]
      BY <1>1, <1>3, Names
      DEF Answered, Advances, FirstStep, OneSeat, Words, Takes, Moves, Target,
          Aims, AimsAt, At
    <3>4. QED BY <1>3, <3>1, <3>2, <3>3
              DEF Flags, NoDirectWriteAfterClose, At, Target
  <2>2. cut' = cut /\ closed' = closed
    BY DEF BeginSend, peerVars
  <2>3. QED BY <1>3, <2>1, <2>2, Names
            DEF Flags, NoDirectWriteAfterClose, At, Target
<1>7. Dues'
  BY <1>1, <1>3, DuesFrame
  DEF Answered, Advances, FirstStep, OneSeat, Words, Takes, Moves, At, Kind,
      Target, BeginSend, peerVars, roomVars, shownVars
<1>8. Reach'
  <2>1. ASSUME NEW d \in Clients, Carries(g, d)
        PROVE  Carries(g, d)'
    <3>1. CASE ~closed[c]
      BY <1>1, <2>1, <3>1
      DEF Carries, Showing, Announces, ShowsGame, Takes, Moves, At, Kind,
          Target, Writing
    <3>2. CASE closed[c]
      BY <1>1, <1>3, <2>1, <3>2, AnswerCarries DEF At, BeginSend
    <3>3. QED BY <3>1, <3>2
  <2>2. \A d \in Clients : Open(d)' => Open(d)
    BY DEF Open, BeginSend, peerVars
  <2>3. \A d \in Clients : newest'[d] >= newest[d] /\ newest'[d] \in Nat
    BY <1>3 DEF BeginSend, shownVars, DeliveryTypeOK
  <2>4. QED BY <1>3, <2>1, <2>2, <2>3, Names, CarrierMoves DEF BeginSend
<1>9. QED BY <1>2, <1>4, <1>5, <1>6, <1>7, <1>8 DEF DeliveryInv

LEMMA SendStep ==
  ASSUME DeliveryInv, NEW g \in Players, Send(g)
  PROVE  DeliveryInv'
<1> DEFINE c == Target(g)
<1>1. At(g, "put") /\ c \in Clients /\ Answered(g)
  BY SendAnswers, Names DEF Send, At, DeliveryInv, Aims, AimsAt, Aimed
<1>2. DeliveryTypeOK'
  <2>1. job' \in [Goroutines -> Job]
    BY <1>1 DEF Answered, Advances, FirstStep, OneSeat, Words, Takes, Moves, Alone
  <2>2. Kind(g) \in Answers
    BY <1>1, Names DEF DeliveryInv, Aims, AimsAt, At
  <2>3. send[c] \in Seq(Answers) /\ Len(send[c]) \in Nat
    BY <1>1 DEF DeliveryInv, DeliveryTypeOK
  <2>4. /\ Append(send[c], Kind(g)) \in Seq(Answers)
        /\ Len(Append(send[c], Kind(g))) = Len(send[c]) + 1
    BY <2>2, <2>3
  <2>5. send'[c] \in Seq(Answers) /\ Len(send'[c]) <= Capacity
    BY <1>1, <2>3, <2>4, DeliveryAssumption DEF Send, DeliveryInv, DeliveryTypeOK
  <2>6. QED BY <2>3, <2>5, <1>1, <2>1, Names, DeliveryAssumption
    DEF Send, peerVars, roomVars, shownVars, DeliveryInv, DeliveryTypeOK,
        MaybeClient, Seats
<1>3. /\ Alone(g) /\ g \in Goroutines /\ DeliveryTypeOK
      /\ Aims /\ Owners /\ Flags /\ Dues /\ Reach
  BY <1>1, Names
  DEF Answered, Advances, FirstStep, OneSeat, Words, Takes, Moves, Alone,
      DeliveryInv
<1>4. Aims'
  <2>1. AimsAt(g)'
    BY <1>1, <1>3, Names
    DEF Answered, Advances, FirstStep, OneSeat, Words, Takes, Moves, Aims,
        AimsAt, Aimed, At, Kind, Target, Send, DeliveryTypeOK, Kinds
  <2>2. QED BY <1>1, <1>3, <2>1, AimsFrame DEF Send
<1>5. Owners'
  <2>1. /\ job[g].at \in Holding /\ job[g].to = c
        /\ job'[g].at \notin Holding \cup {"write"}
    BY <1>1 DEF Answered, Advances, FirstStep, At, Target, Holding, Takes
  <2>2. writeMu' = writeMu /\ closeMu' = [closeMu EXCEPT ![c] = Nobody]
    BY DEF Send
  <2>3. QED BY <1>1, <1>3, <2>1, <2>2, CloseMuGiven
<1>6. Flags'
  BY <1>1, <1>3, Names, FlagsFrame
  DEF Answered, Advances, FirstStep, OneSeat, Words, Takes, Moves, At, Kind,
      Target, Holding, Send, peerVars, roomVars, shownVars
<1>7. Dues'
  BY <1>1, <1>3, DuesFrame
  DEF Answered, Advances, FirstStep, OneSeat, Words, Takes, Moves, At, Kind,
      Target, Send, peerVars, roomVars, shownVars
<1>8. Reach'
  <2>1. ASSUME NEW d \in Clients, Carries(g, d)
        PROVE  Carries(g, d)'
    BY <1>1, <1>3, <2>1, AnswerCarries DEF At, Send
  <2>2. \A d \in Clients : Open(d)' => Open(d)
    BY DEF Open, Send, peerVars
  <2>3. \A d \in Clients : newest'[d] >= newest[d] /\ newest'[d] \in Nat
    BY <1>3 DEF Send, shownVars, DeliveryTypeOK
  <2>4. QED BY <1>3, <2>1, <2>2, <2>3, Names, CarrierMoves DEF Send
<1>9. QED BY <1>2, <1>4, <1>5, <1>6, <1>7, <1>8 DEF DeliveryInv

LEMMA TakeStep ==
  ASSUME DeliveryInv, NEW c \in Clients, Take(c)
  PROVE  DeliveryInv'
<1>1. /\ At(Pump(c), "idle") /\ send[c] # <<>> /\ send[c] \in Seq(Answers)
      /\ Takes(Pump(c), "hold", Head(send[c]), 0, c, 0)
  <2>1. send[c] # <<>> /\ send[c] \in Seq(Answers)
    BY DEF Take, DeliveryInv, DeliveryTypeOK
  <2>2. Head(send[c]) \in Answers
    BY <2>1
  <2>3. /\ "hold" \in PCs /\ Head(send[c]) \in Kinds /\ 0 \in Seats
        /\ c \in MaybeClient /\ 0 \in Nat
    BY <2>2 DEF PCs, Kinds, Seats, MaybeClient
  <2>4. QED BY <2>1, <2>3, Names, Becomes DEF Take, Hold, DeliveryInv
<1>2. DeliveryTypeOK'
  <2>1. job' \in [Goroutines -> Job]
    BY <1>1 DEF Takes, Moves, Alone, Advances
  <2>2. Tail(send[c]) \in Seq(Answers) /\ Len(Tail(send[c])) <= Capacity
    <3>1. Len(send[c]) <= Capacity /\ send[c] \in Seq(Answers) /\ send[c] # <<>>
      BY <1>1 DEF DeliveryInv, DeliveryTypeOK
    <3>2. Len(Tail(send[c])) = Len(send[c]) - 1 /\ Len(send[c]) \in Nat
      BY <3>1
    <3>3. QED BY <3>1, <3>2, DeliveryAssumption
  <2>3. QED BY <2>2, <1>1, <2>1, Names, DeliveryAssumption
    DEF Take, lockVars, peerVars, roomVars, shownVars, DeliveryInv,
        DeliveryTypeOK, MaybeClient, Seats
<1>3. /\ Alone(Pump(c)) /\ Pump(c) \in Goroutines /\ DeliveryTypeOK
      /\ Aims /\ Owners /\ Flags /\ Dues /\ Reach
  BY <1>1, Names
  DEF Takes, Moves, Alone, DeliveryInv
<1>4. Aims'
  <2>1. AimsAt(Pump(c))'
    BY <1>1, <1>3, Names
    DEF Takes, Moves, Aims, AimsAt, Aimed, At, Kind, Target, Take,
        DeliveryTypeOK, Kinds
  <2>2. QED BY <1>1, <1>3, <2>1, AimsFrame DEF Take
<1>5. Owners'
  BY <1>1, <1>3, OwnersFrame
  DEF Takes, Moves, At, Kind, Target, Holding, Take, lockVars
<1>6. Flags'
  BY <1>1, <1>3, Names, FlagsFrame
  DEF Takes, Moves, At, Kind, Target, Holding, Take, lockVars, peerVars,
      roomVars, shownVars
<1>7. Dues'
  BY <1>1, <1>3, DuesFrame
  DEF Takes, Moves, At, Kind, Target, Take, lockVars, peerVars, roomVars,
      shownVars
<1>8. Reach'
  BY <1>1, <1>3, Names, ReachFrame
  DEF Takes, Moves, At, Kind, Target, Take, lockVars, peerVars, roomVars,
      shownVars, Open, Writing, Showing, Announces, ShowsGame
<1>9. QED BY <1>2, <1>4, <1>5, <1>6, <1>7, <1>8 DEF DeliveryInv

LEMMA TakeClosedStep ==
  ASSUME DeliveryInv, NEW c \in Clients, TakeClosed(c)
  PROVE  DeliveryInv'
<1>1. At(Pump(c), "idle") /\ Takes(Pump(c), "hold", "bye", 0, c, 0)
  BY Becomes, JobShape, Names, DeliveryAssumption
  DEF TakeClosed, Hold, At, Target, Kind, DeliveryInv, DeliveryTypeOK, Aims,
      AimsAt, Aimed, PCs, Kinds, Answers, Words, Writing, MaybeClient, Seats
<1>2. DeliveryTypeOK'
  BY <1>1, DeliveryAssumption
  DEF TakeClosed, lockVars, peerVars, roomVars, shownVars, Takes, Moves, Alone,
      DeliveryInv, DeliveryTypeOK, MaybeClient, Seats
<1>3. /\ Alone(Pump(c)) /\ Pump(c) \in Goroutines /\ DeliveryTypeOK
      /\ Aims /\ Owners /\ Flags /\ Dues /\ Reach
  BY <1>1, Names
  DEF Takes, Moves, Alone, DeliveryInv
<1>4. Aims'
  <2>1. AimsAt(Pump(c))'
    BY <1>1, <1>3, Names
    DEF Takes, Moves, Aims, AimsAt, Aimed, At, Kind, Target, TakeClosed,
        DeliveryTypeOK, Kinds
  <2>2. QED BY <1>1, <1>3, <2>1, AimsFrame DEF TakeClosed
<1>5. Owners'
  BY <1>1, <1>3, OwnersFrame
  DEF Takes, Moves, At, Kind, Target, Holding, TakeClosed, lockVars
<1>6. Flags'
  BY <1>1, <1>3, Names, FlagsFrame
  DEF Takes, Moves, At, Kind, Target, Holding, TakeClosed, lockVars, peerVars,
      roomVars, shownVars
<1>7. Dues'
  BY <1>1, <1>3, DuesFrame
  DEF Takes, Moves, At, Kind, Target, TakeClosed, lockVars, peerVars, roomVars,
      shownVars
<1>8. Reach'
  BY <1>1, <1>3, Names, ReachFrame
  DEF Takes, Moves, At, Kind, Target, TakeClosed, lockVars, peerVars, roomVars,
      shownVars, Open, Writing, Showing, Announces, ShowsGame
<1>9. QED BY <1>2, <1>4, <1>5, <1>6, <1>7, <1>8 DEF DeliveryInv

LEMMA PingStep ==
  ASSUME DeliveryInv, NEW c \in Clients, Ping(c)
  PROVE  DeliveryInv'
<1>1. At(Pump(c), "idle") /\ Takes(Pump(c), "hold", "ping", 0, c, 0)
  BY Becomes, JobShape, Names, DeliveryAssumption
  DEF Ping, Hold, At, Target, Kind, DeliveryInv, DeliveryTypeOK, Aims, AimsAt,
      Aimed, PCs, Kinds, Answers, Words, Writing, MaybeClient, Seats
<1>2. DeliveryTypeOK'
  BY <1>1, DeliveryAssumption
  DEF Ping, lockVars, peerVars, roomVars, shownVars, Takes, Moves, Alone,
      DeliveryInv, DeliveryTypeOK, MaybeClient, Seats
<1>3. /\ Alone(Pump(c)) /\ Pump(c) \in Goroutines /\ DeliveryTypeOK
      /\ Aims /\ Owners /\ Flags /\ Dues /\ Reach
  BY <1>1, Names
  DEF Takes, Moves, Alone, DeliveryInv
<1>4. Aims'
  <2>1. AimsAt(Pump(c))'
    BY <1>1, <1>3, Names
    DEF Takes, Moves, Aims, AimsAt, Aimed, At, Kind, Target, Ping,
        DeliveryTypeOK, Kinds
  <2>2. QED BY <1>1, <1>3, <2>1, AimsFrame DEF Ping
<1>5. Owners'
  BY <1>1, <1>3, OwnersFrame
  DEF Takes, Moves, At, Kind, Target, Holding, Ping, lockVars
<1>6. Flags'
  BY <1>1, <1>3, Names, FlagsFrame
  DEF Takes, Moves, At, Kind, Target, Holding, Ping, lockVars, peerVars,
      roomVars, shownVars
<1>7. Dues'
  BY <1>1, <1>3, DuesFrame
  DEF Takes, Moves, At, Kind, Target, Ping, lockVars, peerVars, roomVars,
      shownVars
<1>8. Reach'
  BY <1>1, <1>3, Names, ReachFrame
  DEF Takes, Moves, At, Kind, Target, Ping, lockVars, peerVars, roomVars,
      shownVars, Open, Writing, Showing, Announces, ShowsGame
<1>9. QED BY <1>2, <1>4, <1>5, <1>6, <1>7, <1>8 DEF DeliveryInv

LEMMA PumpLockStep ==
  ASSUME DeliveryInv, NEW c \in Clients, PumpLock(c)
  PROVE  DeliveryInv'
<1>1. At(Pump(c), "hold") /\ Moves(Pump(c), "write")
  BY Goes, JobShape, Names, DeliveryAssumption
  DEF PumpLock, At, Target, Kind, DeliveryInv, DeliveryTypeOK, Aims, AimsAt,
      Aimed, PCs, Kinds, Answers, Words, Writing, MaybeClient, Seats
<1>2. DeliveryTypeOK'
  <2>1. job' \in [Goroutines -> Job]
    BY <1>1 DEF Takes, Moves, Alone, Advances
  <2>2. QED BY <1>1, <2>1, Names, DeliveryAssumption
    DEF PumpLock, peerVars, roomVars, shownVars, DeliveryInv, DeliveryTypeOK,
        MaybeClient, Seats
<1>3. /\ Alone(Pump(c)) /\ Pump(c) \in Goroutines /\ DeliveryTypeOK
      /\ Aims /\ Owners /\ Flags /\ Dues /\ Reach
  BY <1>1, Names
  DEF Takes, Moves, Alone, DeliveryInv
<1>4. Aims'
  <2>1. AimsAt(Pump(c))'
    BY <1>1, <1>3, Names
    DEF Takes, Moves, Aims, AimsAt, Aimed, At, Kind, Target, PumpLock,
        DeliveryTypeOK, Kinds
  <2>2. QED BY <1>1, <1>3, <2>1, AimsFrame DEF PumpLock
<1>5. Owners'
  <2>1. /\ job[Pump(c)].at \notin Holding \cup {"write"}
        /\ job'[Pump(c)].at = "write" /\ job'[Pump(c)].to = c
    BY <1>1, <1>3 DEF Aims, AimsAt, At, Target, Holding, Takes, Moves
  <2>2. QED BY <1>3, <2>1, WriteMuTaken DEF PumpLock
<1>6. Flags'
  BY <1>1, <1>3, Names, FlagsFrame
  DEF Takes, Moves, At, Kind, Target, Holding, PumpLock, peerVars, roomVars,
      shownVars
<1>7. Dues'
  BY <1>1, <1>3, DuesFrame
  DEF Takes, Moves, At, Kind, Target, PumpLock, peerVars, roomVars, shownVars
<1>8. Reach'
  BY <1>1, <1>3, Names, ReachFrame
  DEF Takes, Moves, At, Kind, Target, PumpLock, peerVars, roomVars, shownVars,
      Open, Writing, Showing, Announces, ShowsGame
<1>9. QED BY <1>2, <1>4, <1>5, <1>6, <1>7, <1>8 DEF DeliveryInv

LEMMA PumpWriteStep ==
  ASSUME DeliveryInv, NEW c \in Clients, PumpWrite(c)
  PROVE  DeliveryInv'
<1>1. /\ At(Pump(c), "write")
      /\ \/ Takes(Pump(c), "close", "none", 0, c, 0)
         \/ Takes(Pump(c), "idle", "none", 0, NoClient, 0)
  BY Becomes, JobShape, Names, DeliveryAssumption
  DEF PumpWrite, PumpEnds, PumpGoesOn, Idle, At, Target, Kind, DeliveryInv,
      DeliveryTypeOK, Aims, AimsAt, Aimed, PCs, Kinds, Answers, Words, Writing,
      MaybeClient, Seats
<1>2. DeliveryTypeOK'
  BY <1>1, DeliveryAssumption
  DEF PumpWrite, roomVars, shownVars, Takes, Moves, Alone, DeliveryInv,
      DeliveryTypeOK, MaybeClient, Seats
<1>3. /\ Alone(Pump(c)) /\ Pump(c) \in Goroutines /\ DeliveryTypeOK
      /\ Aims /\ Owners /\ Flags /\ Dues /\ Reach
  BY <1>1, Names
  DEF Takes, Moves, Alone, DeliveryInv
<1>4. Aims'
  <2>1. AimsAt(Pump(c))'
    BY <1>1, <1>3, Names
    DEF Takes, Moves, Aims, AimsAt, Aimed, At, Kind, Target, PumpWrite,
        DeliveryTypeOK, Kinds
  <2>2. QED BY <1>1, <1>3, <2>1, AimsFrame DEF PumpWrite
<1>5. Owners'
  <2>1. /\ At(Pump(c), "write") /\ Target(Pump(c)) = c
        /\ job'[Pump(c)].at \notin Holding \cup {"write"}
    BY <1>1, <1>3 DEF Aims, AimsAt, At, Target, Holding, Takes
  <2>2. QED BY <1>3, <2>1, WriteMuGiven DEF PumpWrite
<1>6. Flags'
  BY <1>1, <1>3, Names, FlagsFrame
  DEF Takes, Moves, At, Kind, Target, Holding, PumpWrite, roomVars, shownVars
<1>7. Dues'
  BY <1>1, <1>3, DuesFrame
  DEF Takes, Moves, At, Kind, Target, PumpWrite, roomVars, shownVars
<1>8. Reach'
  BY <1>1, <1>3, Names, ReachFrame
  DEF Takes, Moves, At, Kind, Target, PumpWrite, roomVars, shownVars, Open,
      Writing, Showing, Announces, ShowsGame
<1>9. QED BY <1>2, <1>4, <1>5, <1>6, <1>7, <1>8 DEF DeliveryInv

LEMMA StartStep ==
  ASSUME DeliveryInv, Start
  PROVE  DeliveryInv'
<1> DEFINE g == Reader(First[1])
<1>1. /\ First[1] \in Clients /\ At(g, "idle")
      /\ Takes(g, "look", "matched", 0, NoClient, 0)
  <2>1. First[1] \in Clients
    BY DeliveryAssumption DEF Seats
  <2>2. /\ "look" \in PCs /\ "matched" \in Kinds /\ 0 \in Seats
        /\ NoClient \in MaybeClient /\ 0 \in Nat
    BY DEF PCs, Writing, Kinds, Answers, Words, Seats, MaybeClient
  <2>3. QED BY <2>1, <2>2, Names, Becomes DEF Start, CanRead, DeliveryInv
<1>2. DeliveryTypeOK'
  <2>1. job' \in [Goroutines -> Job]
    BY <1>1 DEF Takes, Moves, Alone
  <2>2. version' \in Nat /\ phase' \in {"waiting", "playing", "over"}
    BY <1>1
    DEF Start, Changes, DeliveryInv, DeliveryTypeOK
  <2>3. due' \in [Clients -> Nat]
    BY <1>1
    DEF Start, Changes, DeliveryInv, DeliveryTypeOK
  <2>4. QED
    BY <2>1, <2>2, <2>3
    DEF Start, lockVars, peerVars, shownVars, DeliveryInv, DeliveryTypeOK,
        Changes
<1>3. /\ Alone(g) /\ g \in Goroutines /\ DeliveryTypeOK
      /\ Aims /\ Owners /\ Flags /\ Dues /\ Reach
  BY <1>1, Names
  DEF Takes, Moves, Alone, DeliveryInv
<1>4. Aims'
  <2>1. AimsAt(g)'
    BY <1>1, <1>3, Names
    DEF Takes, Moves, Aims, AimsAt, Aimed, At, Kind, Target, Start,
        DeliveryTypeOK, Kinds
  <2>2. QED BY <1>1, <1>3, <2>1, AimsFrame DEF Start
<1>5. Owners'
  BY <1>1, <1>3, OwnersFrame
  DEF Takes, Moves, At, Kind, Target, Holding, Start, lockVars
<1>6. Flags'
  BY <1>1, <1>3, Names, FlagsFrame
  DEF Takes, Moves, At, Kind, Target, Holding, Start, lockVars, peerVars,
      shownVars
<1>7. Dues'
  <2>1. \A c \in Clients : job'[Reader(c)].at = "new" => job[Reader(c)].at = "new"
    BY <1>1, <1>3, Names DEF Alone, Takes
  <2>2. \A c \in Clients : job'[Pump(c)] = job[Pump(c)]
    BY <1>1, <1>3, Names DEF Alone
  <2>3. /\ version' = version + 1 /\ newcomer' = newcomer /\ hub' = hub
        /\ version \in Nat /\ due \in [Clients -> Nat]
        /\ \A c \in Clients :
             due'[c] = IF hub[SeatOf[c]] = c THEN version + 1 ELSE due[c]
    BY <1>3 DEF Start, Changes, DeliveryTypeOK, roomVars
  <2>4. QED BY <1>3, <2>1, <2>2, <2>3 DEF Dues, At
<1>8. Reach'
  <2>1. ASSUME NEW c \in Clients, Open(c)', newest'[c] < due'[c]
        PROVE  \E h \in Players : Carries(h, c)'
    <3>1. due'[c] = IF hub[SeatOf[c]] = c THEN version + 1 ELSE due[c]
      BY DEF Start, Changes
    <3>2. CASE hub[SeatOf[c]] = c
      <4>1. due'[c] = version + 1 /\ version \in Nat /\ SeatOf[c] \in Seats
        BY <3>1, <3>2, DeliveryAssumption DEF DeliveryInv, DeliveryTypeOK
      <4>2. Carries(g, c)'
        BY <1>1, <4>1
        DEF Takes, Carries, At, Kind, Target, Showing, Announces, ShowsGame,
            Writing, Seats
      <4>3. QED BY <1>1, <4>2, Names
    <3>3. CASE hub[SeatOf[c]] # c
      BY <2>1, <3>3 DEF Open, Start
    <3>4. QED BY <3>2, <3>3
  <2>2. QED BY <2>1 DEF Reach
<1>9. QED BY <1>2, <1>4, <1>5, <1>6, <1>7, <1>8 DEF DeliveryInv

LEMMA ChangeStep ==
  ASSUME DeliveryInv, NEW g \in Players, Change(g)
  PROVE  DeliveryInv'
<1>1. /\ At(g, "idle")
      /\ \/ Takes(g, "look", "state", 0, NoClient, 0)
         \/ Takes(g, "snap", "notice", 0, NoClient, 0)
  BY Becomes, JobShape, Names, DeliveryAssumption
  DEF Change, Broadcast, FirstStep, At, Target, Kind, DeliveryInv,
      DeliveryTypeOK, Aims, AimsAt, Aimed, PCs, Kinds, Answers, Words, Writing,
      MaybeClient, Seats
<1>2. DeliveryTypeOK'
  <2>1. job' \in [Goroutines -> Job]
    BY <1>1 DEF Takes, Moves, Alone
  <2>2. version' \in Nat /\ phase' \in {"waiting", "playing", "over"}
    BY <1>1
    DEF Change, Changes, DeliveryInv, DeliveryTypeOK
  <2>3. due' \in [Clients -> Nat]
    BY <1>1
    DEF Change, Changes, DeliveryInv, DeliveryTypeOK
  <2>4. QED
    BY <2>1, <2>2, <2>3
    DEF Change, lockVars, peerVars, shownVars, DeliveryInv, DeliveryTypeOK,
        Changes
<1>3. /\ Alone(g) /\ g \in Goroutines /\ DeliveryTypeOK
      /\ Aims /\ Owners /\ Flags /\ Dues /\ Reach
  BY <1>1, Names
  DEF Takes, Moves, Alone, DeliveryInv
<1>4. Aims'
  <2>1. AimsAt(g)'
    BY <1>1, <1>3, Names
    DEF Takes, Moves, Aims, AimsAt, Aimed, At, Kind, Target, Change,
        DeliveryTypeOK, Kinds
  <2>2. QED BY <1>1, <1>3, <2>1, AimsFrame DEF Change
<1>5. Owners'
  BY <1>1, <1>3, OwnersFrame
  DEF Takes, Moves, At, Kind, Target, Holding, Change, lockVars
<1>6. Flags'
  BY <1>1, <1>3, Names, FlagsFrame
  DEF Takes, Moves, At, Kind, Target, Holding, Change, lockVars, peerVars,
      shownVars
<1>7. Dues'
  <2>1. \A c \in Clients : job'[Reader(c)].at = "new" => job[Reader(c)].at = "new"
    BY <1>1, <1>3, Names DEF Alone, Takes
  <2>2. \A c \in Clients : job'[Pump(c)] = job[Pump(c)]
    BY <1>3, Names DEF Alone
  <2>3. /\ version' = version + 1 /\ newcomer' = newcomer /\ hub' = hub
        /\ version \in Nat /\ due \in [Clients -> Nat]
        /\ \A c \in Clients :
             due'[c] = IF hub[SeatOf[c]] = c THEN version + 1 ELSE due[c]
    BY <1>3 DEF Change, Changes, DeliveryTypeOK
  <2>4. QED BY <1>3, <2>1, <2>2, <2>3 DEF Dues, At
<1>8. Reach'
  <2>1. ASSUME NEW c \in Clients, Open(c)', newest'[c] < due'[c]
        PROVE  \E h \in Players : Carries(h, c)'
    <3>1. due'[c] = IF hub[SeatOf[c]] = c THEN version + 1 ELSE due[c]
      BY DEF Change, Changes
    <3>2. CASE hub[SeatOf[c]] = c
      <4>1. due'[c] = version + 1 /\ version \in Nat /\ SeatOf[c] \in Seats
        BY <3>1, <3>2, DeliveryAssumption DEF DeliveryInv, DeliveryTypeOK
      <4>2. Carries(g, c)'
        BY <1>1, <4>1
        DEF Takes, Carries, At, Kind, Target, Showing, Announces, ShowsGame,
            Writing, Seats
      <4>3. QED BY <4>2
    <3>3. CASE hub[SeatOf[c]] # c
      BY <2>1, <3>3 DEF Open, Change
    <3>4. QED BY <3>2, <3>3
  <2>2. QED BY <2>1 DEF Reach
<1>9. QED BY <1>2, <1>4, <1>5, <1>6, <1>7, <1>8 DEF DeliveryInv

LEMMA EndStep ==
  ASSUME DeliveryInv, NEW g \in Players, End(g)
  PROVE  DeliveryInv'
<1>1. At(g, "idle") /\ Takes(g, "look", "end", 0, NoClient, version + 1)
  <2>1. /\ "look" \in PCs /\ "end" \in Kinds /\ 0 \in Seats
        /\ NoClient \in MaybeClient /\ version + 1 \in Nat
    BY DEF PCs, Writing, Kinds, Seats, MaybeClient, DeliveryInv, DeliveryTypeOK
  <2>2. Become(g, MkJob("look", "end", 0, NoClient, version + 1))
    BY DEF End, Changes, Broadcast, FirstStep
  <2>3. QED BY <2>1, <2>2, Names, Becomes DEF End, DeliveryInv
<1>2. DeliveryTypeOK'
  <2>1. job' \in [Goroutines -> Job]
    BY <1>1 DEF Takes, Moves, Alone
  <2>2. version' \in Nat /\ phase' \in {"waiting", "playing", "over"}
    BY <1>1
    DEF End, Changes, DeliveryInv, DeliveryTypeOK
  <2>3. due' \in [Clients -> Nat]
    BY <1>1
    DEF End, Changes, DeliveryInv, DeliveryTypeOK
  <2>4. QED
    BY <2>1, <2>2, <2>3
    DEF End, lockVars, peerVars, shownVars, DeliveryInv, DeliveryTypeOK,
        Changes
<1>3. /\ Alone(g) /\ g \in Goroutines /\ DeliveryTypeOK
      /\ Aims /\ Owners /\ Flags /\ Dues /\ Reach
  BY <1>1, Names
  DEF Takes, Moves, Alone, DeliveryInv
<1>4. Aims'
  <2>1. AimsAt(g)'
    BY <1>1, <1>3, Names
    DEF Takes, Moves, Aims, AimsAt, Aimed, At, Kind, Target, End,
        DeliveryTypeOK, Kinds
  <2>2. QED BY <1>1, <1>3, <2>1, AimsFrame DEF End
<1>5. Owners'
  BY <1>1, <1>3, OwnersFrame
  DEF Takes, Moves, At, Kind, Target, Holding, End, lockVars
<1>6. Flags'
  BY <1>1, <1>3, Names, FlagsFrame
  DEF Takes, Moves, At, Kind, Target, Holding, End, lockVars, peerVars,
      shownVars
<1>7. Dues'
  <2>1. \A c \in Clients : job'[Reader(c)].at = "new" => job[Reader(c)].at = "new"
    BY <1>1, <1>3, Names DEF Alone, Takes
  <2>2. \A c \in Clients : job'[Pump(c)] = job[Pump(c)]
    BY <1>3, Names DEF Alone
  <2>3. /\ version' = version + 1 /\ newcomer' = newcomer /\ hub' = hub
        /\ version \in Nat /\ due \in [Clients -> Nat]
        /\ \A c \in Clients :
             due'[c] = IF hub[SeatOf[c]] = c THEN version + 1 ELSE due[c]
    BY <1>3 DEF End, Changes, DeliveryTypeOK
  <2>4. QED BY <1>3, <2>1, <2>2, <2>3 DEF Dues, At
<1>8. Reach'
  <2>1. ASSUME NEW c \in Clients, Open(c)', newest'[c] < due'[c]
        PROVE  \E h \in Players : Carries(h, c)'
    <3>1. due'[c] = IF hub[SeatOf[c]] = c THEN version + 1 ELSE due[c]
      BY DEF End, Changes
    <3>2. CASE hub[SeatOf[c]] = c
      <4>1. due'[c] = version + 1 /\ version \in Nat /\ SeatOf[c] \in Seats
        BY <3>1, <3>2, DeliveryAssumption DEF DeliveryInv, DeliveryTypeOK
      <4>2. Carries(g, c)'
        BY <1>1, <4>1
        DEF Takes, Carries, At, Kind, Target, Showing, Announces, ShowsGame,
            Writing, Seats
      <4>3. QED BY <4>2
    <3>3. CASE hub[SeatOf[c]] # c
      BY <2>1, <3>3 DEF Open, End
    <3>4. QED BY <3>2, <3>3
  <2>2. QED BY <2>1 DEF Reach
<1>9. QED BY <1>2, <1>4, <1>5, <1>6, <1>7, <1>8 DEF DeliveryInv

LEMMA RefuseStep ==
  ASSUME DeliveryInv, NEW c \in Clients, Refuse(c)
  PROVE  DeliveryInv'
<1>1. At(Reader(c), "idle") /\ Takes(Reader(c), "answer", "error", 0, c, 0)
  BY Becomes, JobShape, Names, DeliveryAssumption
  DEF Refuse, Reads, CanRead, At, Target, Kind, DeliveryInv, DeliveryTypeOK, Aims,
      AimsAt, Aimed, PCs, Kinds, Answers, Words, Writing, MaybeClient, Seats
<1>2. DeliveryTypeOK'
  <2>1. job' \in [Goroutines -> Job]
    BY <1>1 DEF Takes, Moves, Alone
  <2>2. refusals' \in Nat
    BY <1>1
    DEF Refuse, DeliveryInv, DeliveryTypeOK
  <2>3. QED
    BY <2>1, <2>2
    DEF Refuse, lockVars, peerVars, shownVars, DeliveryInv, DeliveryTypeOK
<1>3. /\ Alone(Reader(c)) /\ Reader(c) \in Goroutines /\ DeliveryTypeOK
      /\ Aims /\ Owners /\ Flags /\ Dues /\ Reach
  BY <1>1, Names
  DEF Takes, Moves, Alone, DeliveryInv
<1>4. Aims'
  <2>1. \A d \in Clients : d # c => Reader(d) # Reader(c)
    BY Names
  <2>2. \A d \in Clients : Pump(d) # Reader(c)
    BY Names
  <2>3. AimsAt(Reader(c))'
    BY <1>1, <2>1, <2>2, Names
    DEF Takes, AimsAt, Aimed, At, Kind, Target, Answers
  <2>4. QED BY <1>3, <2>3, AimsFrame DEF Refuse
<1>5. Owners'
  BY <1>1, <1>3, OwnersFrame
  DEF Takes, Moves, At, Kind, Target, Holding, Refuse, lockVars
<1>6. Flags'
  BY <1>1, <1>3, Names, FlagsFrame
  DEF Takes, Moves, At, Kind, Target, Holding, Refuse, lockVars, peerVars,
      shownVars
<1>7. Dues'
  BY <1>1, <1>3, DuesFrame
  DEF Takes, Moves, At, Kind, Target, Refuse, lockVars, peerVars, shownVars
<1>8. Reach'
  BY <1>1, <1>3, Names, ReachFrame
  DEF Takes, Moves, At, Kind, Target, Refuse, lockVars, peerVars, shownVars,
      Open, Writing, Showing, Announces, ShowsGame
<1>9. QED BY <1>2, <1>4, <1>5, <1>6, <1>7, <1>8 DEF DeliveryInv

LEMMA QueueTimesOutStep ==
  ASSUME DeliveryInv, NEW w \in Workers, QueueTimesOut(w)
  PROVE  DeliveryInv'
<1>1. At(Worker(w), "idle") /\ Takes(Worker(w), "look", "queue_timeout", 0, NoClient, 0)
  <2>1. /\ "look" \in PCs /\ "queue_timeout" \in Kinds /\ 0 \in Seats
        /\ NoClient \in MaybeClient /\ 0 \in Nat
    BY DEF PCs, Writing, Kinds, Answers, Words, Seats, MaybeClient
  <2>2. QED BY <2>1, Names, Becomes DEF QueueTimesOut, DeliveryInv
<1>2. DeliveryTypeOK'
  <2>1. job' \in [Goroutines -> Job]
    BY <1>1 DEF Takes, Moves, Alone
  <2>2. phase' \in {"waiting", "playing", "over"}
    BY <1>1
    DEF QueueTimesOut, DeliveryInv, DeliveryTypeOK
  <2>3. QED
    BY <2>1, <2>2
    DEF QueueTimesOut, lockVars, peerVars, shownVars, DeliveryInv, DeliveryTypeOK
<1>3. /\ Alone(Worker(w)) /\ Worker(w) \in Goroutines /\ DeliveryTypeOK
      /\ Aims /\ Owners /\ Flags /\ Dues /\ Reach
  BY <1>1, Names
  DEF Takes, Moves, Alone, DeliveryInv
<1>4. Aims'
  <2>1. AimsAt(Worker(w))'
    BY <1>1, <1>3, Names
    DEF Takes, Aims, AimsAt, Aimed, At, Kind, Target, QueueTimesOut
  <2>2. QED BY <1>3, <2>1, AimsFrame DEF QueueTimesOut
<1>5. Owners'
  BY <1>1, <1>3, OwnersFrame
  DEF Takes, Moves, At, Kind, Target, Holding, QueueTimesOut, lockVars
<1>6. Flags'
  BY <1>1, <1>3, Names, FlagsFrame
  DEF Takes, Moves, At, Kind, Target, Holding, QueueTimesOut, lockVars, peerVars,
      shownVars
<1>7. Dues'
  BY <1>1, <1>3, DuesFrame
  DEF Takes, Moves, At, Kind, Target, QueueTimesOut, lockVars, peerVars, shownVars
<1>8. Reach'
  BY <1>1, <1>3, Names, ReachFrame
  DEF Takes, Moves, At, Kind, Target, QueueTimesOut, lockVars, peerVars, shownVars,
      Open, Writing, Showing, Announces, ShowsGame
<1>9. QED BY <1>2, <1>4, <1>5, <1>6, <1>7, <1>8 DEF DeliveryInv

LEMMA ReconnectStep ==
  ASSUME DeliveryInv, NEW c \in Clients, Reconnect(c)
  PROVE  DeliveryInv'
<1>1. /\ At(Reader(c), "idle")
      /\ Takes(Reader(c), "answer", "reconnected", 0, c, 0)
  BY Becomes, JobShape, Names, DeliveryAssumption
  DEF Reconnect, Reads, CanRead, At, Target, Kind, DeliveryInv, DeliveryTypeOK,
      Aims, AimsAt, Aimed, PCs, Kinds, Answers, Words, Writing, MaybeClient,
      Seats
<1>2. DeliveryTypeOK'
  <2>1. job' \in [Goroutines -> Job]
    BY <1>1 DEF Takes, Moves, Alone
  <2>2. due' \in [Clients -> Nat] /\ state' \in [Clients -> {"Lobby", "Waiting", "InGame"}]
    BY DEF Reconnect, DeliveryInv, DeliveryTypeOK
  <2>3. QED
    BY <2>1, <2>2
    DEF Reconnect, lockVars, peerVars, shownVars, DeliveryInv, DeliveryTypeOK
<1>3. /\ Alone(Reader(c)) /\ Reader(c) \in Goroutines /\ DeliveryTypeOK
      /\ Aims /\ Owners /\ Flags /\ Dues /\ Reach
  BY <1>1, Names
  DEF Takes, Moves, Alone, DeliveryInv
<1>4. Aims'
  <2>1. \A d \in Clients : d # c => Reader(d) # Reader(c)
    BY Names
  <2>2. \A d \in Clients : Pump(d) # Reader(c)
    BY Names
  <2>3. AimsAt(Reader(c))'
    BY <1>1, <2>1, <2>2, Names
    DEF Takes, AimsAt, Aimed, At, Kind, Target, Answers
  <2>4. QED BY <1>3, <2>3, AimsFrame DEF Reconnect
<1>5. Owners'
  BY <1>1, <1>3, OwnersFrame
  DEF Takes, Moves, At, Kind, Target, Holding, Reconnect, lockVars
<1>6. Flags'
  BY <1>1, <1>3, Names, FlagsFrame
  DEF Takes, Moves, At, Kind, Target, Holding, Reconnect, lockVars, peerVars,
      shownVars
<1>7. Dues'
  <2>1. \A d \in Clients : job'[Reader(d)].at = "new" => job[Reader(d)].at = "new"
    BY <1>1, <1>3, Names DEF Alone, Takes
  <2>2. \A d \in Clients : job'[Pump(d)] = job[Pump(d)]
    BY <1>3, Names DEF Alone
  <2>3. /\ version' = version /\ newcomer' = newcomer /\ hub' = hub
        /\ version \in Nat
        /\ \A d \in Clients :
             due'[d] = IF d = c /\ hub[SeatOf[c]] = c THEN version ELSE due[d]
    BY <1>3 DEF Reconnect, DeliveryTypeOK
  <2>4. QED BY <1>3, <2>1, <2>2, <2>3 DEF Dues, At
<1>8. Reach'
  <2>1. ASSUME NEW d \in Clients, Open(d)', newest'[d] < due'[d]
        PROVE  \E h \in Players : Carries(h, d)'
    <3>1. Carries(Reader(c), d)'
      BY <1>1 DEF Takes, Carries, Showing, Announces, Kind
    <3>2. QED BY <3>1, Names
  <2>2. QED BY <2>1 DEF Reach
<1>9. QED BY <1>2, <1>4, <1>5, <1>6, <1>7, <1>8 DEF DeliveryInv

LEMMA LoseStep ==
  ASSUME DeliveryInv, NEW c \in Clients, Lose(c)
  PROVE  DeliveryInv'
<1>1. job' = job
  BY JobShape, Names, DeliveryAssumption
  DEF Lose, At, Target, Kind, DeliveryInv, DeliveryTypeOK, Aims, AimsAt, Aimed,
      PCs, Kinds, Answers, Words, Writing, MaybeClient, Seats
<1>2. DeliveryTypeOK'
  BY <1>1, DeliveryAssumption
  DEF Lose, lockVars, roomVars, shownVars, Takes, Moves, Alone, DeliveryInv,
      DeliveryTypeOK, MaybeClient, Seats
<1>4. Aims'
  BY <1>1 DEF Lose, DeliveryInv, Aims, AimsAt, At, Kind, Target
<1>5. Owners'
  BY <1>1 DEF Lose, DeliveryInv, Owners, At, Target, lockVars
<1>6. Flags'
  BY <1>1 DEF Lose, DeliveryInv, Flags, NoDirectWriteAfterClose, At, Target
<1>7. Dues'
  BY <1>1 DEF Lose, DeliveryInv, Dues, At, roomVars
<1>8. Reach'
  <2>1. ASSUME NEW h \in Players, NEW d \in Clients, Carries(h, d)
        PROVE  Carries(h, d)'
    BY <1>1, <2>1 DEF Lose, Carries, At, Kind, Target, Showing, Announces, ShowsGame
  <2>2. QED BY <2>1 DEF Lose, DeliveryInv, Reach, Open, shownVars
<1>9. QED BY <1>2, <1>4, <1>5, <1>6, <1>7, <1>8 DEF DeliveryInv

LEMMA ReadEndsStep ==
  ASSUME DeliveryInv, NEW c \in Clients, ReadEnds(c)
  PROVE  DeliveryInv'
<1>1. /\ At(Reader(c), "idle")
      /\ \/ Takes(Reader(c), "look", "left", 1 - SeatOf[c], NoClient, 0)
         \/ Takes(Reader(c), "unregister", "left", 1 - SeatOf[c], NoClient, 0)
  <2>1. /\ {"look", "unregister"} \subseteq PCs /\ "left" \in Kinds
        /\ NoClient \in MaybeClient /\ 0 \in Nat /\ 1 - SeatOf[c] \in Seats
    BY DeliveryAssumption DEF PCs, Writing, Kinds, MaybeClient, Seats
  <2>2. QED BY <2>1, Names, Becomes DEF ReadEnds, DeliveryInv
<1>2. DeliveryTypeOK'
  BY <1>1, DeliveryAssumption
  DEF ReadEnds, lockVars, peerVars, roomVars, shownVars, Takes, Moves, Alone,
      DeliveryInv, DeliveryTypeOK, MaybeClient, Seats
<1>3. /\ Alone(Reader(c)) /\ Reader(c) \in Goroutines /\ DeliveryTypeOK
      /\ Aims /\ Owners /\ Flags /\ Dues /\ Reach
  BY <1>1, Names
  DEF Takes, Moves, Alone, DeliveryInv
<1>4. Aims'
  <2>1. AimsAt(Reader(c))'
    BY <1>1, <1>3, Names
    DEF Takes, Moves, Aims, AimsAt, Aimed, At, Kind, Target, ReadEnds,
        DeliveryTypeOK, Kinds
  <2>2. QED BY <1>1, <1>3, <2>1, AimsFrame DEF ReadEnds
<1>5. Owners'
  BY <1>1, <1>3, OwnersFrame
  DEF Takes, Moves, At, Kind, Target, Holding, ReadEnds, lockVars
<1>6. Flags'
  BY <1>1, <1>3, Names, FlagsFrame
  DEF Takes, Moves, At, Kind, Target, Holding, ReadEnds, lockVars, peerVars,
      roomVars, shownVars
<1>7. Dues'
  BY <1>1, <1>3, DuesFrame
  DEF Takes, Moves, At, Kind, Target, ReadEnds, lockVars, peerVars, roomVars,
      shownVars
<1>8. Reach'
  BY <1>1, <1>3, Names, ReachFrame
  DEF Takes, Moves, At, Kind, Target, ReadEnds, lockVars, peerVars, roomVars,
      shownVars, Open, Writing, Showing, Announces, ShowsGame
<1>9. QED BY <1>2, <1>4, <1>5, <1>6, <1>7, <1>8 DEF DeliveryInv

LEMMA UnregisterStep ==
  ASSUME DeliveryInv, NEW c \in Clients, Unregister(c)
  PROVE  DeliveryInv'
<1>1. /\ job' \in [Goroutines -> Job]
      /\ \A h \in Goroutines \ {Hub, Reader(c)} : job'[h] = job[h]
      /\ At(Reader(c), "unregister") /\ At(Hub, "idle")
      /\ At(Reader(c), "close")' /\ At(Hub, "unregister")'
      /\ Target(Hub)' = c /\ Target(Reader(c))' = c
  <2>1. /\ At(Reader(c), "unregister") /\ At(Hub, "idle")
        /\ job' = [job EXCEPT ![Hub] = MkJob("unregister", "none", 0, c, 0),
                              ![Reader(c)] = MkJob("close", "none", 0, c, 0)]
    BY DEF Unregister
  <2>2. \A pc \in {"unregister", "close"} : MkJob(pc, "none", 0, c, 0) \in Job
    BY DEF MkJob, Job, PCs, Kinds, Seats, MaybeClient
  <2>3. Hub # Reader(c) /\ Hub \in Goroutines /\ Reader(c) \in Goroutines
    BY Names
  <2>4. /\ job' \in [Goroutines -> Job]
        /\ \A h \in Goroutines \ {Hub, Reader(c)} : job'[h] = job[h]
        /\ job'[Hub] = MkJob("unregister", "none", 0, c, 0)
        /\ job'[Reader(c)] = MkJob("close", "none", 0, c, 0)
    BY <2>1, <2>2, <2>3 DEF DeliveryInv, DeliveryTypeOK
  <2>5. /\ job'[Hub].at = "unregister" /\ job'[Hub].to = c
        /\ job'[Reader(c)].at = "close" /\ job'[Reader(c)].to = c
    BY <2>4 DEF MkJob
  <2>6. QED BY <2>1, <2>4, <2>5 DEF At, Target
<1>2. DeliveryTypeOK'
  BY <1>1, DeliveryAssumption
  DEF Unregister, lockVars, peerVars, roomVars, shownVars, Takes, Moves, Alone,
      DeliveryInv, DeliveryTypeOK, MaybeClient, Seats
<1>4. Aims'
  <2>1. ASSUME NEW h \in Goroutines, h \notin {Hub, Reader(c)} PROVE AimsAt(h)'
    BY <1>1, <2>1 DEF DeliveryInv, Aims, AimsAt, At, Kind, Target, Unregister
  <2>2. newcomer \notin Clients /\ newcomer' = newcomer
    BY <1>1, Names DEF DeliveryInv, Aims, AimsAt, At, Unregister
  <2>3. AimsAt(Hub)'
    BY <1>1, <2>2, Names DEF AimsAt, Aimed, At, Kind, Target
  <2>4. AimsAt(Reader(c))'
    BY <1>1, Names DEF AimsAt, Aimed, At, Kind, Target
  <2>5. QED BY <2>1, <2>3, <2>4, Names DEF Aims
<1>5. Owners'
  <2>1. ASSUME NEW h \in Goroutines, NEW d \in Clients
        PROVE  /\ closeMu'[d] = h <=> job'[h].at \in Holding /\ job'[h].to = d
               /\ writeMu'[d] = h <=> job'[h].at = "write" /\ job'[h].to = d
    <3>1. closeMu' = closeMu /\ writeMu' = writeMu
      BY DEF Unregister, lockVars
    <3>2. CASE h \notin {Hub, Reader(c)}
      BY <1>1, <3>1, <3>2 DEF DeliveryInv, Owners, At, Target, Holding
    <3>3. CASE h \in {Hub, Reader(c)}
      <4>1. /\ job[h].at \notin Holding \cup {"write"}
            /\ job'[h].at \notin Holding \cup {"write"}
        BY <1>1, <3>3 DEF At, Holding
      <4>2. QED BY <3>1, <4>1 DEF DeliveryInv, Owners, At, Target, Holding
    <3>4. QED BY <3>2, <3>3
  <2>2. QED BY <2>1 DEF Owners, At, Target, Holding
<1>6. Flags'
  <2>1. ASSUME NEW h \in Goroutines
        PROVE  \/ job'[h] = job[h]
               \/ job'[h].at \notin Holding \cup {"write"}
    BY <1>1 DEF At, Holding
  <2>2. closed' = closed /\ cut' = cut
    BY DEF Unregister, peerVars
  <2>3. QED BY <2>1, <2>2, Names DEF DeliveryInv, Flags, NoDirectWriteAfterClose,
             At, Target, Holding
<1>7. Dues'
  <2>1. ASSUME NEW d \in Clients
        PROVE  /\ job'[Reader(d)].at = "new" => job[Reader(d)].at = "new"
               /\ job'[Pump(d)] = job[Pump(d)]
    <3>1. /\ Reader(d) \in Goroutines \ {Hub}
          /\ Pump(d) \in Goroutines \ {Hub, Reader(c)}
      BY Names
    <3>2. QED BY <1>1, <3>1 DEF At
  <2>2. QED BY <2>1 DEF DeliveryInv, Dues, At, Unregister, roomVars
<1>8. Reach'
  <2>1. ASSUME NEW h \in Players, NEW d \in Clients, Carries(h, d)
        PROVE  Carries(h, d)'
    <3>1. h \notin {Hub, Reader(c)}
      BY <1>1, <2>1, Names DEF Carries, Showing, Announces, At, Writing
    <3>2. QED BY <1>1, <2>1, <3>1, Names
              DEF Carries, At, Kind, Target, Showing, Announces, ShowsGame,
                  Unregister
  <2>2. QED BY <2>1 DEF DeliveryInv, Reach, Open, Unregister, shownVars, peerVars
<1>9. QED BY <1>2, <1>4, <1>5, <1>6, <1>7, <1>8 DEF DeliveryInv

-----------------------------------------------------------------------------
(* The theorems.                                                           *)

LEMMA InitInv == DeliveryInit => DeliveryInv
<1> SUFFICES ASSUME DeliveryInit PROVE DeliveryInv
  OBVIOUS
<1>1. ASSUME NEW g \in Goroutines
      PROVE  /\ job[g].at \in {"new", "idle"} /\ job[g].kind = "none"
             /\ job[g].seat = 0 /\ job[g].to = NoClient /\ job[g].got = 0
             /\ job[g] \in Job
  <2>1. job[g] \in {Idle, MkJob("new", "none", 0, NoClient, 0)}
    BY DEF DeliveryInit
  <2>2. /\ {"new", "idle"} \subseteq PCs /\ "none" \in Kinds /\ 0 \in Seats
        /\ NoClient \in MaybeClient /\ 0 \in Nat
    BY DEF PCs, Kinds, Seats, MaybeClient
  <2>3. QED BY <2>1, <2>2, JobShape DEF Idle
<1>2. ASSUME NEW c \in Clients
      PROVE  /\ Shown[c] \in {0, 1}
             /\ job[Reader(c)].at = "new" =>
                  /\ job[Pump(c)].at = "new"
                  /\ First[SeatOf[c]] # c /\ Shown[c] = 0
  <2>1. Shown[c] \in {0, 1} /\ (First[SeatOf[c]] # c => Shown[c] = 0)
    BY DEF Shown, IsFirst
  <2>2. Reader(c) \in Goroutines /\ Pump(c) \in Goroutines
    BY Names
  <2>3. CASE First[SeatOf[c]] = c
    <3>1. \A d \in Clients : Reader(c) = Reader(d) \/ Reader(c) = Pump(d) => d = c
      BY Names
    <3>2. job[Reader(c)] = Idle
      BY <2>2, <2>3, <3>1 DEF DeliveryInit, IsFirst
    <3>3. QED BY <2>1, <3>2 DEF Idle, MkJob
  <2>4. CASE First[SeatOf[c]] # c
    <3>1. job[Pump(c)] = MkJob("new", "none", 0, NoClient, 0)
      BY <2>2, <2>4 DEF DeliveryInit, IsFirst
    <3>2. QED BY <2>1, <2>4, <3>1 DEF MkJob
  <2>5. QED BY <2>3, <2>4
<1>3. DeliveryTypeOK
  <2>1. job \in [Goroutines -> Job]
    <3>1. \E f : job = [g \in Goroutines |-> f[g]]
      BY DEF DeliveryInit
    <3>2. QED BY <1>1, <3>1 DEF DeliveryInit
  <2>2. Shown \in [Clients -> Nat]
    BY DEF Shown
  <2>3. /\ hub \in [Seats -> MaybeClient] 
        /\ state \in [Clients -> {"Lobby", "Waiting", "InGame"}]
    BY DeliveryAssumption DEF DeliveryInit, MaybeClient
  <2>4. /\ send \in [Clients -> Seq(Answers)]
        /\ \A c \in Clients : Len(send[c]) <= Capacity
    BY DeliveryAssumption DEF DeliveryInit
  <2>5. QED BY <2>1, <2>2, <2>3, <2>4
            DEF DeliveryInit, DeliveryTypeOK, MaybeClient
<1>4. Aims
  BY <1>1, Names, DeliveryAssumption DEF Aims, AimsAt, Aimed, At, DeliveryInit
<1>5. Owners
  BY <1>1, Names DEF Owners, At, DeliveryInit
<1>6. Flags
  BY <1>1, Names DEF Flags, NoDirectWriteAfterClose, At, DeliveryInit
<1>7. Dues
  <2>1. /\ due = Shown /\ version = 1 /\ newcomer = NoClient /\ hub = First
    BY DEF DeliveryInit
  <2>2. QED BY <1>2, <2>1, DeliveryAssumption DEF Dues, At
<1>8. Reach
  <2>1. due = Shown /\ newest = Shown
    BY DEF DeliveryInit
  <2>2. QED BY <1>2, <2>1 DEF Reach
<1>9. QED BY <1>3, <1>4, <1>5, <1>6, <1>7, <1>8 DEF DeliveryInv

LEMMA StepInv == DeliveryInv /\ [DeliveryNext]_deliveryVars => DeliveryInv'
<1> SUFFICES ASSUME DeliveryInv, [DeliveryNext]_deliveryVars PROVE DeliveryInv'
  OBVIOUS
<1>1. ASSUME NEW c \in Clients, Connect(c) PROVE DeliveryInv'
  BY <1>1, ConnectStep
<1>2. CASE HubRegister
  BY <1>2, HubRegisterStep
<1>3. CASE HubUnregister
  BY <1>3, HubUnregisterStep
<1>4. ASSUME NEW g \in Goroutines, BeginClose(g) PROVE DeliveryInv'
  BY <1>4, BeginCloseStep
<1>5. ASSUME NEW g \in Goroutines, CutConnection(g) PROVE DeliveryInv'
  BY <1>5, CutConnectionStep
<1>6. ASSUME NEW g \in Players, Look(g) PROVE DeliveryInv'
  BY <1>6, LookStep
<1>7. ASSUME NEW g \in Players, Snapshot(g) PROVE DeliveryInv'
  BY <1>7, SnapshotStep
<1>8. ASSUME NEW g \in Players, EnterWrite(g) PROVE DeliveryInv'
  BY <1>8, EnterWriteStep
<1>9. ASSUME NEW g \in Players, BeginWrite(g) PROVE DeliveryInv'
  BY <1>9, BeginWriteStep
<1>10. ASSUME NEW g \in Players, EndWrite(g) PROVE DeliveryInv'
  BY <1>10, EndWriteStep
<1>11. ASSUME NEW g \in Players, BeginSend(g) PROVE DeliveryInv'
  BY <1>11, BeginSendStep
<1>12. ASSUME NEW g \in Players, Send(g) PROVE DeliveryInv'
  BY <1>12, SendStep
<1>13. ASSUME NEW c \in Clients, Take(c) PROVE DeliveryInv'
  BY <1>13, TakeStep
<1>14. ASSUME NEW c \in Clients, TakeClosed(c) PROVE DeliveryInv'
  BY <1>14, TakeClosedStep
<1>15. ASSUME NEW c \in Clients, Ping(c) PROVE DeliveryInv'
  BY <1>15, PingStep
<1>16. ASSUME NEW c \in Clients, PumpLock(c) PROVE DeliveryInv'
  BY <1>16, PumpLockStep
<1>17. ASSUME NEW c \in Clients, PumpWrite(c) PROVE DeliveryInv'
  BY <1>17, PumpWriteStep
<1>18. ASSUME NEW g \in Players, Change(g) PROVE DeliveryInv'
  BY <1>18, ChangeStep
<1>19. ASSUME NEW g \in Players, End(g) PROVE DeliveryInv'
  BY <1>19, EndStep
<1>20. ASSUME NEW c \in Clients, Refuse(c) PROVE DeliveryInv'
  BY <1>20, RefuseStep
<1>21. ASSUME NEW c \in Clients, Reconnect(c) PROVE DeliveryInv'
  BY <1>21, ReconnectStep
<1>22. ASSUME NEW c \in Clients, Lose(c) PROVE DeliveryInv'
  BY <1>22, LoseStep
<1>23. ASSUME NEW c \in Clients, ReadEnds(c) PROVE DeliveryInv'
  BY <1>23, ReadEndsStep
<1>24. ASSUME NEW c \in Clients, Unregister(c) PROVE DeliveryInv'
  BY <1>24, UnregisterStep
<1>34. CASE Start
  BY <1>34, StartStep
<1>35. ASSUME NEW w \in Workers, QueueTimesOut(w) PROVE DeliveryInv'
  BY <1>35, QueueTimesOutStep
<1>25. CASE UNCHANGED deliveryVars
  <2>1. DeliveryTypeOK'
    BY <1>25 DEF DeliveryInv, DeliveryTypeOK, deliveryVars, lockVars, peerVars,
                 roomVars, shownVars
  <2>2. Aims' /\ Owners'
    BY <1>25 DEF DeliveryInv, Aims, AimsAt, Owners, At, Kind, Target,
                 deliveryVars, lockVars
  <2>3. Flags' /\ Dues'
    BY <1>25 DEF DeliveryInv, Flags, NoDirectWriteAfterClose, Dues, At, Target,
                 deliveryVars, peerVars, roomVars
  <2>4. Reach'
    BY <1>25
    DEF DeliveryInv, Reach, Open, Carries, Showing, Announces, ShowsGame, At,
        Kind, Target, deliveryVars, peerVars, shownVars
  <2>5. QED BY <2>1, <2>2, <2>3, <2>4 DEF DeliveryInv
<1>26. ASSUME NEW g \in Players, Tells(g) PROVE DeliveryInv'
  BY <1>26, <1>6, <1>7, <1>8, <1>9, <1>10, <1>11, <1>12 DEF Tells
<1>27. ASSUME NEW g \in Goroutines, Closing(g) PROVE DeliveryInv'
  BY <1>27, <1>4, <1>5 DEF Closing
<1>28. CASE HubStep
  BY <1>28, <1>2, <1>3, <1>27, Names DEF HubStep
<1>29. ASSUME NEW c \in Clients, PumpStep(c) PROVE DeliveryInv'
  BY <1>29, <1>13, <1>14, <1>15, <1>16, <1>17, <1>27, Names DEF PumpStep
<1>30. ASSUME NEW c \in Clients, ReaderStep(c) PROVE DeliveryInv'
  BY <1>30, <1>23, <1>24, <1>26, <1>27, Names DEF ReaderStep
<1>31. CASE Arrive
  BY <1>31, <1>1, <1>18, <1>19, <1>20, <1>21, <1>22, <1>34, <1>35 DEF Arrive
<1>32. CASE Work
  BY <1>32, <1>26, <1>28, <1>29, <1>30, Names DEF Work
<1>33. QED BY <1>25, <1>31, <1>32 DEF DeliveryNext

LEMMA DeliveryInvariant == DeliverySpec => []DeliveryInv
<1>1. QED BY InitInv, StepInv, PTL DEF DeliverySpec

\* Variables have their types; the Send channel never holds more than Capacity.
THEOREM DeliveryTypes == DeliverySpec => []DeliveryTypeOK
<1>1. DeliveryInv => DeliveryTypeOK
  BY DEF DeliveryInv
<1>2. QED BY <1>1, DeliveryInvariant, PTL

\* At most one goroutine writes to a connection: both would hold its writeMu.
THEOREM WritersTakeTurns == DeliverySpec => []OneWriter
<1>1. ASSUME DeliveryInv PROVE OneWriter
  <2>1. SUFFICES ASSUME NEW g \in Goroutines, NEW h \in Goroutines,
                        At(g, "write"), At(h, "write"), Target(g) = Target(h)
                 PROVE  g = h
    BY DEF OneWriter
  <2>2. Target(g) \in Clients
    BY <1>1, <2>1 DEF DeliveryInv, Aims, AimsAt, Aimed, At
  <2>3. QED BY <1>1, <2>1, <2>2 DEF DeliveryInv, Owners
<1>2. QED BY <1>1, DeliveryInvariant, PTL

\* A broadcast does not write to a connection the server has closed: closeMu
\* is given back only once writeMu is held.
THEOREM WritesPrecedeClose == DeliverySpec => []NoDirectWriteAfterClose
<1>1. DeliveryInv => NoDirectWriteAfterClose
  BY DEF DeliveryInv, Flags
<1>2. QED BY <1>1, DeliveryInvariant, PTL

\* No answer, and no word from another goroutine, is sent on a closed channel.
THEOREM SendsFindItOpen == DeliverySpec => []NoSendOnClosed
<1>1. ASSUME DeliveryInv PROVE NoSendOnClosed
  <2>1. SUFFICES ASSUME NEW g \in Players, At(g, "put") PROVE ~closed[Target(g)]
    BY DEF NoSendOnClosed
  <2>2. QED BY <1>1, <2>1, Names DEF DeliveryInv, Flags, At
<1>2. QED BY <1>1, DeliveryInvariant, PTL

\* Once no goroutine is showing the game any more, every working connection
\* has been sent each change of the room it was registered for, and what the
\* room was when it came back.
THEOREM ChangesAreShown == DeliverySpec => []EveryChangeIsShown
<1>1. ASSUME DeliveryInv PROVE EveryChangeIsShown
  <2>1. SUFFICES ASSUME Settled, NEW c \in Clients, Open(c), newest[c] < due[c]
                 PROVE  FALSE
    BY <1>1 DEF EveryChangeIsShown, DeliveryInv, DeliveryTypeOK
  <2>2. PICK g \in Players : Carries(g, c)
    BY <1>1, <2>1 DEF DeliveryInv, Reach
  <2>3. QED BY <2>1, <2>2 DEF Settled, Carries
<1>2. QED BY <1>1, DeliveryInvariant, PTL
=============================================================================
