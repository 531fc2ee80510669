-------------------------- MODULE CheckQueueProofs --------------------------
(***************************************************************************)
(* CheckQueue for any number of workers, any checks and any batch size:    *)
(* the counters are exact, the master leaves with nothing outstanding, and *)
(* its verdict is right.                                                   *)
(***************************************************************************)
EXTENDS CheckQueue, FiniteSetTheorems, TLAPS

\* leaves are tried with Zenon unless they ask for SMT
USE Zenon

Busy    == {"run", "ran"}
Asleep  == {t \in Threads : pc[t] \in {"waiting", "woken"}}
Counted == {t \in Threads : pc[t] \in {"waiting", "woken", "run", "ran"}}

\* each check is in one place, and only a busy thread has any
Located ==
  /\ \A t \in Threads : vChecks[t] \cap queue = {}
  /\ \A t, u \in Threads : t # u => vChecks[t] \cap vChecks[u] = {}
  /\ \A t \in Threads : pc[t] \in Busy <=> vChecks[t] # {}
  /\ \A w \in Workers : pc[w] \notin {"out", "control"}
  /\ Outstanding \subseteq added

\* between two blocks the queue is as new
Clean == pc[Master] = "out" => Outstanding = {} /\ fAllOk = TRUE

\* a failing check of the block is still to be run, or has been noticed
Noticed(c) ==
  \/ c \in queue
  \/ \E t \in Threads : c \in vChecks[t] /\ pc[t] = "run"
  \/ \E t \in Threads : pc[t] = "ran" /\ fOk[t] = FALSE
  \/ fAllOk = FALSE

\* and nothing but a failing check of the block is ever noticed
Judged ==
  txdata = TRUE /\ pc[Master] # "out" =>
    /\ \A c \in added \cap Bad : Noticed(c)
    /\ fAllOk = FALSE => added \cap Bad # {}
    /\ \A t \in Threads : pc[t] \in Busy /\ fOk[t] = FALSE => added \cap Bad # {}

Sound ==
  verdict # NONE => pc[Master] = "out" /\ (verdict = TRUE <=> added \cap Bad = {})

Inv == TypeOK /\ Located /\ CountersExact /\ Clean /\ Judged /\ Sound

-----------------------------------------------------------------------------
LEMMA Finite ==
  ASSUME TypeOK
  PROVE  /\ IsFiniteSet(Outstanding) /\ Outstanding \subseteq Checks
         /\ IsFiniteSet(Asleep) /\ IsFiniteSet(Counted)
  <1>1. Outstanding \subseteq Checks
    BY DEF TypeOK, Outstanding
  <1>2. IsFiniteSet(Threads)
    BY CheckQueueAssumption, FS_AddElement DEF CheckQueueAssumption, Threads
  <1>3. Asleep \subseteq Threads /\ Counted \subseteq Threads
    BY DEF Asleep, Counted
  <1>4. QED
    BY <1>1, <1>2, <1>3, FS_Subset, CheckQueueAssumption DEF CheckQueueAssumption

\* what the clean-up at the head of a critical section computes
LEMMA CleanUp ==
  ASSUME Inv, NEW t \in Threads, InLoop(t)
  PROVE  /\ Todo(t) = Cardinality(Outstanding \ vChecks[t]) /\ Todo(t) \in Nat
         /\ Total(t) = Cardinality(Counted \cup {t}) /\ Total(t) \in Nat
         /\ Idle(t) = Cardinality(Asleep \ {t}) /\ Idle(t) \in Nat
         /\ AllOk(t) \in BOOLEAN
  <1>1. /\ IsFiniteSet(Outstanding) /\ IsFiniteSet(Asleep) /\ IsFiniteSet(Counted)
    BY Finite DEF Inv
  <1>2. /\ nTodo = Cardinality(Outstanding) /\ nIdle = Cardinality(Asleep)
        /\ nTotal = Cardinality(Counted)
    BY DEF Inv, CountersExact, Asleep, Counted
  <1>3. Outstanding \cap vChecks[t] = vChecks[t]
    BY DEF Outstanding
  <1>4. Cardinality(Outstanding \ vChecks[t]) = nTodo - Cardinality(vChecks[t])
    BY <1>1, <1>2, <1>3, FS_Difference, ZenonT(30)
  <1>5. Cardinality(Outstanding \ vChecks[t]) \in Nat
    BY <1>1, FS_Difference, FS_CardinalityType
  <1>6. pc[t] # "ran" => Outstanding \ vChecks[t] = Outstanding
    BY DEF Inv, Located, InLoop, Busy
  <1>7. Todo(t) = Cardinality(Outstanding \ vChecks[t])
    BY <1>2, <1>4, <1>6 DEF Todo
  <1>8. Total(t) = Cardinality(Counted \cup {t})
    <2>1. CASE pc[t] = "enter"
      <3>1. t \notin Counted
        BY <2>1 DEF Counted
      <3>2. Cardinality(Counted \cup {t}) = Cardinality(Counted) + 1
        BY <1>1, <3>1, FS_AddElement
      <3>3. QED
        BY <2>1, <3>2, <1>2 DEF Total
    <2>2. CASE pc[t] # "enter"
      <3>1. Counted \cup {t} = Counted
        BY <2>2 DEF Counted, InLoop
      <3>2. QED
        BY <2>2, <3>1, <1>2 DEF Total
    <2>3. QED
      BY <2>1, <2>2
  <1>9. Idle(t) = Cardinality(Asleep \ {t})
    <2>1. CASE pc[t] = "woken"
      <3>1. t \in Asleep
        BY <2>1 DEF Asleep
      <3>2. Cardinality(Asleep \ {t}) = Cardinality(Asleep) - 1
        BY <1>1, <3>1, FS_RemoveElement
      <3>3. QED
        BY <2>1, <3>2, <1>2 DEF Idle
    <2>2. CASE pc[t] # "woken"
      <3>1. Asleep \ {t} = Asleep
        BY <2>2 DEF Asleep, InLoop
      <3>2. QED
        BY <2>2, <3>1, <1>2 DEF Idle
    <2>3. QED
      BY <2>1, <2>2
  <1>10. Total(t) \in Nat
    <2>1. IsFiniteSet(Counted \cup {t})
      BY <1>1, FS_AddElement
    <2>2. QED
      BY <2>1, <1>8, FS_CardinalityType
  <1>11. Idle(t) \in Nat
    <2>1. IsFiniteSet(Asleep \ {t})
      BY <1>1, FS_RemoveElement
    <2>2. QED
      BY <2>1, <1>9, FS_CardinalityType
  <1>12. AllOk(t) \in BOOLEAN
    BY DEF AllOk, Inv, TypeOK
  <1>13. QED
    BY <1>5, <1>7, <1>8, <1>9, <1>10, <1>11, <1>12

\* ... and what it knows about the checks that failed
LEMMA CleanUpJudges ==
  ASSUME Inv, NEW t \in Threads, InLoop(t), txdata = TRUE, pc[Master] # "out"
  PROVE  /\ \A c \in added \cap Bad :
              \/ c \in queue
              \/ \E u \in Threads \ {t} : c \in vChecks[u] /\ pc[u] = "run"
              \/ \E u \in Threads \ {t} : pc[u] = "ran" /\ fOk[u] = FALSE
              \/ AllOk(t) = FALSE
         /\ AllOk(t) = FALSE => added \cap Bad # {}
  <1>1. pc[t] # "run"
    BY DEF InLoop
  <1>2. fAllOk = FALSE => AllOk(t) = FALSE
    BY DEF AllOk
  <1>3. pc[t] = "ran" /\ fOk[t] = FALSE => AllOk(t) = FALSE
    BY DEF AllOk
  <1>4. AllOk(t) = FALSE => fAllOk = FALSE \/ (pc[t] = "ran" /\ fOk[t] = FALSE)
    BY DEF AllOk, Inv, TypeOK
  <1>5. QED
    BY <1>1, <1>2, <1>3, <1>4 DEF Inv, Judged, Noticed, Busy

\* where the threads are after Notify
LEMMA NotifyFacts ==
  ASSUME Inv, NEW t \in Threads, InLoop(t), NEW next \in {"waiting", "run"},
         pc' = Notify(t, next)
  PROVE  /\ pc' \in [Threads -> {"out", "control", "enter", "waiting", "woken", "run", "ran"}]
         /\ pc'[t] = next
         /\ \A u \in Threads \ {t} :
              pc'[u] = pc[u] \/ (pc[u] = "waiting" /\ pc'[u] = "woken")
         /\ Counted' = Counted \cup {t}
         /\ Asleep' = IF next = "waiting" THEN Asleep \cup {t} ELSE Asleep \ {t}
  <1>1. Master \in Threads
    BY DEF Threads
  <1>2. pc' \in [Threads -> {"out", "control", "enter", "waiting", "woken", "run", "ran"}]
    BY <1>1 DEF Notify, Inv, TypeOK
  <1>3. pc'[t] = next
    BY <1>1 DEF Notify, Inv, TypeOK
  <1>4. \A u \in Threads \ {t} :
              pc'[u] = pc[u] \/ (pc[u] = "waiting" /\ pc'[u] = "woken")
    BY <1>1 DEF Notify, Inv, TypeOK
  <1>5. Counted' = Counted \cup {t}
    BY <1>3, <1>4 DEF Counted
  <1>6. Asleep' = IF next = "waiting" THEN Asleep \cup {t} ELSE Asleep \ {t}
    BY <1>3, <1>4 DEF Asleep
  <1>7. QED
    BY <1>2, <1>3, <1>4, <1>5, <1>6

-----------------------------------------------------------------------------
(* The steps of Loop.                                                       *)

LEMMA SleepStep ==
  ASSUME Inv, NEW t \in Threads, Sleep(t)
  PROVE  Inv'
  <1>1. InLoop(t) /\ pc' = Notify(t, "waiting") /\ queue = {} /\ queue' = {}
        /\ vChecks' = [vChecks EXCEPT ![t] = {}] /\ UNCHANGED <<fOk, block>>
    BY DEF Sleep
  <1>2. fAllOk' = AllOk(t) /\ nTotal' = Total(t) /\ nTodo' = Todo(t) /\ nIdle' = Idle(t) + 1
    BY DEF Sleep
  <1>3. /\ pc' \in [Threads -> {"out", "control", "enter", "waiting", "woken", "run", "ran"}]
        /\ pc'[t] = "waiting"
        /\ \A u \in Threads \ {t} :
              pc'[u] = pc[u] \/ (pc[u] = "waiting" /\ pc'[u] = "woken")
        /\ Counted' = Counted \cup {t} /\ Asleep' = Asleep \cup {t}
    BY <1>1, NotifyFacts
  <1>4. TypeOK'
    <2>0. Idle(t) \in Nat /\ Total(t) \in Nat /\ Todo(t) \in Nat
      BY <1>1, CleanUp
    <2>1. nIdle' \in Nat /\ nTotal' \in Nat /\ nTodo' \in Nat
      BY <1>2, <2>0, SMT
    <2>2. fAllOk' \in BOOLEAN
      BY <1>1, <1>2, CleanUp
    <2>3. QED
      BY <1>1, <1>3, <2>1, <2>2 DEF Inv, TypeOK, block
  <1>5. Outstanding' = Outstanding \ vChecks[t]
    BY <1>1, SMT DEF Inv, TypeOK, Located, Outstanding
  <1>6. Located'
    BY <1>1, <1>3, <1>5 DEF Inv, TypeOK, Located, Busy, block, Threads
  <1>7. CountersExact'
    <2>1. nTodo' = Cardinality(Outstanding')
      BY <1>1, <1>2, <1>5, CleanUp
    <2>2. nTotal' = Cardinality(Counted')
      BY <1>1, <1>2, <1>3, CleanUp
    <2>3. nIdle' = Cardinality(Asleep')
      <3>1. IsFiniteSet(Asleep \ {t}) /\ t \notin Asleep \ {t}
            /\ Asleep \cup {t} = (Asleep \ {t}) \cup {t}
        BY Finite, FS_RemoveElement DEF Inv
      <3>2. Cardinality(Asleep \cup {t}) = Cardinality(Asleep \ {t}) + 1
        BY <3>1, FS_AddElement
      <3>3. QED
        BY <1>1, <1>2, <1>3, <3>2, CleanUp
    <2>4. QED
      BY <2>1, <2>2, <2>3 DEF CountersExact, Counted, Asleep
  <1>8. Master \in Threads /\ (pc'[Master] = "out" <=> pc[Master] = "out")
    BY <1>1, <1>3 DEF Threads, InLoop
  <1>9. Clean'
    <2>1. SUFFICES ASSUME pc[Master] = "out" PROVE Outstanding' = {} /\ fAllOk' = TRUE
      BY <1>8 DEF Clean
    <2>2. Outstanding = {} /\ fAllOk = TRUE
      BY <2>1 DEF Inv, Clean
    <2>4. pc[t] # "ran"
      BY <2>2, SMT DEF Inv, Located, Busy, Outstanding
    <2>5. QED
      BY <2>2, <2>4, <1>2, <1>5 DEF AllOk
  <1>10. Judged'
    <2>1. SUFFICES ASSUME txdata = TRUE, pc[Master] # "out"
                   PROVE  /\ \A c \in added \cap Bad : Noticed(c)'
                          /\ fAllOk' = FALSE => added \cap Bad # {}
                          /\ \A u \in Threads : pc'[u] \in Busy /\ fOk[u] = FALSE
                                               => added \cap Bad # {}
      BY <1>1, <1>8 DEF Judged, block
    <2>2. /\ \A c \in added \cap Bad :
               \/ c \in queue
               \/ \E u \in Threads \ {t} : c \in vChecks[u] /\ pc[u] = "run"
               \/ \E u \in Threads \ {t} : pc[u] = "ran" /\ fOk[u] = FALSE
               \/ AllOk(t) = FALSE
          /\ AllOk(t) = FALSE => added \cap Bad # {}
      BY <1>1, <2>1, CleanUpJudges
    <2>3. \A u \in Threads \ {t} : (pc'[u] \in Busy <=> pc[u] \in Busy)
                                 /\ (pc[u] \in Busy => pc'[u] = pc[u])
      BY <1>3 DEF Busy
    <2>4. \A u \in Threads \ {t} : vChecks'[u] = vChecks[u]
      BY <1>1 DEF Inv, TypeOK
    <2>5. \A c \in added \cap Bad : Noticed(c)'
      BY <1>1, <1>2, <2>2, <2>3, <2>4 DEF Noticed, Busy
    <2>6. \A u \in Threads : pc'[u] \in Busy /\ fOk[u] = FALSE => added \cap Bad # {}
      BY <1>3, <2>1, <2>3 DEF Inv, Judged, Busy
    <2>7. QED
      BY <1>2, <2>2, <2>5, <2>6
  <1>11. Sound'
    BY <1>1, <1>8 DEF Sound, Inv, block
  <1>12. QED
    BY <1>4, <1>6, <1>7, <1>9, <1>10, <1>11 DEF Inv

LEMMA TakeBatchStep ==
  ASSUME Inv, NEW t \in Threads, TakeBatch(t)
  PROVE  Inv'
  <1>1. /\ InLoop(t) /\ pc' = Notify(t, "run") /\ UNCHANGED block
        /\ fOk' = [fOk EXCEPT ![t] = AllOk(t)]
    BY DEF TakeBatch
  <1>2. fAllOk' = AllOk(t) /\ nTotal' = Total(t) /\ nTodo' = Todo(t) /\ nIdle' = Idle(t)
    BY DEF TakeBatch
  <1>3. /\ pc' \in [Threads -> {"out", "control", "enter", "waiting", "woken", "run", "ran"}]
        /\ pc'[t] = "run"
        /\ \A u \in Threads \ {t} :
              pc'[u] = pc[u] \/ (pc[u] = "waiting" /\ pc'[u] = "woken")
        /\ Counted' = Counted \cup {t} /\ Asleep' = Asleep \ {t}
    BY <1>1, NotifyFacts
  <1>4. PICK S \in SUBSET queue :
          /\ Cardinality(S) = BatchOf(t)
          /\ queue' = queue \ S
          /\ vChecks' = [vChecks EXCEPT ![t] = S]
    BY DEF TakeBatch
  <1>5. S # {}
    <2>1. Idle(t) \in Nat /\ Total(t) \in Nat
      BY <1>1, CleanUp
    <2>2. BatchOf(t) # 0
      BY <2>1, SMT DEF BatchOf
    <2>3. QED
      BY <1>4, <2>2, FS_EmptySet
  <1>6. TypeOK'
    <2>1. Idle(t) \in Nat /\ Total(t) \in Nat /\ Todo(t) \in Nat
      BY <1>1, CleanUp
    <2>2. AllOk(t) \in BOOLEAN
      BY <1>1, CleanUp
    <2>3. queue' \subseteq Checks /\ vChecks' \in [Threads -> SUBSET Checks]
      BY <1>4 DEF Inv, TypeOK
    <2>4. fOk' \in [Threads -> BOOLEAN]
      BY <1>1, <2>2 DEF Inv, TypeOK
    <2>5. QED
      BY <1>1, <1>2, <1>3, <2>1, <2>2, <2>3, <2>4 DEF Inv, TypeOK, block
  <1>7. /\ vChecks'[t] = S
        /\ \A u \in Threads \ {t} : vChecks'[u] = vChecks[u]
    BY <1>4 DEF Inv, TypeOK
  <1>8. Outstanding' = Outstanding \ vChecks[t]
    BY <1>4, <1>7, SMT DEF Inv, Located, Outstanding
  <1>9. Located'
    <2>1. \A u \in Threads : vChecks'[u] \cap queue' = {}
      BY <1>4, <1>7 DEF Inv, Located
    <2>2. \A u, v \in Threads : u # v => vChecks'[u] \cap vChecks'[v] = {}
      BY <1>4, <1>7 DEF Inv, Located
    <2>3. \A u \in Threads : pc'[u] \in Busy <=> vChecks'[u] # {}
      BY <1>3, <1>5, <1>7 DEF Inv, Located, Busy
    <2>4. \A w \in Workers : pc'[w] \notin {"out", "control"}
      BY <1>3 DEF Inv, Located, Threads
    <2>5. Outstanding' \subseteq added'
      BY <1>1, <1>8 DEF Inv, Located, block
    <2>6. QED
      BY <2>1, <2>2, <2>3, <2>4, <2>5 DEF Located
  <1>10. CountersExact'
    BY <1>1, <1>2, <1>3, <1>8, CleanUp, ZenonT(30) DEF CountersExact, Counted, Asleep
  <1>11. Master \in Threads /\ (pc'[Master] = "out" <=> pc[Master] = "out")
    BY <1>1, <1>3 DEF Threads, InLoop
  <1>12. Clean'
    BY <1>4, <1>5, <1>11 DEF Inv, Clean, Outstanding
  <1>13. Judged'
    <2>1. SUFFICES ASSUME txdata = TRUE, pc[Master] # "out"
                   PROVE  /\ \A c \in added \cap Bad : Noticed(c)'
                          /\ fAllOk' = FALSE => added \cap Bad # {}
                          /\ \A u \in Threads : pc'[u] \in Busy /\ fOk'[u] = FALSE
                                               => added \cap Bad # {}
      BY <1>1, <1>11 DEF Judged, block
    <2>2. /\ \A c \in added \cap Bad :
               \/ c \in queue
               \/ \E u \in Threads \ {t} : c \in vChecks[u] /\ pc[u] = "run"
               \/ \E u \in Threads \ {t} : pc[u] = "ran" /\ fOk[u] = FALSE
               \/ AllOk(t) = FALSE
          /\ AllOk(t) = FALSE => added \cap Bad # {}
      BY <1>1, <2>1, CleanUpJudges
    <2>3. \A u \in Threads \ {t} : (pc'[u] \in Busy <=> pc[u] \in Busy)
                                 /\ (pc[u] \in Busy => pc'[u] = pc[u])
      BY <1>3 DEF Busy
    <2>4. fOk'[t] = AllOk(t) /\ \A u \in Threads \ {t} : fOk'[u] = fOk[u]
      BY <1>1 DEF Inv, TypeOK
    <2>5. \A c \in added \cap Bad : Noticed(c)'
      BY <1>2, <1>3, <1>4, <1>7, <2>2, <2>3, <2>4, ZenonT(30) DEF Noticed, Busy
    <2>6. \A u \in Threads : pc'[u] \in Busy /\ fOk'[u] = FALSE => added \cap Bad # {}
      BY <2>1, <2>2, <2>3, <2>4 DEF Inv, Judged
    <2>7. QED
      BY <1>2, <2>2, <2>5, <2>6
  <1>14. Sound'
    BY <1>1, <1>11 DEF Sound, Inv, block
  <1>15. QED
    BY <1>6, <1>9, <1>10, <1>12, <1>13, <1>14 DEF Inv

LEMMA ReturnStep ==
  ASSUME Inv, NEW t \in Threads, Return(t)
  PROVE  Inv'
  <1>1. /\ InLoop(t) /\ t = Master /\ queue = {} /\ Todo(t) = 0
        /\ pc' = [pc EXCEPT ![t] = "out"] /\ vChecks' = [vChecks EXCEPT ![t] = {}]
        /\ UNCHANGED <<queue, fOk, added, txdata>>
    BY DEF Return, MayReturn
  <1>2. /\ verdict' = IF txdata THEN AllOk(t) ELSE NONE
        /\ fAllOk' = TRUE
        /\ nTotal' = Total(t) - 1 /\ nTodo' = Todo(t) /\ nIdle' = Idle(t)
    BY DEF Return
  <1>3. Outstanding \ vChecks[t] = {}
    <2>1. Cardinality(Outstanding \ vChecks[t]) = 0
      BY <1>1, CleanUp
    <2>2. IsFiniteSet(Outstanding \ vChecks[t])
      BY Finite, FS_Difference DEF Inv
    <2>3. QED
      BY <2>1, <2>2, FS_EmptySet
  <1>4. /\ vChecks'[t] = {} /\ pc'[t] = "out"
        /\ \A u \in Threads \ {t} : vChecks[u] = {} /\ vChecks'[u] = {}
                                 /\ pc[u] \notin Busy /\ pc'[u] = pc[u]
    <2>1. \A u \in Threads \ {t} : vChecks[u] \cap vChecks[t] = {} /\ vChecks[u] \subseteq Outstanding
      BY DEF Inv, Located, Outstanding
    <2>2. \A u \in Threads \ {t} : vChecks[u] = {}
      BY <1>3, <2>1
    <2>3. QED
      BY <1>1, <2>2, ZenonT(30) DEF Inv, TypeOK, Located
  <1>5. Outstanding' = {}
    BY <1>1, <1>4, SMT DEF Outstanding
  <1>6. /\ nTotal' = Cardinality(Counted') /\ nTotal' \in Nat
        /\ nIdle' = Cardinality(Asleep') /\ nIdle' \in Nat
    <2>1. Counted' = (Counted \cup {t}) \ {t} /\ Asleep' = Asleep \ {t}
      BY <1>4 DEF Counted, Asleep
    <2>2. IsFiniteSet(Counted \cup {t}) /\ t \in Counted \cup {t}
      BY Finite, FS_AddElement DEF Inv
    <2>3. /\ Cardinality(Counted') = Cardinality(Counted \cup {t}) - 1
          /\ IsFiniteSet(Counted')
      BY <2>1, <2>2, FS_RemoveElement
    <2>4. Cardinality(Counted') \in Nat
      BY <2>3, FS_CardinalityType
    <2>5. QED
      BY <1>1, <1>2, <2>1, <2>3, <2>4, CleanUp
  <1>7. verdict' \in BOOLEAN \cup {NONE}
    <2>1. AllOk(t) \in BOOLEAN
      BY <1>1, CleanUp
    <2>2. QED
      BY <1>2, <2>1
  <1>8. TypeOK'
    <2>1. nTodo' \in Nat
      BY <1>1, <1>2, SMT
    <2>2. fAllOk' \in BOOLEAN
      BY <1>2
    <2>3. QED
      BY <1>1, <1>6, <1>7, <2>1, <2>2 DEF Inv, TypeOK
  <1>9. Located'
    BY <1>1, <1>4, <1>5, CheckQueueAssumption, ZenonT(30)
       DEF Inv, Located, Busy, Threads, CheckQueueAssumption
  <1>10. CountersExact'
    BY <1>1, <1>2, <1>5, <1>6, FS_EmptySet DEF CountersExact, Counted, Asleep
  <1>11. Clean'
    BY <1>2, <1>5 DEF Clean
  <1>12. Judged'
    BY <1>1, <1>4 DEF Judged
  <1>13. Sound'
    <2>1. SUFFICES ASSUME verdict' # NONE
                   PROVE  verdict' = TRUE <=> added \cap Bad = {}
      BY <1>1, <1>4 DEF Sound
    <2>2. txdata = TRUE /\ verdict' = AllOk(t)
      BY <1>2, <2>1 DEF Inv, TypeOK
    <2>3. pc[Master] # "out"
      BY <1>1 DEF InLoop
    <2>4. /\ \A c \in added \cap Bad :
               \/ c \in queue
               \/ \E u \in Threads \ {t} : c \in vChecks[u] /\ pc[u] = "run"
               \/ \E u \in Threads \ {t} : pc[u] = "ran" /\ fOk[u] = FALSE
               \/ AllOk(t) = FALSE
          /\ AllOk(t) = FALSE => added \cap Bad # {}
      BY <1>1, <2>2, <2>3, CleanUpJudges
    <2>5. added \cap Bad # {} => AllOk(t) = FALSE
      BY <1>1, <1>4, <2>4 DEF Busy
    <2>6. AllOk(t) \in BOOLEAN
      BY <1>1, CleanUp
    <2>7. QED
      BY <2>2, <2>4, <2>5, <2>6
  <1>14. QED
    BY <1>8, <1>9, <1>10, <1>11, <1>12, <1>13 DEF Inv

LEMMA RunStep ==
  ASSUME Inv, NEW t \in Threads, Run(t)
  PROVE  Inv'
  <1>1. /\ pc[t] = "run" /\ pc' = [pc EXCEPT ![t] = "ran"]
        /\ UNCHANGED <<pool, vChecks, block>>
    BY DEF Run
  <1>2. PICK guess \in BOOLEAN :
          fOk' = [fOk EXCEPT ![t] = @ /\ IF txdata THEN vChecks[t] \cap Bad = {} ELSE guess]
    BY DEF Run
  <1>3. /\ pc'[t] = "ran" /\ \A u \in Threads \ {t} : pc'[u] = pc[u]
        /\ \A u \in Threads \ {t} : fOk'[u] = fOk[u]
        /\ Counted' = Counted /\ Asleep' = Asleep
    BY <1>1, <1>2 DEF Inv, TypeOK, Counted, Asleep
  <1>4. fOk' \in [Threads -> BOOLEAN]
    BY <1>2 DEF Inv, TypeOK
  <1>5. TypeOK'
    BY <1>1, <1>4 DEF Inv, TypeOK, pool, block
  <1>6. Outstanding' = Outstanding
    BY <1>1 DEF Outstanding, pool
  <1>7. Located'
    BY <1>1, <1>3, <1>6 DEF Inv, Located, Busy, pool, block, Threads
  <1>8. CountersExact'
    BY <1>1, <1>3, <1>6 DEF Inv, CountersExact, Counted, Asleep, pool
  <1>9. Master \in Threads /\ (pc'[Master] = "out" <=> pc[Master] = "out")
    BY <1>1, <1>3 DEF Threads
  <1>10. Clean'
    BY <1>1, <1>6, <1>9 DEF Inv, Clean, pool
  <1>11. Judged'
    <2>1. SUFFICES ASSUME txdata = TRUE, pc[Master] # "out"
                   PROVE  /\ \A c \in added \cap Bad : Noticed(c)'
                          /\ fAllOk = FALSE => added \cap Bad # {}
                          /\ \A u \in Threads : pc'[u] \in Busy /\ fOk'[u] = FALSE
                                               => added \cap Bad # {}
      BY <1>1, <1>9 DEF Judged, block, pool
    <2>2. /\ fOk'[t] = FALSE => fOk[t] = FALSE \/ vChecks[t] \cap Bad # {}
          /\ vChecks[t] \cap Bad # {} => fOk'[t] = FALSE
      BY <1>2, <2>1 DEF Inv, TypeOK
    <2>3. vChecks[t] \subseteq added
      BY DEF Inv, Located, Outstanding
    <2>4. \A c \in added \cap Bad : Noticed(c)
      BY <2>1 DEF Inv, Judged
    <2>5. \A c \in added \cap Bad : Noticed(c)'
      BY <1>1, <1>3, <2>2, <2>4 DEF Noticed, pool
    <2>6. \A u \in Threads : pc'[u] \in Busy /\ fOk'[u] = FALSE => added \cap Bad # {}
      BY <1>1, <1>3, <2>1, <2>2, <2>3 DEF Inv, Judged, Busy
    <2>7. QED
      BY <2>1, <2>5, <2>6 DEF Inv, Judged
  <1>12. Sound'
    BY <1>1, <1>9 DEF Sound, Inv, block
  <1>13. QED
    BY <1>5, <1>7, <1>8, <1>10, <1>11, <1>12 DEF Inv

LEMMA SpuriousWakeupStep ==
  ASSUME Inv, NEW t \in Threads, SpuriousWakeup(t)
  PROVE  Inv'
  <1>1. /\ pc[t] = "waiting" /\ pc' = [pc EXCEPT ![t] = "woken"]
        /\ UNCHANGED <<pool, locals, block>>
    BY DEF SpuriousWakeup
  <1>2. /\ pc'[t] = "woken" /\ \A u \in Threads \ {t} : pc'[u] = pc[u]
        /\ Counted' = Counted /\ Asleep' = Asleep /\ Outstanding' = Outstanding
    BY <1>1 DEF Inv, TypeOK, Counted, Asleep, Outstanding, pool, locals
  <1>3. TypeOK'
    BY <1>1 DEF Inv, TypeOK, pool, locals, block
  <1>4. Located' /\ CountersExact'
    BY <1>1, <1>2 DEF Inv, Located, CountersExact, Counted, Asleep, Busy, Threads,
                      pool, locals, block
  <1>5. Master \in Threads /\ (pc'[Master] = "out" <=> pc[Master] = "out")
    BY <1>1, <1>2 DEF Threads
  <1>6. Clean' /\ Sound'
    BY <1>1, <1>2, <1>5 DEF Inv, Clean, Sound, pool, block
  <1>7. Judged'
    BY <1>1, <1>2, <1>5 DEF Inv, Judged, Noticed, Busy, pool, locals, block
  <1>8. QED
    BY <1>3, <1>4, <1>6, <1>7 DEF Inv

-----------------------------------------------------------------------------
(* The steps of the master outside Loop.                                    *)

LEMMA BeginBlockStep ==
  ASSUME Inv, BeginBlock
  PROVE  Inv'
  <1>1. /\ Master \in Threads /\ pc[Master] = "out"
        /\ pc' = [pc EXCEPT ![Master] = "control"]
        /\ added' = {} /\ txdata' = TRUE /\ verdict' = NONE
        /\ UNCHANGED <<pool, locals>>
    BY DEF BeginBlock, Threads
  <1>2. /\ pc'[Master] = "control" /\ \A u \in Threads \ {Master} : pc'[u] = pc[u]
        /\ Counted' = Counted /\ Asleep' = Asleep /\ Outstanding' = Outstanding
    BY <1>1 DEF Inv, TypeOK, Counted, Asleep, Outstanding, pool, locals
  <1>3. Outstanding = {} /\ fAllOk = TRUE
    BY <1>1 DEF Inv, Clean
  <1>4. TypeOK'
    BY <1>1 DEF Inv, TypeOK, pool, locals
  <1>5. Located' /\ CountersExact'
    BY <1>1, <1>2, <1>3, CheckQueueAssumption
       DEF Inv, Located, CountersExact, Counted, Asleep, Busy, Threads, pool, locals,
           CheckQueueAssumption
  <1>6. Clean' /\ Sound'
    BY <1>1, <1>2 DEF Clean, Sound
  <1>7. \A u \in Threads : pc'[u] \notin Busy
    BY <1>3, <1>5, <1>2, SMT DEF Located, Outstanding
  <1>8. Judged'
    BY <1>1, <1>3, <1>7 DEF Judged, pool
  <1>9. QED
    BY <1>4, <1>5, <1>6, <1>8 DEF Inv

LEMMA AddStep ==
  ASSUME Inv, NEW S \in SUBSET Checks, Add(S)
  PROVE  Inv'
  <1>1. /\ Master \in Threads /\ pc[Master] = "control" /\ S \subseteq Checks \ added
        /\ queue' = queue \cup S /\ added' = added \cup S
        /\ UNCHANGED <<nIdle, nTotal, fAllOk, locals, txdata, verdict>>
    BY DEF Add, Threads
  <1>2. nTodo' = nTodo + Cardinality(S)
    BY DEF Add
  <1>3. PICK W \in Notified(Cardinality(S)) :
          pc' = [t \in Threads |-> IF t \in W THEN "woken" ELSE pc[t]]
    BY DEF Add
  <1>4. \A w \in W : w \in Workers /\ pc[w] = "waiting"
    BY <1>3 DEF Notified
  <1>5. /\ \A u \in Threads : pc'[u] = pc[u] \/ (pc[u] = "waiting" /\ pc'[u] = "woken")
        /\ pc' \in [Threads -> {"out", "control", "enter", "waiting", "woken", "run", "ran"}]
    BY <1>3, <1>4 DEF Inv, TypeOK
  <1>6. Counted' = Counted /\ Asleep' = Asleep
    BY <1>5 DEF Counted, Asleep
  <1>7. Outstanding' = Outstanding \cup S /\ Outstanding \cap S = {}
    BY <1>1, SMT DEF Inv, Located, Outstanding, locals
  <1>8. IsFiniteSet(S) /\ Cardinality(S) \in Nat
    BY FS_Subset, FS_CardinalityType, CheckQueueAssumption DEF CheckQueueAssumption
  <1>9. TypeOK'
    <2>1. nTodo' \in Nat
      BY <1>2, <1>8, SMT DEF Inv, TypeOK
    <2>2. QED
      BY <1>1, <1>5, <2>1 DEF Inv, TypeOK, locals
  <1>10. Located'
    <2>1. \A u \in Threads : vChecks[u] \cap S = {}
      BY <1>7 DEF Outstanding
    <2>2. QED
      BY <1>1, <1>5, <1>7, <2>1 DEF Inv, Located, Busy, Threads, locals
  <1>11. CountersExact'
    <2>1. Cardinality(Outstanding \cup S) = Cardinality(Outstanding) + Cardinality(S)
      <3>1. IsFiniteSet(Outstanding) /\ Cardinality(Outstanding) \in Nat
        BY Finite, FS_CardinalityType DEF Inv
      <3>2. Cardinality(Outstanding \cap S) = 0
        BY <1>7, FS_EmptySet
      <3>3. Cardinality(Outstanding \cup S)
              = Cardinality(Outstanding) + Cardinality(S) - Cardinality(Outstanding \cap S)
        BY <1>8, <3>1, FS_Union
      <3>4. QED
        BY <1>8, <3>1, <3>2, <3>3, SMT
    <2>2. QED
      BY <1>1, <1>2, <1>6, <1>7, <2>1 DEF Inv, CountersExact, Counted, Asleep
  <1>12. pc'[Master] = "control"
    BY <1>1, <1>5
  <1>13. Clean' /\ Sound'
    BY <1>1, <1>12 DEF Inv, Clean, Sound
  <1>14. Judged'
    BY <1>1, <1>5 DEF Inv, Judged, Noticed, Busy, locals
  <1>15. QED
    BY <1>9, <1>10, <1>11, <1>13, <1>14 DEF Inv

\* Wait and the early return differ in what happens to txdata
LEMMA EnterStep ==
  ASSUME Inv, WaitForVerdict \/ ReturnEarly
  PROVE  Inv'
  <1>1. /\ Master \in Threads /\ pc[Master] = "control"
        /\ pc' = [pc EXCEPT ![Master] = "enter"]
        /\ txdata' \in {txdata, FALSE}
        /\ UNCHANGED <<pool, locals, added, verdict>>
    BY DEF WaitForVerdict, ReturnEarly, Threads, block
  <1>2. /\ pc'[Master] = "enter" /\ \A u \in Threads \ {Master} : pc'[u] = pc[u]
        /\ Counted' = Counted /\ Asleep' = Asleep /\ Outstanding' = Outstanding
    BY <1>1 DEF Inv, TypeOK, Counted, Asleep, Outstanding, pool, locals
  <1>3. TypeOK'
    BY <1>1 DEF Inv, TypeOK, pool, locals
  <1>4. Located' /\ CountersExact'
    BY <1>1, <1>2, CheckQueueAssumption
       DEF Inv, Located, CountersExact, Counted, Asleep, Busy, Threads, pool, locals,
           CheckQueueAssumption
  <1>5. Clean' /\ Sound'
    BY <1>1, <1>2 DEF Inv, Clean, Sound
  <1>6. Judged'
    BY <1>1, <1>2 DEF Inv, Judged, Noticed, Busy, pool, locals
  <1>7. QED
    BY <1>3, <1>4, <1>5, <1>6 DEF Inv

-----------------------------------------------------------------------------
LEMMA InitInv == Init => Inv
  <1> SUFFICES ASSUME Init PROVE Inv
    OBVIOUS
  <1>1. Master \in Threads /\ Outstanding = {} /\ Counted = {} /\ Asleep = {}
    BY DEF Init, Threads, Outstanding, Counted, Asleep
  <1>2. TypeOK
    BY DEF Init, TypeOK
  <1>3. Located
    BY <1>1, CheckQueueAssumption DEF Init, Located, Busy, Threads, CheckQueueAssumption
  <1>4. CountersExact
    BY <1>1, FS_EmptySet DEF Init, CountersExact, Counted, Asleep
  <1>5. Clean /\ Judged /\ Sound
    BY <1>1 DEF Init, Clean, Judged, Sound
  <1>6. QED
    BY <1>2, <1>3, <1>4, <1>5 DEF Inv

LEMMA NextInv == Inv /\ [Next]_vars => Inv'
  <1> SUFFICES ASSUME Inv, [Next]_vars PROVE Inv'
    OBVIOUS
  <1>1. CASE BeginBlock
    BY <1>1, BeginBlockStep
  <1>2. CASE WaitForVerdict \/ ReturnEarly
    BY <1>2, EnterStep
  <1>3. CASE \E S \in SUBSET Checks : Add(S)
    BY <1>3, AddStep
  <1>4. CASE \E t \in Threads : Loop(t) \/ SpuriousWakeup(t)
    <2>1. PICK t \in Threads : Loop(t) \/ SpuriousWakeup(t)
      BY <1>4
    <2>2. QED
      BY <2>1, ReturnStep, SleepStep, TakeBatchStep, RunStep, SpuriousWakeupStep DEF Loop
  <1>5. CASE UNCHANGED vars
    BY <1>5, SMT DEF Inv, TypeOK, Located, CountersExact, Clean, Judged, Sound, Noticed, Outstanding,
                vars, pool, locals, block
  <1>6. QED
    BY <1>1, <1>2, <1>3, <1>4, <1>5 DEF Next

\* The counters of CCheckQueue never go below zero.
THEOREM TypeCorrect == Spec => []TypeOK
  BY InitInv, NextInv, PTL DEF Spec, Inv

\* nTodo, nIdle and nTotal count what CCheckQueue::Loop uses them for.
THEOREM CountersAlwaysExact == Spec => []CountersExact
  BY InitInv, NextInv, PTL DEF Spec, Inv

\* Past its CCheckQueueControl ConnectBlock has left no check behind.
THEOREM AlwaysFinished == Spec => []FinishedBeforeContinuing
  <1>1. Inv => FinishedBeforeContinuing
    BY DEF Inv, Clean, FinishedBeforeContinuing
  <1>2. QED
    BY InitInv, NextInv, <1>1, PTL DEF Spec

\* control.Wait() says yes exactly when every check of the block passes.
THEOREM VerdictAlwaysExact == Spec => []VerdictExact
  <1>1. Inv => VerdictExact
    BY DEF Inv, Sound, TypeOK, VerdictExact
  <1>2. QED
    BY InitInv, NextInv, <1>1, PTL DEF Spec

=============================================================================
