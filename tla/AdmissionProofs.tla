---------------------------- MODULE AdmissionProofs ----------------------------
(*****************************************************************************)
(* What admission promises on every path, for any number of requests and    *)
(* processes and any limits: the capacity of a process is counted exactly,  *)
(* the provider is called within its limit, and a request that met no       *)
(* failure leaves nothing behind. Each promise has an invariant of its own; *)
(* they share what a lease can hold at each stage. The last part is about   *)
(* the emergency limiter.                                                   *)
(*****************************************************************************)
EXTENDS MCAdmission, FiniteSetTheorems, WellFoundedInduction, TLAPS

-----------------------------------------------------------------------------
(* Sums over finite sets.  The fold begins with an element that CHOOSE      *)
(* picks; that the order does not matter is proved by the least set for     *)
(* which it would.                                                          *)

\* A set of subsets of a finite set has a least one: what the inductions on sets
\* below are made of.
LEMMA LeastSubset ==
    ASSUME NEW S, IsFiniteSet(S), NEW Bad \in SUBSET SUBSET S, Bad # {}
    PROVE  \E T \in Bad : \A U \in SUBSET T : U # T => U \notin Bad
<1>1. IsWellFoundedOn(StrictSubsetOrdering(S), SUBSET S)
  BY FS_StrictSubsetOrderingWellFounded, FS_FiniteSubsetsOfFinite, Zenon
<1>2. PICK T \in Bad : \A U \in Bad : ~(<<U, T>> \in StrictSubsetOrdering(S))
  BY <1>1, WFMin, Zenon
<1>3. ASSUME NEW U \in SUBSET T, U # T, U \in Bad
      PROVE  FALSE
  BY <1>2, <1>3 DEF StrictSubsetOrdering
<1> QED
  BY <1>3

\* The sum of the model's properties, the function it is taken from, and the
\* element each of its steps begins with.
Sizes(q, T) == MapThenSumSet(LAMBDA r : q[r].size, T)
Some(s) == CHOOSE x \in s : TRUE

Adds(f, q, T) ==
    f = [s \in SUBSET T |-> IF s = {} THEN 0
                            ELSE q[Some(s)].size + f[s \ {Some(s)}]]

\* The library's fold is the value of such a function.
LEMMA SizesUnfolded == ASSUME NEW q, NEW T PROVE Sizes(q, T) = (CHOOSE f : Adds(f, q, T))[T]
BY Zenon DEF Sizes, Adds, Some, MapThenSumSet, MapThenFoldSet

LEMMA SomeIsElement == ASSUME NEW s, s # {} PROVE Some(s) \in s
BY DEF Some

\* Two functions that add up agree where both are defined ...
LEMMA OneSum ==
    ASSUME NEW q, NEW T, NEW U, IsFiniteSet(T), NEW f, NEW g, Adds(f, q, T), Adds(g, q, U),
           NEW V \in SUBSET T, V \subseteq U
    PROVE  f[V] = g[V]
<1> DEFINE Bad == {s \in SUBSET T : s \subseteq U /\ f[s] # g[s]}
<1>1. SUFFICES ASSUME Bad # {} PROVE FALSE
  OBVIOUS
<1>0. Bad \in SUBSET SUBSET T
  OBVIOUS
<1>2. PICK s \in Bad : \A t \in SUBSET s : t # s => t \notin Bad
  <2> HIDE DEF Bad
  <2> QED BY <1>0, <1>1, LeastSubset, Zenon
<1>3. CASE s = {}
  BY <1>3, <1>2 DEF Adds
<1>4. CASE s # {}
  <2>1. Some(s) \in s
    BY <1>4, SomeIsElement
  <2>2. s \ {Some(s)} \in SUBSET s /\ s \ {Some(s)} # s
    BY <2>1
  <2>3. f[s \ {Some(s)}] = g[s \ {Some(s)}]
    BY <2>2, <1>2
  <2>4. /\ f[s] = q[Some(s)].size + f[s \ {Some(s)}]
        /\ g[s] = q[Some(s)].size + g[s \ {Some(s)}]
    BY <1>4, <1>2 DEF Adds
  <2> QED BY <2>3, <2>4, <1>2
<1> QED BY <1>3, <1>4

\* ... and there is one for every finite set.
LEMMA SumExists ==
    ASSUME NEW q, NEW T, IsFiniteSet(T)
    PROVE  \E f : Adds(f, q, T)
<1> DEFINE Bad == {s \in SUBSET T : ~ \E f : Adds(f, q, s)}
<1>1. SUFFICES ASSUME Bad # {} PROVE FALSE
  OBVIOUS
<1>0. Bad \in SUBSET SUBSET T
  OBVIOUS
<1>2. PICK s \in Bad : \A t \in SUBSET s : t # s => t \notin Bad
  <2> HIDE DEF Bad
  <2> QED BY <1>0, <1>1, LeastSubset, Zenon
<1> DEFINE F(t) == CHOOSE f : Adds(f, q, t)
           x == Some(s)
           f == [t \in SUBSET s |-> IF t # s THEN F(t)[t] ELSE
                                    IF s = {} THEN 0 ELSE q[x].size + F(s \ {x})[s \ {x}]]
<1>3. ASSUME NEW t \in SUBSET s, t # s PROVE Adds(F(t), q, t)
  <2>1. \E g : Adds(g, q, t)
    BY <1>2, <1>3
  <2> QED BY <2>1, Zenon
<1>4. ASSUME NEW t \in SUBSET s
      PROVE  f[t] = IF t = {} THEN 0 ELSE q[Some(t)].size + f[t \ {Some(t)}]
  <2>1. CASE t = s
    <3>1. CASE s = {}
      BY <3>1, <2>1
    <3>2. CASE s # {}
      <4>1. x \in s
        BY <3>2, SomeIsElement
      <4>2. s \ {x} \in SUBSET s /\ s \ {x} # s
        BY <4>1
      <4> QED BY <4>2, <3>2, <2>1
    <3> QED BY <3>1, <3>2
  <2>2. CASE t # s
    <3>1. Adds(F(t), q, t)
      BY <1>3, <2>2
    <3>2. f[t] = F(t)[t]
      BY <2>2
    <3>3. F(t)[t] = IF t = {} THEN 0 ELSE q[Some(t)].size + F(t)[t \ {Some(t)}]
      <4> HIDE DEF F, f
      <4> QED BY <3>1 DEF Adds
    <3>4. CASE t = {}
      BY <3>2, <3>3, <3>4
    <3>5. CASE t # {}
      <4> DEFINE u == t \ {Some(t)}
      <4>1. Some(t) \in t
        BY <3>5, SomeIsElement
      <4>2. u \in SUBSET s /\ u # s /\ u \subseteq t
        BY <4>1
      <4>3. Adds(F(u), q, u)
        BY <4>2, <1>3
      <4>4. IsFiniteSet(t)
        BY FS_Subset, <1>2
      <4>5. F(t)[u] = F(u)[u]
        <5> HIDE DEF F, f, u
        <5> QED BY <3>1, <4>2, <4>3, <4>4, OneSum
      <4>6. f[u] = F(u)[u]
        BY <4>2
      <4> HIDE DEF F, f
      <4> QED BY <3>2, <3>3, <4>5, <4>6, <3>5
    <3> QED BY <3>4, <3>5
  <2> QED BY <2>1, <2>2
<1>5. Adds(f, q, s)
  <2>1. f = [t \in SUBSET s |-> f[t]]
    OBVIOUS
  <2> HIDE DEF f
  <2> QED BY <1>4, <2>1 DEF Adds
<1> QED BY <1>5, <1>2

LEMMA SizesStep ==
    ASSUME NEW q, NEW T, IsFiniteSet(T)
    PROVE  Sizes(q, T) = IF T = {} THEN 0 ELSE q[Some(T)].size + Sizes(q, T \ {Some(T)})
<1> DEFINE F(t) == CHOOSE f : Adds(f, q, t)
           U == T \ {Some(T)}
<1>1. IsFiniteSet(U)
  BY FS_Subset
<1>2. Adds(F(T), q, T) /\ Adds(F(U), q, U)
  BY <1>1, SumExists
<1>3. Sizes(q, T) = F(T)[T] /\ Sizes(q, U) = F(U)[U]
  BY SizesUnfolded
<1> HIDE DEF F
<1>4. F(T)[U] = F(U)[U]
  BY <1>1, <1>2, OneSum
<1>5. F(T)[T] = IF T = {} THEN 0 ELSE q[Some(T)].size + F(T)[U]
  BY <1>2 DEF Adds
<1> QED BY <1>3, <1>4, <1>5

LEMMA SizesNat ==
    ASSUME NEW q, NEW T, IsFiniteSet(T), \A x \in T : q[x].size \in Nat
    PROVE  Sizes(q, T) \in Nat
<1> DEFINE Bad == {s \in SUBSET T : Sizes(q, s) \notin Nat}
<1>1. SUFFICES ASSUME Bad # {} PROVE FALSE
  OBVIOUS
<1>0. Bad \in SUBSET SUBSET T
  OBVIOUS
<1>2. PICK s \in Bad : \A t \in SUBSET s : t # s => t \notin Bad
  <2> HIDE DEF Bad
  <2> QED BY <1>0, <1>1, LeastSubset, Zenon
<1>3. IsFiniteSet(s)
  BY FS_Subset, <1>2
<1>4. Sizes(q, s) = IF s = {} THEN 0 ELSE q[Some(s)].size + Sizes(q, s \ {Some(s)})
  BY <1>3, SizesStep
<1>5. CASE s # {}
  <2>1. Some(s) \in s
    BY <1>5, SomeIsElement
  <2>2. Sizes(q, s \ {Some(s)}) \in Nat
    BY <2>1, <1>2
  <2> QED BY <2>1, <2>2, <1>4, <1>2
<1> QED BY <1>4, <1>5, <1>2

\* Whichever element is taken out first, the sum is the same.
LEMMA SizesWithout ==
    ASSUME NEW q, NEW T, IsFiniteSet(T), \A x \in T : q[x].size \in Nat, NEW y \in T
    PROVE  Sizes(q, T) = q[y].size + Sizes(q, T \ {y})
<1> DEFINE Bad == {s \in SUBSET T : \E x \in s : Sizes(q, s) # q[x].size + Sizes(q, s \ {x})}
<1>1. SUFFICES ASSUME Bad # {} PROVE FALSE
  OBVIOUS
<1>0. Bad \in SUBSET SUBSET T
  OBVIOUS
<1>2. PICK s \in Bad : \A t \in SUBSET s : t # s => t \notin Bad
  <2> HIDE DEF Bad
  <2> QED BY <1>0, <1>1, LeastSubset, Zenon
<1>3. PICK x \in s : Sizes(q, s) # q[x].size + Sizes(q, s \ {x})
  BY <1>2
<1> DEFINE z == Some(s)
<1>4. z \in s
  BY <1>3, SomeIsElement
<1> HIDE DEF z
<1>5. \A t \in SUBSET s : IsFiniteSet(t)
  BY FS_Subset, <1>2
<1>6. Sizes(q, s) = q[z].size + Sizes(q, s \ {z})
  BY <1>5, <1>3, SizesStep DEF z
<1>7. x # z
  BY <1>6, <1>3
<1>8. Sizes(q, s \ {z}) = q[x].size + Sizes(q, (s \ {z}) \ {x})
  <2>1. s \ {z} \in SUBSET s /\ s \ {z} # s
    BY <1>4
  <2> QED BY <2>1, <1>2, <1>7
<1>9. Sizes(q, s \ {x}) = q[z].size + Sizes(q, (s \ {x}) \ {z})
  <2>1. s \ {x} \in SUBSET s /\ s \ {x} # s
    OBVIOUS
  <2> QED BY <2>1, <1>2, <1>7, <1>4
<1>10. Sizes(q, (s \ {z}) \ {x}) = Sizes(q, (s \ {x}) \ {z})
  <2>1. (s \ {z}) \ {x} = (s \ {x}) \ {z}
    OBVIOUS
  <2> QED BY <2>1, Zenon
<1>11. q[x].size \in Nat /\ q[z].size \in Nat /\ Sizes(q, (s \ {x}) \ {z}) \in Nat
  BY <1>4, <1>5, SizesNat, <1>2
<1>12. ASSUME NEW a \in Nat, NEW b \in Nat, NEW c \in Nat PROVE a + (b + c) = b + (a + c)
  OBVIOUS
<1> HIDE DEF Bad
<1> QED BY <1>3, <1>6, <1>8, <1>9, <1>10, <1>11, <1>12

LEMMA SizesGrow ==
    ASSUME NEW q, NEW T, IsFiniteSet(T), \A x \in T : q[x].size \in Nat, NEW S \in SUBSET T
    PROVE  Sizes(q, S) <= Sizes(q, T)
<1> DEFINE Bad == {t \in SUBSET T : S \subseteq t /\ ~(Sizes(q, S) <= Sizes(q, t))}
<1>1. SUFFICES ASSUME Bad # {} PROVE FALSE
  OBVIOUS
<1>0. Bad \in SUBSET SUBSET T
  OBVIOUS
<1>2. PICK t \in Bad : \A u \in SUBSET t : u # t => u \notin Bad
  <2> HIDE DEF Bad
  <2> QED BY <1>0, <1>1, LeastSubset, Zenon
<1>3. \A u \in SUBSET T : Sizes(q, u) \in Nat
  BY FS_Subset, SizesNat
<1>4. PICK x \in t : x \notin S
  <2>1. Sizes(q, S) \in Nat
    BY <1>3
  <2>2. S # t
    BY <2>1, <1>2
  <2> QED BY <2>2, <1>2
<1>5. Sizes(q, S) <= Sizes(q, t \ {x})
  BY <1>4, <1>2
<1>6. Sizes(q, t) = q[x].size + Sizes(q, t \ {x})
  BY FS_Subset, SizesWithout, <1>4, <1>2
<1>7. q[x].size \in Nat /\ Sizes(q, t \ {x}) \in Nat /\ Sizes(q, S) \in Nat
  BY <1>3, <1>4, <1>2
<1>8. ~(Sizes(q, S) <= Sizes(q, t))
  BY <1>2
<1> HIDE DEF Bad
<1> QED BY <1>5, <1>6, <1>7, <1>8
-----------------------------------------------------------------------------
(* The types of the variables the invariants speak of.                      *)

ReqTyped ==
    /\ req \in [Requests -> Req \cup {Nothing}]
    /\ stage \in [Requests -> Stages]
    /\ \A r \in Requests : stage[r] # "idle" => req[r] # Nothing
StatusTyped == status \in [Requests -> AiStatus \cup Errors \cup {Nothing}]
HeldTyped ==
    /\ held \in [Resources -> SUBSET Requests]
    /\ troubled \subseteq Requests
    /\ outlived \subseteq Requests

LEMMA ReqFields == ASSUME ReqTyped, NEW r \in Requests, stage[r] # "idle"
   PROVE req[r].process \in Processes /\ req[r].size \in Nat \ {0} /\ req[r].ai \in BOOLEAN
      /\ req[r].source \in {"reviewed_text", "pdf"}
BY DEF ReqTyped, Req

LEMMA ReqTypedStep == ReqTyped /\ [Next]_vars => ReqTyped'
<1> SUFFICES ASSUME ReqTyped, [Next]_vars
             PROVE  ReqTyped'
  OBVIOUS
<1> USE DEF ReqTyped, Stages, Goto, Decide, Raise, clockVars, otherVars
<1>1. ASSUME NEW r \in Requests, Begin(r)
      PROVE  ReqTyped'
  BY <1>1 DEF Begin
<1>2. ASSUME NEW r \in Requests, Tokens(r)
      PROVE  ReqTyped'
  BY <1>2 DEF Tokens
<1>3. ASSUME NEW r \in Requests, TokensFail(r)
      PROVE  ReqTyped'
  BY <1>3 DEF TokensFail
<1>4. ASSUME NEW r \in Requests, ReserveLocalPdf(r)
      PROVE  ReqTyped'
  BY <1>4 DEF ReserveLocalPdf
<1>5. ASSUME NEW r \in Requests, NoLocalPdf(r)
      PROVE  ReqTyped'
  BY <1>5 DEF NoLocalPdf
<1>6. ASSUME NEW r \in Requests, NoPdf(r)
      PROVE  ReqTyped'
  BY <1>6 DEF NoPdf
<1>7. ASSUME NEW r \in Requests, ChooseAi(r)
      PROVE  ReqTyped'
  BY <1>7 DEF ChooseAi
<1>8. ASSUME NEW r \in Requests, NoProvider(r)
      PROVE  ReqTyped'
  BY <1>8 DEF NoProvider
<1>9. ASSUME NEW r \in Requests, NEW reply \in BOOLEAN, ReservePdf(r, reply)
      PROVE  ReqTyped'
  BY <1>9 DEF ReservePdf
<1>10. ASSUME NEW r \in Requests, NEW reply \in BOOLEAN, ReserveProvider(r, reply)
      PROVE  ReqTyped'
  BY <1>10 DEF ReserveProvider
<1>11. ASSUME NEW r \in Requests, ReserveAllowance(r)
      PROVE  ReqTyped'
  BY <1>11 DEF ReserveAllowance
<1>12. ASSUME NEW r \in Requests, Snapshot(r)
      PROVE  ReqTyped'
  BY <1>12 DEF Snapshot
<1>13. ASSUME NEW r \in Requests, DropAllowance(r)
      PROVE  ReqTyped'
  BY <1>13 DEF DropAllowance
<1>14. ASSUME NEW r \in Requests, AllowanceFails(r)
      PROVE  ReqTyped'
  BY <1>14 DEF AllowanceFails
<1>15. ASSUME NEW r \in Requests, DropProvider(r)
      PROVE  ReqTyped'
  BY <1>15 DEF DropProvider
<1>16. ASSUME NEW r \in Requests, DropProviderFails(r)
      PROVE  ReqTyped'
  BY <1>16 DEF DropProviderFails
<1>17. ASSUME NEW r \in Requests, ReleaseLocalPdf(r)
      PROVE  ReqTyped'
  BY <1>17 DEF ReleaseLocalPdf
<1>18. ASSUME NEW r \in Requests, NEW ok \in BOOLEAN, ReleaseSlot(r, ok)
      PROVE  ReqTyped'
  BY <1>18 DEF ReleaseSlot
<1>19. ASSUME NEW r \in Requests, Released(r)
      PROVE  ReqTyped'
  BY <1>19 DEF Released
<1>20. ASSUME NEW r \in Requests, EmergencyRefused(r)
      PROVE  ReqTyped'
  BY <1>20 DEF EmergencyRefused
<1>21. ASSUME NEW r \in Requests, EmergencyClock(r)
      PROVE  ReqTyped'
  BY <1>21 DEF EmergencyClock
<1>22. ASSUME NEW r \in Requests, EmergencyTake(r)
      PROVE  ReqTyped'
  BY <1>22 DEF EmergencyTake
<1>23. ASSUME NEW r \in Requests, Dispatch(r)
      PROVE  ReqTyped'
  BY <1>23 DEF Dispatch
<1>24. ASSUME NEW r \in Requests, Finish(r)
      PROVE  ReqTyped'
  BY <1>24 DEF Finish
<1>25. ASSUME NEW x \in Resources, NEW r \in Requests, Expire(x, r)
      PROVE  ReqTyped'
  BY <1>25 DEF Expire
<1>26. ASSUME Tick
      PROVE  ReqTyped'
  BY <1>26 DEF Tick
<1>27. ASSUME NEW p \in Processes, Crash(p)
      PROVE  ReqTyped'
  <2>1. /\ req' = req /\ DOMAIN stage' = Requests
        /\ \A r \in Requests : stage'[r] \in {stage[r], "done"} /\ (stage[r] = "idle" => stage'[r] = "idle")
    BY <1>27 DEF Crash, Alive
  <2>2. stage' = [r \in Requests |-> stage'[r]]
    BY <1>27 DEF Crash
  <2> QED
    BY <2>1, <2>2
<1>28. CASE UNCHANGED vars
  BY <1>28 DEF vars
<1> QED
  BY <1>1, <1>2, <1>3, <1>4, <1>5, <1>6, <1>7, <1>8, <1>9, <1>10, <1>11, <1>12, <1>13,
     <1>14, <1>15, <1>16, <1>17, <1>18, <1>19, <1>20, <1>21, <1>22, <1>23, <1>24, <1>25,
     <1>26, <1>27, <1>28
     DEF Next

LEMMA StatusTypedStep == StatusTyped /\ [Next]_vars => StatusTyped'
<1> SUFFICES ASSUME StatusTyped, [Next]_vars
             PROVE  StatusTyped'
  OBVIOUS
<1> USE DEF StatusTyped, AiStatus, Errors, Decide, Raise, Goto, clockVars, otherVars
<1>1. ASSUME NEW r \in Requests, Begin(r)
      PROVE  StatusTyped'
  BY <1>1 DEF Begin
<1>2. ASSUME NEW r \in Requests, Tokens(r)
      PROVE  StatusTyped'
  BY <1>2 DEF Tokens
<1>3. ASSUME NEW r \in Requests, TokensFail(r)
      PROVE  StatusTyped'
  BY <1>3 DEF TokensFail
<1>4. ASSUME NEW r \in Requests, ReserveLocalPdf(r)
      PROVE  StatusTyped'
  BY <1>4 DEF ReserveLocalPdf
<1>5. ASSUME NEW r \in Requests, NoLocalPdf(r)
      PROVE  StatusTyped'
  BY <1>5 DEF NoLocalPdf
<1>6. ASSUME NEW r \in Requests, NoPdf(r)
      PROVE  StatusTyped'
  BY <1>6 DEF NoPdf
<1>7. ASSUME NEW r \in Requests, ChooseAi(r)
      PROVE  StatusTyped'
  BY <1>7 DEF ChooseAi
<1>8. ASSUME NEW r \in Requests, NoProvider(r)
      PROVE  StatusTyped'
  BY <1>8 DEF NoProvider
<1>9. ASSUME NEW r \in Requests, NEW reply \in BOOLEAN, ReservePdf(r, reply)
      PROVE  StatusTyped'
  BY <1>9 DEF ReservePdf
<1>10. ASSUME NEW r \in Requests, NEW reply \in BOOLEAN, ReserveProvider(r, reply)
      PROVE  StatusTyped'
  BY <1>10 DEF ReserveProvider
<1>11. ASSUME NEW r \in Requests, ReserveAllowance(r)
      PROVE  StatusTyped'
  BY <1>11 DEF ReserveAllowance
<1>12. ASSUME NEW r \in Requests, Snapshot(r)
      PROVE  StatusTyped'
  BY <1>12 DEF Snapshot
<1>13. ASSUME NEW r \in Requests, DropAllowance(r)
      PROVE  StatusTyped'
  BY <1>13 DEF DropAllowance
<1>14. ASSUME NEW r \in Requests, AllowanceFails(r)
      PROVE  StatusTyped'
  BY <1>14 DEF AllowanceFails
<1>15. ASSUME NEW r \in Requests, DropProvider(r)
      PROVE  StatusTyped'
  BY <1>15 DEF DropProvider
<1>16. ASSUME NEW r \in Requests, DropProviderFails(r)
      PROVE  StatusTyped'
  BY <1>16 DEF DropProviderFails
<1>17. ASSUME NEW r \in Requests, ReleaseLocalPdf(r)
      PROVE  StatusTyped'
  BY <1>17 DEF ReleaseLocalPdf
<1>18. ASSUME NEW r \in Requests, NEW ok \in BOOLEAN, ReleaseSlot(r, ok)
      PROVE  StatusTyped'
  BY <1>18 DEF ReleaseSlot
<1>19. ASSUME NEW r \in Requests, Released(r)
      PROVE  StatusTyped'
  BY <1>19 DEF Released
<1>20. ASSUME NEW r \in Requests, EmergencyRefused(r)
      PROVE  StatusTyped'
  BY <1>20 DEF EmergencyRefused
<1>21. ASSUME NEW r \in Requests, EmergencyClock(r)
      PROVE  StatusTyped'
  BY <1>21 DEF EmergencyClock
<1>22. ASSUME NEW r \in Requests, EmergencyTake(r)
      PROVE  StatusTyped'
  BY <1>22 DEF EmergencyTake
<1>23. ASSUME NEW r \in Requests, Dispatch(r)
      PROVE  StatusTyped'
  BY <1>23 DEF Dispatch
<1>24. ASSUME NEW r \in Requests, Finish(r)
      PROVE  StatusTyped'
  BY <1>24 DEF Finish
<1>25. ASSUME NEW x \in Resources, NEW r \in Requests, Expire(x, r)
      PROVE  StatusTyped'
  BY <1>25 DEF Expire
<1>26. ASSUME Tick
      PROVE  StatusTyped'
  BY <1>26 DEF Tick
<1>27. ASSUME NEW p \in Processes, Crash(p)
      PROVE  StatusTyped'
  BY <1>27 DEF Crash
<1>28. CASE UNCHANGED vars
  BY <1>28 DEF vars
<1> QED
  BY <1>1, <1>2, <1>3, <1>4, <1>5, <1>6, <1>7, <1>8, <1>9, <1>10, <1>11, <1>12, <1>13,
     <1>14, <1>15, <1>16, <1>17, <1>18, <1>19, <1>20, <1>21, <1>22, <1>23, <1>24, <1>25,
     <1>26, <1>27, <1>28
     DEF Next

LEMMA HeldTypedStep == HeldTyped /\ [Next]_vars => HeldTyped'
<1> SUFFICES ASSUME HeldTyped, [Next]_vars
             PROVE  HeldTyped'
  OBVIOUS
<1> USE
   DEF HeldTyped, Hold, Drop, Trouble, FailedDrop, Alive, clockVars, otherVars, Resources
<1>1. ASSUME NEW r \in Requests, Begin(r)
      PROVE  HeldTyped'
  BY <1>1 DEF Begin
<1>2. ASSUME NEW r \in Requests, Tokens(r)
      PROVE  HeldTyped'
  BY <1>2 DEF Tokens
<1>3. ASSUME NEW r \in Requests, TokensFail(r)
      PROVE  HeldTyped'
  BY <1>3 DEF TokensFail
<1>4. ASSUME NEW r \in Requests, ReserveLocalPdf(r)
      PROVE  HeldTyped'
  BY <1>4 DEF ReserveLocalPdf
<1>5. ASSUME NEW r \in Requests, NoLocalPdf(r)
      PROVE  HeldTyped'
  BY <1>5 DEF NoLocalPdf
<1>6. ASSUME NEW r \in Requests, NoPdf(r)
      PROVE  HeldTyped'
  BY <1>6 DEF NoPdf
<1>7. ASSUME NEW r \in Requests, ChooseAi(r)
      PROVE  HeldTyped'
  BY <1>7 DEF ChooseAi
<1>8. ASSUME NEW r \in Requests, NoProvider(r)
      PROVE  HeldTyped'
  BY <1>8 DEF NoProvider
<1>9. ASSUME NEW r \in Requests, NEW reply \in BOOLEAN, ReservePdf(r, reply)
      PROVE  HeldTyped'
  BY <1>9 DEF ReservePdf
<1>10. ASSUME NEW r \in Requests, NEW reply \in BOOLEAN, ReserveProvider(r, reply)
      PROVE  HeldTyped'
  BY <1>10 DEF ReserveProvider
<1>11. ASSUME NEW r \in Requests, ReserveAllowance(r)
      PROVE  HeldTyped'
  BY <1>11 DEF ReserveAllowance
<1>12. ASSUME NEW r \in Requests, Snapshot(r)
      PROVE  HeldTyped'
  BY <1>12 DEF Snapshot
<1>13. ASSUME NEW r \in Requests, DropAllowance(r)
      PROVE  HeldTyped'
  BY <1>13 DEF DropAllowance
<1>14. ASSUME NEW r \in Requests, AllowanceFails(r)
      PROVE  HeldTyped'
  BY <1>14 DEF AllowanceFails
<1>15. ASSUME NEW r \in Requests, DropProvider(r)
      PROVE  HeldTyped'
  BY <1>15 DEF DropProvider
<1>16. ASSUME NEW r \in Requests, DropProviderFails(r)
      PROVE  HeldTyped'
  BY <1>16 DEF DropProviderFails
<1>17. ASSUME NEW r \in Requests, ReleaseLocalPdf(r)
      PROVE  HeldTyped'
  BY <1>17 DEF ReleaseLocalPdf
<1>18. ASSUME NEW r \in Requests, NEW ok \in BOOLEAN, ReleaseSlot(r, ok)
      PROVE  HeldTyped'
  BY <1>18 DEF ReleaseSlot
<1>19. ASSUME NEW r \in Requests, Released(r)
      PROVE  HeldTyped'
  BY <1>19 DEF Released
<1>20. ASSUME NEW r \in Requests, EmergencyRefused(r)
      PROVE  HeldTyped'
  BY <1>20 DEF EmergencyRefused
<1>21. ASSUME NEW r \in Requests, EmergencyClock(r)
      PROVE  HeldTyped'
  BY <1>21 DEF EmergencyClock
<1>22. ASSUME NEW r \in Requests, EmergencyTake(r)
      PROVE  HeldTyped'
  BY <1>22 DEF EmergencyTake
<1>23. ASSUME NEW r \in Requests, Dispatch(r)
      PROVE  HeldTyped'
  BY <1>23 DEF Dispatch
<1>24. ASSUME NEW r \in Requests, Finish(r)
      PROVE  HeldTyped'
  BY <1>24 DEF Finish
<1>25. ASSUME NEW x \in Resources, NEW r \in Requests, Expire(x, r)
      PROVE  HeldTyped'
  BY <1>25 DEF Expire
<1>26. ASSUME Tick
      PROVE  HeldTyped'
  BY <1>26 DEF Tick
<1>27. ASSUME NEW p \in Processes, Crash(p)
      PROVE  HeldTyped'
  BY <1>27 DEF Crash
<1>28. CASE UNCHANGED vars
  BY <1>28 DEF vars
<1> QED
  BY <1>1, <1>2, <1>3, <1>4, <1>5, <1>6, <1>7, <1>8, <1>9, <1>10, <1>11, <1>12, <1>13,
     <1>14, <1>15, <1>16, <1>17, <1>18, <1>19, <1>20, <1>21, <1>22, <1>23, <1>24, <1>25,
     <1>26, <1>27, <1>28
     DEF Next

-----------------------------------------------------------------------------
(* What the lease of a request holds.                                       *)

Reservations == Resources \cup {"local_pdf"}
LeaseTyped == lease \in [Requests -> Seq(Reservations)]

LEMMA FrontAndLast ==
    ASSUME NEW X, NEW s \in Seq(X), s # <<>>
    PROVE  /\ Front(s) \in Seq(X) /\ Len(Front(s)) = Len(s) - 1 /\ Len(s) \in Nat \ {0}
           /\ \A i \in DOMAIN Front(s) : i \in DOMAIN s /\ Front(s)[i] = s[i]
           /\ \A i \in DOMAIN s : i \in DOMAIN Front(s) \/ i = Len(s)
           /\ Last(s) = s[Len(s)]
<1>1. Len(s) \in Nat \ {0} /\ DOMAIN s = 1 .. Len(s)
  OBVIOUS
<1>2. Front(s) \in Seq(X) /\ Len(Front(s)) = Len(s) - 1
  BY <1>1 DEF Front
<1>3. DOMAIN Front(s) = 1 .. (Len(s) - 1)
  BY <1>2, <1>1
<1>4. \A i \in 1 .. (Len(s) - 1) : Front(s)[i] = s[i]
  BY <1>1 DEF Front
<1> QED
  BY <1>1, <1>2, <1>3, <1>4 DEF Last

\* The lease of a request that joins reservations to it.
LEMMA Joined ==
    ASSUME NEW s \in Seq(Reservations), NEW xs \in Seq(Reservations)
    PROVE  /\ s \o xs \in Seq(Reservations) /\ Len(s \o xs) = Len(s) + Len(xs)
           /\ \A i \in DOMAIN s : i \in DOMAIN (s \o xs) /\ (s \o xs)[i] = s[i]
           /\ \A i \in DOMAIN (s \o xs) :
                 IF i \in DOMAIN s THEN (s \o xs)[i] = s[i] ELSE (s \o xs)[i] = xs[i - Len(s)]
OBVIOUS

Empty == {"idle", "global", "rate", "local_pdf", "emergency", "take", "done"}
Past == {"pdf", "ai", "provider", "allowance", "snapshot", "exhausted", "drop_provider",
         "serving", "calling"}

\* What the lease has at each stage: nothing before the first reservation and after the
\* last release, and process-local capacity first, for a PDF as long as it is served.
LeaseShape ==
    \A r \in Requests :
        /\ stage[r] \in Empty => lease[r] = <<>>
        /\ \A i \in DOMAIN lease[r] : lease[r][i] = "local_pdf" => i = 1
        /\ stage[r] \in Past /\ req[r].source = "pdf" => lease[r] # <<>> /\ lease[r][1] = "local_pdf"
        /\ stage[r] = "take" => req[r].source # "pdf"

LeaseInv == LeaseTyped /\ LeaseShape

LEMMA LeaseGrows ==
    ASSUME ReqTyped, LeaseInv, NEW r \in Requests, NEW xs \in Seq(Reservations), Add(r, xs),
           xs[1] = "local_pdf" => lease[r] = <<>>,
           \A i \in DOMAIN xs : i # 1 => xs[i] # "local_pdf",
           xs # <<>>, UNCHANGED req, NEW s \in Stages \ Empty, Goto(r, s),
           s \in Past /\ req[r].source = "pdf" => stage[r] \in Past \/ (lease[r] = <<>> /\ xs[1] = "local_pdf")
    PROVE  LeaseInv'
<1>1. lease[r] \in Seq(Reservations)
  BY DEF LeaseInv, LeaseTyped
<1>2. lease'[r] = lease[r] \o xs /\ lease' \in [Requests -> Seq(Reservations)]
  BY <1>1, Joined DEF LeaseInv, LeaseTyped, Add
<1>3. \A q \in Requests \ {r} : lease'[q] = lease[q] /\ stage'[q] = stage[q]
  BY DEF Add, Goto, LeaseInv, LeaseTyped
<1>4. stage'[r] = s
  BY DEF Goto, ReqTyped
<1>5. \A i \in DOMAIN lease'[r] : lease'[r][i] = "local_pdf" => i = 1
  <2>1. ASSUME NEW i \in DOMAIN lease'[r], lease'[r][i] = "local_pdf", i \notin DOMAIN lease[r]
        PROVE  i = 1
    <3>1. lease'[r][i] = xs[i - Len(lease[r])]
      BY <1>1, <1>2, <2>1, Joined
    <3>2. i - Len(lease[r]) \in DOMAIN xs
      BY <1>1, <1>2, <2>1, Joined
    <3>3. i - Len(lease[r]) = 1
      BY <2>1, <3>1, <3>2
    <3>4. lease[r] = <<>>
      BY <2>1, <3>1, <3>3
    <3> QED
      BY <3>3, <3>4
  <2>2. \A i \in DOMAIN lease[r] : lease'[r][i] = lease[r][i]
    BY <1>1, <1>2, Joined
  <2> QED
    BY <2>1, <2>2 DEF LeaseInv, LeaseShape
<1>6. stage'[r] \in Past /\ req[r].source = "pdf" => lease'[r] # <<>> /\ lease'[r][1] = "local_pdf"
  BY <1>1, <1>2, <1>4, Joined DEF LeaseInv, LeaseShape
<1> QED
  BY <1>2, <1>3, <1>4, <1>5, <1>6 DEF LeaseInv, LeaseTyped, LeaseShape, Empty

LEMMA LeaseShrinks ==
    ASSUME ReqTyped, LeaseInv, NEW r \in Requests, stage[r] \in {"unwind", "teardown"}, lease[r] # <<>>,
           lease' = [lease EXCEPT ![r] = Front(@)], UNCHANGED <<req, stage>>
    PROVE  LeaseInv'
<1>1. lease[r] \in Seq(Reservations)
  BY DEF LeaseInv, LeaseTyped
<1>2. lease'[r] = Front(lease[r]) /\ lease' \in [Requests -> Seq(Reservations)]
  BY <1>1, FrontAndLast DEF LeaseInv, LeaseTyped
<1>3. \A q \in Requests \ {r} : lease'[q] = lease[q]
  BY DEF LeaseInv, LeaseTyped
<1>5. \A i \in DOMAIN lease'[r] : lease'[r][i] = "local_pdf" => i = 1
  BY <1>1, <1>2, FrontAndLast DEF LeaseInv, LeaseShape
<1> QED
  BY <1>2, <1>3, <1>5 DEF LeaseInv, LeaseTyped, LeaseShape, Empty, Past

LEMMA LeaseInvStep == ReqTyped /\ LeaseInv /\ [Next]_vars => LeaseInv'
<1> SUFFICES ASSUME ReqTyped /\ LeaseInv, [Next]_vars
             PROVE  LeaseInv'
  OBVIOUS
<1> USE DEF Goto, Decide, Raise, clockVars, otherVars
<1>1. ASSUME NEW r \in Requests, Begin(r)
      PROVE  LeaseInv'
  BY <1>1 DEF Begin, LeaseInv, LeaseTyped, LeaseShape, ReqTyped, Empty, Past
<1>2. ASSUME NEW r \in Requests, Tokens(r)
      PROVE  LeaseInv'
  BY <1>2 DEF Tokens, LeaseInv, LeaseTyped, LeaseShape, ReqTyped, Empty, Past
<1>3. ASSUME NEW r \in Requests, TokensFail(r)
      PROVE  LeaseInv'
  BY <1>3 DEF TokensFail, LeaseInv, LeaseTyped, LeaseShape, ReqTyped, Empty, Past
<1>4. ASSUME NEW r \in Requests, ReserveLocalPdf(r)
      PROVE  LeaseInv'
  <2> DEFINE xs == <<"local_pdf">>
  <2>1. /\ xs \in Seq(Reservations) /\ xs # <<>> /\ xs[1] = "local_pdf" /\ DOMAIN xs = {1}
        /\ "pdf" \in Stages \ Empty
    BY DEF Reservations, Stages, Empty
  <2>2. lease[r] = <<>> /\ Add(r, xs) /\ Goto(r, "pdf") /\ UNCHANGED req
    BY <1>4 DEF ReserveLocalPdf, LeaseInv, LeaseShape, Empty
  <2> HIDE DEF xs
  <2> QED
    BY <2>1, <2>2, LeaseGrows
<1>5. ASSUME NEW r \in Requests, NoLocalPdf(r)
      PROVE  LeaseInv'
  BY <1>5 DEF NoLocalPdf, LeaseInv, LeaseTyped, LeaseShape, ReqTyped, Empty, Past
<1>6. ASSUME NEW r \in Requests, NoPdf(r)
      PROVE  LeaseInv'
  BY <1>6 DEF NoPdf, LeaseInv, LeaseTyped, LeaseShape, ReqTyped, Empty, Past
<1>7. ASSUME NEW r \in Requests, ChooseAi(r)
      PROVE  LeaseInv'
  BY <1>7 DEF ChooseAi, LeaseInv, LeaseTyped, LeaseShape, ReqTyped, Empty, Past
<1>8. ASSUME NEW r \in Requests, NoProvider(r)
      PROVE  LeaseInv'
  BY <1>8 DEF NoProvider, LeaseInv, LeaseTyped, LeaseShape, ReqTyped, Empty, Past
<1>9. ASSUME NEW r \in Requests, NEW reply \in BOOLEAN, ReservePdf(r, reply)
      PROVE  LeaseInv'
  <2> DEFINE xs == <<"pdf">>
  <2>1. /\ xs \in Seq(Reservations) /\ xs # <<>> /\ xs[1] # "local_pdf" /\ DOMAIN xs = {1}
        /\ "ai" \in Stages \ Empty
    BY DEF Reservations, Resources, Stages, Empty
  <2>2. CASE reply
    <3>1. stage[r] \in Past /\ Add(r, xs) /\ Goto(r, "ai") /\ UNCHANGED req
      BY <1>9, <2>2 DEF ReservePdf, Past
    <3> HIDE DEF xs
    <3> QED
      BY <3>1, <2>1, LeaseGrows
  <2>3. CASE ~reply
    BY <1>9, <2>3 DEF ReservePdf, LeaseInv, LeaseTyped, LeaseShape
  <2> QED
    BY <2>2, <2>3
<1>10. ASSUME NEW r \in Requests, NEW reply \in BOOLEAN, ReserveProvider(r, reply)
      PROVE  LeaseInv'
  BY <1>10 DEF ReserveProvider, LeaseInv, LeaseTyped, LeaseShape, ReqTyped, Empty, Past
<1>11. ASSUME NEW r \in Requests, ReserveAllowance(r)
      PROVE  LeaseInv'
  BY <1>11 DEF ReserveAllowance, LeaseInv, LeaseTyped, LeaseShape, ReqTyped, Empty, Past
<1>12. ASSUME NEW r \in Requests, Snapshot(r)
      PROVE  LeaseInv'
  <2> DEFINE xs == <<"provider", "allowance">>
  <2>1. /\ xs \in Seq(Reservations) /\ xs # <<>> /\ DOMAIN xs = {1, 2}
        /\ xs[1] = "provider" /\ xs[2] = "allowance" /\ "serving" \in Stages \ Empty
    BY DEF Reservations, Resources, Stages, Empty
  <2>2. CASE Add(r, xs) /\ Goto(r, "serving")
    <3>1. stage[r] \in Past /\ UNCHANGED req
      BY <1>12 DEF Snapshot, Past
    <3>2. \A i \in DOMAIN xs : xs[i] # "local_pdf"
      BY <2>1
    <3> HIDE DEF xs
    <3> QED
      BY <2>1, <2>2, <3>1, <3>2, LeaseGrows
  <2>3. CASE Goto(r, "exhausted") /\ UNCHANGED lease
    BY <1>12, <2>3
       DEF Snapshot, LeaseInv, LeaseTyped, LeaseShape, Empty, Past, Goto, ReqTyped
  <2> QED
    BY <1>12, <2>2, <2>3 DEF Snapshot, Decide
<1>13. ASSUME NEW r \in Requests, DropAllowance(r)
      PROVE  LeaseInv'
  BY <1>13 DEF DropAllowance, LeaseInv, LeaseTyped, LeaseShape, ReqTyped, Empty, Past
<1>14. ASSUME NEW r \in Requests, AllowanceFails(r)
      PROVE  LeaseInv'
  BY <1>14 DEF AllowanceFails, LeaseInv, LeaseTyped, LeaseShape, ReqTyped, Empty, Past
<1>15. ASSUME NEW r \in Requests, DropProvider(r)
      PROVE  LeaseInv'
  BY <1>15 DEF DropProvider, LeaseInv, LeaseTyped, LeaseShape, ReqTyped, Empty, Past
<1>16. ASSUME NEW r \in Requests, DropProviderFails(r)
      PROVE  LeaseInv'
  BY <1>16 DEF DropProviderFails, LeaseInv, LeaseTyped, LeaseShape, ReqTyped, Empty, Past
<1>17. ASSUME NEW r \in Requests, ReleaseLocalPdf(r)
      PROVE  LeaseInv'
  BY <1>17, LeaseShrinks DEF ReleaseLocalPdf
<1>18. ASSUME NEW r \in Requests, NEW ok \in BOOLEAN, ReleaseSlot(r, ok)
      PROVE  LeaseInv'
  BY <1>18, LeaseShrinks DEF ReleaseSlot
<1>19. ASSUME NEW r \in Requests, Released(r)
      PROVE  LeaseInv'
  BY <1>19 DEF Released, LeaseInv, LeaseTyped, LeaseShape, ReqTyped, Empty, Past
<1>20. ASSUME NEW r \in Requests, EmergencyRefused(r)
      PROVE  LeaseInv'
  BY <1>20 DEF EmergencyRefused, LeaseInv, LeaseTyped, LeaseShape, ReqTyped, Empty, Past
<1>21. ASSUME NEW r \in Requests, EmergencyClock(r)
      PROVE  LeaseInv'
  BY <1>21 DEF EmergencyClock, LeaseInv, LeaseTyped, LeaseShape, ReqTyped, Empty, Past
<1>22. ASSUME NEW r \in Requests, EmergencyTake(r)
      PROVE  LeaseInv'
  BY <1>22 DEF EmergencyTake, LeaseInv, LeaseTyped, LeaseShape, ReqTyped, Empty, Past
<1>23. ASSUME NEW r \in Requests, Dispatch(r)
      PROVE  LeaseInv'
  BY <1>23 DEF Dispatch, LeaseInv, LeaseTyped, LeaseShape, ReqTyped, Empty, Past
<1>24. ASSUME NEW r \in Requests, Finish(r)
      PROVE  LeaseInv'
  BY <1>24 DEF Finish, LeaseInv, LeaseTyped, LeaseShape, ReqTyped, Empty, Past
<1>25. ASSUME NEW x \in Resources, NEW r \in Requests, Expire(x, r)
      PROVE  LeaseInv'
  BY <1>25 DEF Expire, LeaseInv, LeaseTyped, LeaseShape, ReqTyped, Empty, Past
<1>26. ASSUME Tick
      PROVE  LeaseInv'
  BY <1>26 DEF Tick, LeaseInv, LeaseTyped, LeaseShape, ReqTyped, Empty, Past
<1>27. ASSUME NEW p \in Processes, Crash(p)
      PROVE  LeaseInv'
  BY <1>27 DEF Crash, LeaseInv, LeaseTyped, LeaseShape, ReqTyped, Empty, Past, Alive
<1>28. CASE UNCHANGED vars
  BY <1>28 DEF vars, LeaseInv, LeaseTyped, LeaseShape
<1> QED
  BY <1>1, <1>2, <1>3, <1>4, <1>5, <1>6, <1>7, <1>8, <1>9, <1>10, <1>11, <1>12, <1>13,
     <1>14, <1>15, <1>16, <1>17, <1>18, <1>19, <1>20, <1>21, <1>22, <1>23, <1>24, <1>25,
     <1>26, <1>27, <1>28
     DEF Next

-----------------------------------------------------------------------------
(* The capacity of a process: the two counters are what the leases of its   *)
(* requests hold, so a lease that is released gives back what it took.      *)

HasLocal(r) == lease[r] # <<>> /\ lease[r][1] = "local_pdf"

CountInv ==
    /\ local \in [Processes -> [count : Int, bytes : Int]]
    /\ \A p \in Processes :
          /\ local[p].count = Cardinality(Holding(p)) /\ local[p].count <= ProcessPdfs
          /\ local[p].bytes = Sizes(req, Holding(p)) /\ local[p].bytes <= ProcessBytes

\* A request whose lease holds capacity is alive: neither before its admission
\* nor after its release is there anything in its lease.
HoldersKnown ==
    \A p \in Processes : Holding(p) = {r \in Requests : req[r].process = p /\ HasLocal(r)}

LEMMA HoldersHaveLocal == LeaseInv => HoldersKnown
<1> SUFFICES ASSUME LeaseInv PROVE HoldersKnown
  OBVIOUS
<1>1. ASSUME NEW r \in Requests PROVE Contains(lease[r], "local_pdf") <=> HasLocal(r)
  <2>1. lease[r] \in Seq(Reservations)
    BY DEF LeaseInv, LeaseTyped
  <2> QED
    BY <2>1 DEF LeaseInv, LeaseShape, HasLocal, Contains
<1>2. ASSUME NEW r \in Requests, HasLocal(r) PROVE stage[r] \notin {"idle", "done"}
  BY <1>2 DEF LeaseInv, LeaseShape, Empty, HasLocal
<1> QED
  BY <1>1, <1>2 DEF HoldersKnown, Holding, Alive

LEMMA HoldersFinite ==
    ASSUME ReqTyped, LeaseInv, NEW p \in Processes
    PROVE  /\ IsFiniteSet(Holding(p)) /\ Holding(p) \subseteq Requests
           /\ \A r \in Holding(p) : req[r].size \in Nat
<1>1. Holding(p) \subseteq Requests
  BY DEF Holding, Alive
<1>2. \A r \in Holding(p) : stage[r] # "idle"
  BY DEF Holding, Alive
<1> QED
  BY <1>1, <1>2, FS_Subset, ReqFields, ParametersAssumption

LEMMA CountsKept ==
    ASSUME LeaseInv, LeaseInv', CountInv, UNCHANGED <<req, local>>,
           \A r \in Requests : HasLocal(r)' <=> HasLocal(r)
    PROVE  CountInv'
<1>0. HoldersKnown /\ HoldersKnown'
  BY HoldersHaveLocal, PTL
<1>1. ASSUME NEW p \in Processes PROVE Holding(p)' = Holding(p)
  BY <1>0 DEF HoldersKnown
<1>2. ASSUME NEW p \in Processes
      PROVE  /\ Cardinality(Holding(p))' = Cardinality(Holding(p))
             /\ Sizes(req, Holding(p))' = Sizes(req, Holding(p))
  BY <1>1, Zenon
<1> QED
  BY <1>2 DEF CountInv

\* The other reservations come and go without it.
LEMMA LocalUntouched ==
    ASSUME LeaseInv, NEW r \in Requests,
           \/ \E xs \in Seq(Reservations) : xs # <<>> /\ xs[1] # "local_pdf" /\ Add(r, xs)
           \/ /\ lease[r] # <<>> /\ Last(lease[r]) \in Resources
              /\ lease' = [lease EXCEPT ![r] = Front(@)]
    PROVE  \A q \in Requests : HasLocal(q)' <=> HasLocal(q)
<1>1. lease[r] \in Seq(Reservations)
  BY DEF LeaseInv, LeaseTyped
<1>2. ASSUME NEW xs \in Seq(Reservations), xs # <<>>, xs[1] # "local_pdf", Add(r, xs)
      PROVE  \A q \in Requests : HasLocal(q)' <=> HasLocal(q)
  <2>1. \A q \in Requests : lease'[q] = IF q = r THEN lease[r] \o xs ELSE lease[q]
    BY <1>2 DEF Add, LeaseInv, LeaseTyped
  <2>2. /\ lease[r] \o xs # <<>>
        /\ (lease[r] \o xs)[1] = IF lease[r] = <<>> THEN xs[1] ELSE lease[r][1]
    BY <1>1, <1>2
  <2> QED
    BY <1>2, <2>1, <2>2 DEF HasLocal
<1>3. ASSUME lease[r] # <<>>, Last(lease[r]) \in Resources, lease' = [lease EXCEPT ![r] = Front(@)]
      PROVE  \A q \in Requests : HasLocal(q)' <=> HasLocal(q)
  <2>1. \A q \in Requests : lease'[q] = IF q = r THEN Front(lease[r]) ELSE lease[q]
    BY <1>3 DEF LeaseInv, LeaseTyped
  <2>2. CASE Len(lease[r]) = 1
    <3>1. lease[r][1] # "local_pdf" /\ Front(lease[r]) = <<>>
      BY <1>1, <1>3, <2>2, FrontAndLast DEF Resources
    <3> QED
      BY <2>1, <3>1 DEF HasLocal
  <2>3. CASE Len(lease[r]) # 1
    <3>1. Front(lease[r]) # <<>> /\ Front(lease[r])[1] = lease[r][1]
      <4>1. 1 \in DOMAIN lease[r] /\ 1 # Len(lease[r])
        BY <1>1, <1>3, <2>3
      <4>2. 1 \in DOMAIN Front(lease[r])
        BY <1>1, <1>3, <4>1, FrontAndLast
      <4> QED
        BY <1>1, <1>3, <4>2, FrontAndLast
    <3> QED
      BY <1>3, <2>1, <3>1 DEF HasLocal
  <2> QED
    BY <2>2, <2>3
<1> QED
  BY <1>2, <1>3

LEMMA CountsGrow ==
    ASSUME ReqTyped, LeaseInv, LeaseInv', CountInv, NEW r \in Requests, ReserveLocalPdf(r)
    PROVE  CountInv'
<1> DEFINE p == req[r].process
<1>1. stage[r] # "idle" /\ req' = req /\ p \in Processes /\ req[r].size \in Nat
  BY ReqFields DEF ReserveLocalPdf
<1>0. HoldersKnown /\ HoldersKnown'
  BY HoldersHaveLocal, PTL
<1>2. ~HasLocal(r)
  BY DEF ReserveLocalPdf, HasLocal, LeaseInv, LeaseShape, Empty
<1>3. HasLocal(r)'
  <2>1. lease'[r] = <<"local_pdf">>
    <3>1. lease[r] = <<>> /\ lease'[r] = lease[r] \o <<"local_pdf">>
      BY DEF ReserveLocalPdf, Add, LeaseInv, LeaseTyped, LeaseShape, Empty
    <3> QED
      BY <3>1
  <2> QED
    BY <2>1 DEF HasLocal
<1>4. \A q \in Requests \ {r} : HasLocal(q)' <=> HasLocal(q)
  BY DEF ReserveLocalPdf, Add, HasLocal, LeaseInv, LeaseTyped
<1>5. ASSUME NEW w \in Processes
      PROVE  Holding(w)' = {q \in Requests : req[q].process = w /\ HasLocal(q)'}
  BY <1>0, <1>1 DEF HoldersKnown
<1>6. Holding(p)' = Holding(p) \cup {r} /\ r \notin Holding(p)
  BY <1>1, <1>2, <1>3, <1>4, <1>5, <1>0 DEF HoldersKnown
<1>7. ASSUME NEW w \in Processes \ {p} PROVE Holding(w)' = Holding(w)
  <2>1. /\ Holding(w)' = {q \in Requests : req[q].process = w /\ HasLocal(q)'}
        /\ Holding(w) = {q \in Requests : req[q].process = w /\ HasLocal(q)}
    BY <1>0, <1>5 DEF HoldersKnown
  <2>2. \A q \in Requests : req[q].process = w => (HasLocal(q)' <=> HasLocal(q))
    BY <1>4
  <2> QED
    BY <2>1, <2>2, Zenon
<1>8. Cardinality(Holding(p))' = Cardinality(Holding(p)) + 1
  BY <1>1, <1>6, HoldersFinite, FS_AddElement
<1>9. Sizes(req, Holding(p))' = req[r].size + Sizes(req, Holding(p))
  <2> DEFINE T == Holding(p) \cup {r}
  <2>1. IsFiniteSet(T) /\ (\A q \in T : req[q].size \in Nat) /\ r \in T
    BY <1>1, HoldersFinite, FS_AddElement
  <2>2. T \ {r} = Holding(p)
    BY <1>6
  <2> HIDE DEF T
  <2>3. Sizes(req, T) = req[r].size + Sizes(req, T \ {r})
    BY <2>1, SizesWithout
  <2>4. Sizes(req, Holding(p))' = Sizes(req, T)
    BY <1>1, <1>6, Zenon DEF T
  <2> QED
    BY <2>2, <2>3, <2>4, Zenon
<1>10. \A w \in Processes \ {p} : /\ Cardinality(Holding(w))' = Cardinality(Holding(w))
                                  /\ Sizes(req, Holding(w))' = Sizes(req, Holding(w))
  BY <1>1, <1>7, Zenon
<1>11. /\ local' \in [Processes -> [count : Int, bytes : Int]]
       /\ \A w \in Processes \ {p} : local'[w] = local[w]
       /\ local'[p].count = local[p].count + 1 /\ local'[p].bytes = local[p].bytes + req[r].size
       /\ local[p].count < ProcessPdfs /\ local[p].bytes + req[r].size <= ProcessBytes
  BY <1>1 DEF ReserveLocalPdf, FitsLocally, CountInv
<1> QED
  BY <1>1, <1>8, <1>9, <1>10, <1>11, ParametersAssumption DEF CountInv

LEMMA CountsShrink ==
    ASSUME ReqTyped, LeaseInv, LeaseInv', CountInv, NEW r \in Requests, ReleaseLocalPdf(r)
    PROVE  CountInv'
<1> DEFINE p == req[r].process
<1>0. HoldersKnown /\ HoldersKnown'
  BY HoldersHaveLocal, PTL
<1>1. stage[r] # "idle" /\ req' = req /\ p \in Processes /\ req[r].size \in Nat
  BY ReqFields DEF ReleaseLocalPdf
<1>2. HasLocal(r) /\ lease'[r] = <<>>
  <2>1. lease[r] \in Seq(Reservations) /\ lease[r] # <<>> /\ Last(lease[r]) = "local_pdf"
    BY DEF ReleaseLocalPdf, LeaseInv, LeaseTyped
  <2>2. lease'[r] = Front(lease[r])
    BY DEF ReleaseLocalPdf, LeaseInv, LeaseTyped
  <2>3. Len(lease[r]) = 1
    <3>1. Len(lease[r]) \in DOMAIN lease[r] /\ lease[r][Len(lease[r])] = "local_pdf"
      BY <2>1 DEF Last
    <3> QED
      BY <3>1 DEF LeaseInv, LeaseShape
  <2> QED
    BY <2>1, <2>2, <2>3, FrontAndLast DEF HasLocal
<1>3. ~HasLocal(r)'
  BY <1>2 DEF HasLocal
<1>4. \A q \in Requests \ {r} : HasLocal(q)' <=> HasLocal(q)
  BY DEF ReleaseLocalPdf, HasLocal, LeaseInv, LeaseTyped
<1>5. ASSUME NEW w \in Processes
      PROVE  Holding(w)' = {q \in Requests : req[q].process = w /\ HasLocal(q)'}
  BY <1>0, <1>1 DEF HoldersKnown
<1>6. Holding(p)' = Holding(p) \ {r} /\ r \in Holding(p)
  BY <1>0, <1>1, <1>2, <1>3, <1>4, <1>5 DEF HoldersKnown
<1>7. ASSUME NEW w \in Processes \ {p} PROVE Holding(w)' = Holding(w)
  <2>1. /\ Holding(w)' = {q \in Requests : req[q].process = w /\ HasLocal(q)'}
        /\ Holding(w) = {q \in Requests : req[q].process = w /\ HasLocal(q)}
    BY <1>0, <1>5 DEF HoldersKnown
  <2>2. \A q \in Requests : req[q].process = w => (HasLocal(q)' <=> HasLocal(q))
    BY <1>4
  <2> QED
    BY <2>1, <2>2, Zenon
<1>8. Cardinality(Holding(p))' = Cardinality(Holding(p)) - 1
  <2>1. IsFiniteSet(Holding(p))
    BY <1>1, HoldersFinite
  <2>2. Cardinality(Holding(p) \ {r}) = Cardinality(Holding(p)) - 1
    BY <1>6, <2>1, FS_RemoveElement, Zenon
  <2>3. Cardinality(Holding(p))' = Cardinality(Holding(p) \ {r})
    BY <1>1, <1>6, Zenon
  <2> QED
    BY <2>2, <2>3, Zenon
<1>9. Sizes(req, Holding(p)) = req[r].size + Sizes(req, Holding(p))'
  <2>1. Sizes(req, Holding(p)) = req[r].size + Sizes(req, Holding(p) \ {r})
    BY <1>1, <1>6, HoldersFinite, SizesWithout
  <2>2. Sizes(req, Holding(p))' = Sizes(req, Holding(p) \ {r})
    BY <1>1, <1>6, Zenon
  <2> QED
    BY <2>1, <2>2, Zenon
<1>10. Sizes(req, Holding(p) \ {r}) \in Nat /\ Sizes(req, Holding(p))' = Sizes(req, Holding(p) \ {r})
  <2>1. IsFiniteSet(Holding(p) \ {r}) /\ \A q \in Holding(p) \ {r} : req[q].size \in Nat
    BY <1>1, HoldersFinite, FS_RemoveElement
  <2> QED
    BY <1>1, <1>6, <2>1, SizesNat, Zenon
<1>11. \A w \in Processes \ {p} : /\ Cardinality(Holding(w))' = Cardinality(Holding(w))
                                  /\ Sizes(req, Holding(w))' = Sizes(req, Holding(w))
  BY <1>1, <1>7, Zenon
<1>12. /\ local' \in [Processes -> [count : Int, bytes : Int]]
       /\ \A w \in Processes \ {p} : local'[w] = local[w]
       /\ local'[p].count = local[p].count - 1 /\ local'[p].bytes = local[p].bytes - req[r].size
  BY <1>1 DEF ReleaseLocalPdf, CountInv
<1> QED
  BY <1>1, <1>8, <1>9, <1>10, <1>11, <1>12, ParametersAssumption DEF CountInv

LEMMA CountsCrash ==
    ASSUME ReqTyped, LeaseInv, LeaseInv', CountInv, NEW p \in Processes, Crash(p)
    PROVE  CountInv'
<1>h. HoldersKnown /\ HoldersKnown'
  BY HoldersHaveLocal, PTL
<1>0. HoldersKnown /\ HoldersKnown' /\ req' = req
  BY <1>h DEF Crash
<1>1. ASSUME NEW r \in Requests PROVE HasLocal(r)' <=> HasLocal(r) /\ req[r].process # p
  <2>1. HasLocal(r) => stage[r] \notin {"idle", "done"}
    BY DEF HasLocal, LeaseInv, LeaseShape, Empty
  <2>2. lease'[r] = IF r \in Alive(p) THEN <<>> ELSE lease[r]
    BY DEF Crash
  <2> QED
    BY <2>1, <2>2 DEF HasLocal, Alive
<1>2. Holding(p)' = {}
  BY <1>0, <1>1 DEF HoldersKnown
<1>3. ASSUME NEW w \in Processes \ {p} PROVE Holding(w)' = Holding(w)
  <2>1. \A r \in Requests : req[r].process = w => req[r].process # p
    OBVIOUS
  <2> QED
    BY <1>0, <1>1, <2>1 DEF HoldersKnown
<1>4. Cardinality(Holding(p))' = 0 /\ Sizes(req, Holding(p))' = 0
  <2>1. Sizes(req, {}) = 0 /\ Cardinality({}) = 0
    BY FS_EmptySet, SizesStep
  <2> QED
    BY <1>0, <1>2, <2>1, Zenon
<1>5. \A w \in Processes \ {p} : /\ Cardinality(Holding(w))' = Cardinality(Holding(w))
                                 /\ Sizes(req, Holding(w))' = Sizes(req, Holding(w))
  BY <1>0, <1>3, Zenon
<1>6. /\ local' \in [Processes -> [count : Int, bytes : Int]]
      /\ \A w \in Processes \ {p} : local'[w] = local[w]
      /\ local'[p].count = 0 /\ local'[p].bytes = 0
  BY DEF Crash, CountInv
<1> QED
  BY <1>4, <1>5, <1>6, ParametersAssumption DEF CountInv

LEMMA CountInvStep == ReqTyped /\ LeaseInv /\ LeaseInv' /\ CountInv /\ [Next]_vars => CountInv'
<1> SUFFICES ASSUME ReqTyped /\ LeaseInv /\ LeaseInv' /\ CountInv, [Next]_vars
             PROVE  CountInv'
  OBVIOUS
<1> USE DEF HasLocal, clockVars, otherVars
<1>1. ASSUME NEW r \in Requests, Begin(r)
      PROVE  CountInv'
  BY <1>1, CountsKept DEF Begin
<1>2. ASSUME NEW r \in Requests, Tokens(r)
      PROVE  CountInv'
  BY <1>2, CountsKept DEF Tokens
<1>3. ASSUME NEW r \in Requests, TokensFail(r)
      PROVE  CountInv'
  BY <1>3, CountsKept DEF TokensFail
<1>4. ASSUME NEW r \in Requests, ReserveLocalPdf(r)
      PROVE  CountInv'
  BY <1>4, CountsGrow
<1>5. ASSUME NEW r \in Requests, NoLocalPdf(r)
      PROVE  CountInv'
  BY <1>5, CountsKept DEF NoLocalPdf
<1>6. ASSUME NEW r \in Requests, NoPdf(r)
      PROVE  CountInv'
  BY <1>6, CountsKept DEF NoPdf
<1>7. ASSUME NEW r \in Requests, ChooseAi(r)
      PROVE  CountInv'
  BY <1>7, CountsKept DEF ChooseAi
<1>8. ASSUME NEW r \in Requests, NoProvider(r)
      PROVE  CountInv'
  BY <1>8, CountsKept DEF NoProvider
<1>9. ASSUME NEW r \in Requests, NEW reply \in BOOLEAN, ReservePdf(r, reply)
      PROVE  CountInv'
  <2>1. /\ <<"pdf">> \in Seq(Reservations) /\ <<"pdf">> # <<>> /\ <<"pdf">>[1] # "local_pdf"
        /\ UNCHANGED <<req, local>> /\ (Add(r, <<"pdf">>) \/ UNCHANGED lease)
    BY <1>9 DEF ReservePdf, Reservations, Resources
  <2>2. \A q \in Requests : HasLocal(q)' <=> HasLocal(q)
    <3>1. CASE Add(r, <<"pdf">>)
      BY <2>1, <3>1, LocalUntouched
    <3>2. CASE UNCHANGED lease
      BY <3>2 DEF HasLocal
    <3> QED
      BY <2>1, <3>1, <3>2
  <2> QED
    BY <2>1, <2>2, CountsKept
<1>10. ASSUME NEW r \in Requests, NEW reply \in BOOLEAN, ReserveProvider(r, reply)
      PROVE  CountInv'
  BY <1>10, CountsKept DEF ReserveProvider
<1>11. ASSUME NEW r \in Requests, ReserveAllowance(r)
      PROVE  CountInv'
  BY <1>11, CountsKept DEF ReserveAllowance
<1>12. ASSUME NEW r \in Requests, Snapshot(r)
      PROVE  CountInv'
  <2> DEFINE xs == <<"provider", "allowance">>
  <2>1. /\ xs \in Seq(Reservations) /\ xs # <<>> /\ xs[1] # "local_pdf"
        /\ UNCHANGED <<req, local>> /\ (Add(r, xs) \/ UNCHANGED lease)
    BY <1>12 DEF Snapshot, Reservations, Resources
  <2>2. \A q \in Requests : HasLocal(q)' <=> HasLocal(q)
    <3> HIDE DEF xs
    <3>1. CASE Add(r, xs)
      BY <2>1, <3>1, LocalUntouched
    <3>2. CASE UNCHANGED lease
      BY <3>2 DEF HasLocal
    <3> QED
      BY <2>1, <3>1, <3>2
  <2> QED
    BY <2>1, <2>2, CountsKept
<1>13. ASSUME NEW r \in Requests, DropAllowance(r)
      PROVE  CountInv'
  BY <1>13, CountsKept DEF DropAllowance
<1>14. ASSUME NEW r \in Requests, AllowanceFails(r)
      PROVE  CountInv'
  BY <1>14, CountsKept DEF AllowanceFails
<1>15. ASSUME NEW r \in Requests, DropProvider(r)
      PROVE  CountInv'
  BY <1>15, CountsKept DEF DropProvider
<1>16. ASSUME NEW r \in Requests, DropProviderFails(r)
      PROVE  CountInv'
  BY <1>16, CountsKept DEF DropProviderFails
<1>17. ASSUME NEW r \in Requests, ReleaseLocalPdf(r)
      PROVE  CountInv'
  BY <1>17, CountsShrink
<1>18. ASSUME NEW r \in Requests, NEW ok \in BOOLEAN, ReleaseSlot(r, ok)
      PROVE  CountInv'
  BY <1>18, LocalUntouched, CountsKept DEF ReleaseSlot
<1>19. ASSUME NEW r \in Requests, Released(r)
      PROVE  CountInv'
  BY <1>19, CountsKept DEF Released
<1>20. ASSUME NEW r \in Requests, EmergencyRefused(r)
      PROVE  CountInv'
  BY <1>20, CountsKept DEF EmergencyRefused
<1>21. ASSUME NEW r \in Requests, EmergencyClock(r)
      PROVE  CountInv'
  BY <1>21, CountsKept DEF EmergencyClock
<1>22. ASSUME NEW r \in Requests, EmergencyTake(r)
      PROVE  CountInv'
  BY <1>22, CountsKept DEF EmergencyTake
<1>23. ASSUME NEW r \in Requests, Dispatch(r)
      PROVE  CountInv'
  BY <1>23, CountsKept DEF Dispatch
<1>24. ASSUME NEW r \in Requests, Finish(r)
      PROVE  CountInv'
  BY <1>24, CountsKept DEF Finish
<1>25. ASSUME NEW x \in Resources, NEW r \in Requests, Expire(x, r)
      PROVE  CountInv'
  BY <1>25, CountsKept DEF Expire
<1>26. ASSUME Tick
      PROVE  CountInv'
  BY <1>26, CountsKept DEF Tick
<1>27. ASSUME NEW p \in Processes, Crash(p)
      PROVE  CountInv'
  BY <1>27, CountsCrash
<1>28. CASE UNCHANGED vars
  BY <1>28, CountsKept DEF vars, HasLocal
<1> QED
  BY <1>1, <1>2, <1>3, <1>4, <1>5, <1>6, <1>7, <1>8, <1>9, <1>10, <1>11, <1>12, <1>13,
     <1>14, <1>15, <1>16, <1>17, <1>18, <1>19, <1>20, <1>21, <1>22, <1>23, <1>24, <1>25,
     <1>26, <1>27, <1>28
     DEF Next

-----------------------------------------------------------------------------
(* The slots of the provider.  A request has its slot, or the slot ran out  *)
(* under it, from the moment it was reserved until the request is done with *)
(* the provider.                                                            *)

Asking == {"allowance", "snapshot", "exhausted", "drop_provider"}
Granted == {"serving", "calling", "teardown", "done"}

SlotsKept ==
    /\ \A r \in Requests :
          /\ status[r] = "admitted" => stage[r] \in Granted
          /\ stage[r] = "calling" => status[r] = "admitted"
          /\ stage[r] \in Asking \/ (stage[r] \in {"serving", "calling"} /\ status[r] = "admitted")
                => r \in held["provider"] \/ r \in outlived
    /\ Cardinality(held["provider"]) <= ProviderLimit

Known == ReqTyped /\ StatusTyped /\ HeldTyped

LEMMA OneMore ==
    ASSUME NEW S, NEW x, IsFiniteSet(S)
    PROVE  /\ {Cardinality(S), Cardinality(S \cup {x})} \subseteq Nat
           /\ Cardinality(S \cup {x}) <= Cardinality(S) + 1
<1>1. Cardinality(S) \in Nat
  BY FS_CardinalityType, Zenon
<1>2. Cardinality(S \cup {x}) \in {Cardinality(S), Cardinality(S) + 1}
  BY FS_AddElement, Zenon
<1> QED
  BY <1>1, <1>2

LEMMA RoomKept ==
    ASSUME HeldTyped, NEW T, T \subseteq held["provider"], Cardinality(held["provider"]) <= ProviderLimit
    PROVE  Cardinality(T) <= ProviderLimit
<1>1. IsFiniteSet(held["provider"])
  BY FS_Subset, ParametersAssumption DEF HeldTyped, Resources
<1> QED
  BY <1>1, FS_Subset, FS_CardinalityType, ParametersAssumption

LEMMA SlotsKeptStep == Known /\ SlotsKept /\ [Next]_vars => SlotsKept'
<1> SUFFICES ASSUME Known /\ SlotsKept, [Next]_vars
             PROVE  SlotsKept'
  OBVIOUS
<1> USE DEF Goto, Decide, Raise, Hold, Drop, Trouble, FailedDrop, clockVars, otherVars
<1>1. ASSUME NEW r \in Requests, Begin(r)
      PROVE  SlotsKept'
  BY <1>1
     DEF Begin, SlotsKept, Known, ReqTyped, StatusTyped, HeldTyped, Asking, Granted,
         Resources
<1>2. ASSUME NEW r \in Requests, Tokens(r)
      PROVE  SlotsKept'
  <2>1. PICK s \in {"rate", "done", "local_pdf", "ai"},
             why \in {Nothing, "capacity_limited", "rate_limited", "temporarily_unavailable"} :
               Decide(r, s, why)
    BY <1>2 DEF Tokens
  <2>3. why # "admitted"
    BY NothingAssumption DEF AiStatus
  <2>2. stage[r] \in {"global", "rate"} /\ UNCHANGED <<held, outlived>>
    BY <1>2 DEF Tokens
  <2> QED
    BY <2>1, <2>2, <2>3
       DEF SlotsKept, Known, ReqTyped, StatusTyped, HeldTyped, Asking, Granted, Resources

<1>3. ASSUME NEW r \in Requests, TokensFail(r)
      PROVE  SlotsKept'
  BY <1>3
     DEF TokensFail, SlotsKept, Known, ReqTyped, StatusTyped, HeldTyped, Asking, Granted,
         Resources
<1>4. ASSUME NEW r \in Requests, ReserveLocalPdf(r)
      PROVE  SlotsKept'
  BY <1>4
     DEF ReserveLocalPdf, SlotsKept, Known, ReqTyped, StatusTyped, HeldTyped, Asking,
         Granted, Resources
<1>5. ASSUME NEW r \in Requests, NoLocalPdf(r)
      PROVE  SlotsKept'
  BY <1>5
     DEF NoLocalPdf, SlotsKept, Known, ReqTyped, StatusTyped, HeldTyped, Asking, Granted,
         Resources
<1>6. ASSUME NEW r \in Requests, NoPdf(r)
      PROVE  SlotsKept'
  BY <1>6
     DEF NoPdf, SlotsKept, Known, ReqTyped, StatusTyped, HeldTyped, Asking, Granted,
         Resources
<1>7. ASSUME NEW r \in Requests, ChooseAi(r)
      PROVE  SlotsKept'
  BY <1>7
     DEF ChooseAi, SlotsKept, Known, ReqTyped, StatusTyped, HeldTyped, Asking, Granted,
         Resources
<1>8. ASSUME NEW r \in Requests, NoProvider(r)
      PROVE  SlotsKept'
  BY <1>8
     DEF NoProvider, SlotsKept, Known, ReqTyped, StatusTyped, HeldTyped, Asking, Granted,
         Resources
<1>9. ASSUME NEW r \in Requests, NEW reply \in BOOLEAN, ReservePdf(r, reply)
      PROVE  SlotsKept'
  <2>1. held'["provider"] = held["provider"]
    BY <1>9 DEF ReservePdf, Known, HeldTyped, Resources
  <2>2. Cardinality(held'["provider"]) <= ProviderLimit
    BY <2>1, RoomKept DEF Known, SlotsKept
  <2> QED
    BY <1>9, <2>1, <2>2
       DEF ReservePdf, SlotsKept, Known, ReqTyped, StatusTyped, HeldTyped, Asking,
           Granted, Resources
<1>10. ASSUME NEW r \in Requests, NEW reply \in BOOLEAN, ReserveProvider(r, reply)
      PROVE  SlotsKept'
  <2>1. held'["provider"] = held["provider"] \cup {r} /\ Cardinality(held["provider"]) < ProviderLimit
    BY <1>10 DEF ReserveProvider, HasRoom, Limit, Known, HeldTyped, Resources
  <2>2. IsFiniteSet(held["provider"]) /\ ProviderLimit \in Nat
    BY FS_Subset, ParametersAssumption DEF Known, HeldTyped, Resources
  <2>3. Cardinality(held'["provider"]) <= ProviderLimit
    <3> DEFINE S == held["provider"]
    <3>1. /\ {Cardinality(S), Cardinality(S \cup {r})} \subseteq Nat
          /\ Cardinality(S \cup {r}) <= Cardinality(S) + 1
      <4> HIDE DEF S
      <4> QED
        BY <2>2, OneMore DEF S
    <3>2. Cardinality(held'["provider"]) = Cardinality(S \cup {r})
      BY <2>1, Zenon
    <3>3. Cardinality(S) < ProviderLimit
      BY <2>1
    <3> HIDE DEF S
    <3> QED
      BY <2>2, <3>1, <3>2, <3>3
  <2> QED
    BY <1>10, <2>1, <2>3
       DEF ReserveProvider, SlotsKept, Known, ReqTyped, StatusTyped, HeldTyped, Asking,
           Granted, Resources
<1>11. ASSUME NEW r \in Requests, ReserveAllowance(r)
      PROVE  SlotsKept'
  <2>1. held'["provider"] = held["provider"]
    BY <1>11 DEF ReserveAllowance, Known, HeldTyped, Resources
  <2>2. Cardinality(held'["provider"]) <= ProviderLimit
    BY <2>1, RoomKept DEF Known, SlotsKept
  <2> QED
    BY <1>11, <2>1, <2>2
       DEF ReserveAllowance, SlotsKept, Known, ReqTyped, StatusTyped, HeldTyped, Asking,
           Granted, Resources
<1>12. ASSUME NEW r \in Requests, Snapshot(r)
      PROVE  SlotsKept'
  BY <1>12
     DEF Snapshot, SlotsKept, Known, ReqTyped, StatusTyped, HeldTyped, Asking, Granted,
         Resources
<1>13. ASSUME NEW r \in Requests, DropAllowance(r)
      PROVE  SlotsKept'
  <2>1. held'["provider"] = held["provider"]
    BY <1>13 DEF DropAllowance, Known, HeldTyped, Resources
  <2>2. Cardinality(held'["provider"]) <= ProviderLimit
    BY <2>1, RoomKept DEF Known, SlotsKept
  <2> QED
    BY <1>13, <2>1, <2>2
       DEF DropAllowance, SlotsKept, Known, ReqTyped, StatusTyped, HeldTyped, Asking,
           Granted, Resources
<1>14. ASSUME NEW r \in Requests, AllowanceFails(r)
      PROVE  SlotsKept'
  <2>1. held'["provider"] = held["provider"]
    BY <1>14 DEF AllowanceFails, Known, HeldTyped, Resources
  <2>2. Cardinality(held'["provider"]) <= ProviderLimit
    BY <2>1, RoomKept DEF Known, SlotsKept
  <2> QED
    BY <1>14, <2>1, <2>2
       DEF AllowanceFails, SlotsKept, Known, ReqTyped, StatusTyped, HeldTyped, Asking,
           Granted, Resources
<1>15. ASSUME NEW r \in Requests, DropProvider(r)
      PROVE  SlotsKept'
  <2>1. held'["provider"] \subseteq held["provider"]
    BY <1>15 DEF DropProvider, Known, HeldTyped, Resources
  <2>2. Cardinality(held'["provider"]) <= ProviderLimit
    BY <2>1, RoomKept DEF Known, SlotsKept
  <2> QED
    BY <1>15, <2>1, <2>2
       DEF DropProvider, SlotsKept, Known, ReqTyped, StatusTyped, HeldTyped, Asking,
           Granted, Resources
<1>16. ASSUME NEW r \in Requests, DropProviderFails(r)
      PROVE  SlotsKept'
  <2>1. held'["provider"] \subseteq held["provider"]
    BY <1>16 DEF DropProviderFails, Known, HeldTyped, Resources
  <2>2. Cardinality(held'["provider"]) <= ProviderLimit
    BY <2>1, RoomKept DEF Known, SlotsKept
  <2> QED
    BY <1>16, <2>1, <2>2
       DEF DropProviderFails, SlotsKept, Known, ReqTyped, StatusTyped, HeldTyped, Asking,
           Granted, Resources
<1>17. ASSUME NEW r \in Requests, ReleaseLocalPdf(r)
      PROVE  SlotsKept'
  BY <1>17
     DEF ReleaseLocalPdf, SlotsKept, Known, ReqTyped, StatusTyped, HeldTyped, Asking,
         Granted, Resources
<1>18. ASSUME NEW r \in Requests, NEW ok \in BOOLEAN, ReleaseSlot(r, ok)
      PROVE  SlotsKept'
  <2>1. held'["provider"] \subseteq held["provider"]
    BY <1>18 DEF ReleaseSlot, Known, HeldTyped, Resources
  <2>2. Cardinality(held'["provider"]) <= ProviderLimit
    BY <2>1, RoomKept DEF Known, SlotsKept
  <2> QED
    BY <1>18, <2>1, <2>2
       DEF ReleaseSlot, SlotsKept, Known, ReqTyped, StatusTyped, HeldTyped, Asking,
           Granted, Resources
<1>19. ASSUME NEW r \in Requests, Released(r)
      PROVE  SlotsKept'
  BY <1>19
     DEF Released, SlotsKept, Known, ReqTyped, StatusTyped, HeldTyped, Asking, Granted,
         Resources
<1>20. ASSUME NEW r \in Requests, EmergencyRefused(r)
      PROVE  SlotsKept'
  BY <1>20
     DEF EmergencyRefused, SlotsKept, Known, ReqTyped, StatusTyped, HeldTyped, Asking,
         Granted, Resources
<1>21. ASSUME NEW r \in Requests, EmergencyClock(r)
      PROVE  SlotsKept'
  BY <1>21
     DEF EmergencyClock, SlotsKept, Known, ReqTyped, StatusTyped, HeldTyped, Asking,
         Granted, Resources
<1>22. ASSUME NEW r \in Requests, EmergencyTake(r)
      PROVE  SlotsKept'
  BY <1>22
     DEF EmergencyTake, SlotsKept, Known, ReqTyped, StatusTyped, HeldTyped, Asking,
         Granted, Resources
<1>23. ASSUME NEW r \in Requests, Dispatch(r)
      PROVE  SlotsKept'
  <2>1. held'["provider"] = held["provider"]
    BY <1>23 DEF Dispatch, Known, HeldTyped, Resources
  <2>2. Cardinality(held'["provider"]) <= ProviderLimit
    BY <2>1, RoomKept DEF Known, SlotsKept
  <2> QED
    BY <1>23, <2>1, <2>2
       DEF Dispatch, SlotsKept, Known, ReqTyped, StatusTyped, HeldTyped, Asking, Granted,
           Resources
<1>24. ASSUME NEW r \in Requests, Finish(r)
      PROVE  SlotsKept'
  BY <1>24
     DEF Finish, SlotsKept, Known, ReqTyped, StatusTyped, HeldTyped, Asking, Granted,
         Resources
<1>25. ASSUME NEW x \in Resources, NEW r \in Requests, Expire(x, r)
      PROVE  SlotsKept'
  <2>1. held'["provider"] \subseteq held["provider"]
    BY <1>25 DEF Expire, Known, HeldTyped, Resources
  <2>2. Cardinality(held'["provider"]) <= ProviderLimit
    BY <2>1, RoomKept DEF Known, SlotsKept
  <2> QED
    BY <1>25, <2>1, <2>2
       DEF Expire, SlotsKept, Known, ReqTyped, StatusTyped, HeldTyped, Asking, Granted,
           Resources
<1>26. ASSUME Tick
      PROVE  SlotsKept'
  BY <1>26
     DEF Tick, SlotsKept, Known, ReqTyped, StatusTyped, HeldTyped, Asking, Granted,
         Resources
<1>27. ASSUME NEW p \in Processes, Crash(p)
      PROVE  SlotsKept'
  BY <1>27
     DEF Crash, SlotsKept, Known, ReqTyped, StatusTyped, HeldTyped, Asking, Granted,
         Resources, Alive
<1>28. CASE UNCHANGED vars
  BY <1>28
     DEF vars, SlotsKept, Known, ReqTyped, StatusTyped, HeldTyped, Asking, Granted,
         Resources
<1> QED
  BY <1>1, <1>2, <1>3, <1>4, <1>5, <1>6, <1>7, <1>8, <1>9, <1>10, <1>11, <1>12, <1>13,
     <1>14, <1>15, <1>16, <1>17, <1>18, <1>19, <1>20, <1>21, <1>22, <1>23, <1>24, <1>25,
     <1>26, <1>27, <1>28
     DEF Next

LEMMA SlotsBoundCalls == Known /\ SlotsKept => ProviderBound
<1> SUFFICES ASSUME Known, SlotsKept PROVE ProviderBound
  OBVIOUS
<1>1. {r \in Requests : stage[r] = "calling"} \ outlived \subseteq held["provider"]
  BY DEF SlotsKept
<1> QED
  BY <1>1, RoomKept DEF Known, SlotsKept, ProviderBound

-----------------------------------------------------------------------------
(* What an untroubled request has in Redis is in its lease, or still in the *)
(* hands of the code that has not put it there.                             *)

InLease(r, x) == \E i \in DOMAIN lease[r] : lease[r][i] = x

Owed ==
    \A r \in Requests \ troubled, x \in Resources :
        r \in held[x] =>
            \/ InLease(r, x)
            \/ x = "provider" /\ stage[r] \in Asking
            \/ x = "allowance" /\ stage[r] \in {"snapshot", "exhausted"}

LEMMA StillAfterAdd ==
    ASSUME LeaseInv, NEW r \in Requests, NEW xs \in Seq(Reservations), Add(r, xs)
    PROVE  \A q \in Requests, x \in Resources : InLease(q, x) => InLease(q, x)'
<1>1. lease[r] \in Seq(Reservations)
  BY DEF LeaseInv, LeaseTyped
<1>2. \A q \in Requests : lease'[q] = IF q = r THEN lease[r] \o xs ELSE lease[q]
  BY DEF Add, LeaseInv, LeaseTyped
<1> QED
  <2> SUFFICES ASSUME NEW q \in Requests, NEW x \in Resources, NEW i \in DOMAIN lease[q], lease[q][i] = x
               PROVE  InLease(q, x)'
    BY DEF InLease
  <2>1. i \in DOMAIN lease'[q] /\ lease'[q][i] = x
    <3>1. CASE q = r
      <4> DEFINE s == lease[r]
      <4>1. lease'[q] = s \o xs /\ s \in Seq(Reservations) /\ i \in DOMAIN s /\ s[i] = x
        BY <1>1, <1>2, <3>1
      <4> HIDE DEF s
      <4> QED
        BY <4>1, Joined
    <3>2. CASE q # r
      BY <1>2, <3>2
    <3> QED
      BY <3>1, <3>2
  <2> QED
    BY <2>1 DEF InLease

LEMMA JoinedIsIn ==
    ASSUME LeaseInv, NEW r \in Requests, NEW xs \in Seq(Reservations), Add(r, xs)
    PROVE  \A i \in DOMAIN xs : InLease(r, xs[i])'
<1>1. lease[r] \in Seq(Reservations)
  BY DEF LeaseInv, LeaseTyped
<1>2. lease'[r] = lease[r] \o xs
  BY DEF Add, LeaseInv, LeaseTyped
<1>3. ASSUME NEW i \in DOMAIN xs
      PROVE  Len(lease[r]) + i \in DOMAIN lease'[r] /\ lease'[r][Len(lease[r]) + i] = xs[i]
  BY <1>1, <1>2
<1> QED
  BY <1>3 DEF InLease

LEMMA StillAfterRelease ==
    ASSUME LeaseInv, NEW r \in Requests, lease[r] # <<>>,
           lease' = [lease EXCEPT ![r] = Front(@)]
    PROVE  \A q \in Requests, x \in Resources :
              InLease(q, x) => InLease(q, x)' \/ (q = r /\ x = Last(lease[r]))
<1>1. lease[r] \in Seq(Reservations)
  BY DEF LeaseInv, LeaseTyped
<1>2. \A q \in Requests : lease'[q] = IF q = r THEN Front(lease[r]) ELSE lease[q]
  BY DEF LeaseInv, LeaseTyped
<1> QED
  BY <1>1, <1>2, FrontAndLast DEF InLease

LEMMA OwedStep == Known /\ LeaseInv /\ Owed /\ [Next]_vars => Owed'
<1> SUFFICES ASSUME Known /\ LeaseInv /\ Owed, [Next]_vars
             PROVE  Owed'
  OBVIOUS
<1> USE DEF Goto, Decide, Raise, Hold, Drop, Trouble, FailedDrop, clockVars, otherVars
<1>1. ASSUME NEW r \in Requests, Begin(r)
      PROVE  Owed'
  BY <1>1 DEF Begin, Owed, Known, ReqTyped, HeldTyped, Asking, Resources, InLease
<1>2. ASSUME NEW r \in Requests, Tokens(r)
      PROVE  Owed'
  BY <1>2 DEF Tokens, Owed, Known, ReqTyped, HeldTyped, Asking, Resources, InLease
<1>3. ASSUME NEW r \in Requests, TokensFail(r)
      PROVE  Owed'
  BY <1>3 DEF TokensFail, Owed, Known, ReqTyped, HeldTyped, Asking, Resources, InLease
<1>4. ASSUME NEW r \in Requests, ReserveLocalPdf(r)
      PROVE  Owed'
  <2>1. <<"local_pdf">> \in Seq(Reservations)
    BY DEF Reservations
  <2>2. \A q \in Requests, x \in Resources : InLease(q, x) => InLease(q, x)'
    BY <1>4, <2>1, StillAfterAdd DEF ReserveLocalPdf
  <2> QED
    BY <1>4, <2>2 DEF ReserveLocalPdf, Owed, Known, ReqTyped, HeldTyped, Asking, Resources
<1>5. ASSUME NEW r \in Requests, NoLocalPdf(r)
      PROVE  Owed'
  BY <1>5 DEF NoLocalPdf, Owed, Known, ReqTyped, HeldTyped, Asking, Resources, InLease
<1>6. ASSUME NEW r \in Requests, NoPdf(r)
      PROVE  Owed'
  BY <1>6 DEF NoPdf, Owed, Known, ReqTyped, HeldTyped, Asking, Resources, InLease
<1>7. ASSUME NEW r \in Requests, ChooseAi(r)
      PROVE  Owed'
  BY <1>7 DEF ChooseAi, Owed, Known, ReqTyped, HeldTyped, Asking, Resources, InLease
<1>8. ASSUME NEW r \in Requests, NoProvider(r)
      PROVE  Owed'
  BY <1>8 DEF NoProvider, Owed, Known, ReqTyped, HeldTyped, Asking, Resources, InLease
<1>9. ASSUME NEW r \in Requests, NEW reply \in BOOLEAN, ReservePdf(r, reply)
      PROVE  Owed'
  <2>1. <<"pdf">> \in Seq(Reservations)
    BY DEF Reservations, Resources
  <2>2. \A q \in Requests, x \in Resources : InLease(q, x) => InLease(q, x)'
    BY <1>9, <2>1, StillAfterAdd DEF ReservePdf, InLease
  <2>3. reply => InLease(r, "pdf")'
    <3> DEFINE xs == <<"pdf">>
    <3>1. 1 \in DOMAIN xs /\ xs[1] = "pdf" /\ (reply => Add(r, xs))
      BY <1>9 DEF ReservePdf
    <3> HIDE DEF xs
    <3> QED
      BY <2>1, <3>1, JoinedIsIn DEF xs
  <2> QED
    BY <1>9, <2>2, <2>3 DEF ReservePdf, Owed, Known, ReqTyped, HeldTyped, Asking, Resources
<1>10. ASSUME NEW r \in Requests, NEW reply \in BOOLEAN, ReserveProvider(r, reply)
      PROVE  Owed'
  BY <1>10 DEF ReserveProvider, Owed, Known, ReqTyped, HeldTyped, Asking, Resources, InLease
<1>11. ASSUME NEW r \in Requests, ReserveAllowance(r)
      PROVE  Owed'
  BY <1>11
     DEF ReserveAllowance, Owed, Known, ReqTyped, HeldTyped, Asking, Resources, InLease
<1>12. ASSUME NEW r \in Requests, Snapshot(r)
      PROVE  Owed'
  <2> DEFINE xs == <<"provider", "allowance">>
  <2>1. xs \in Seq(Reservations) /\ xs[1] = "provider" /\ xs[2] = "allowance" /\ DOMAIN xs = {1, 2}
    BY DEF Reservations, Resources
  <2>2. (Add(r, xs) /\ Goto(r, "serving")) \/ (UNCHANGED lease /\ Goto(r, "exhausted"))
    BY <1>12 DEF Snapshot
  <2>3. \A q \in Requests, x \in Resources : InLease(q, x) => InLease(q, x)'
    <3> HIDE DEF xs
    <3> QED
      BY <2>1, <2>2, StillAfterAdd DEF InLease
  <2>4. Add(r, xs) => InLease(r, "provider")' /\ InLease(r, "allowance")'
    <3> HIDE DEF xs
    <3> QED
      BY <2>1, JoinedIsIn
  <2> HIDE DEF xs
  <2> QED
    BY <1>12, <2>2, <2>3, <2>4
       DEF Snapshot, Owed, Known, ReqTyped, HeldTyped, Asking, Resources
<1>13. ASSUME NEW r \in Requests, DropAllowance(r)
      PROVE  Owed'
  BY <1>13 DEF DropAllowance, Owed, Known, ReqTyped, HeldTyped, Asking, Resources, InLease
<1>14. ASSUME NEW r \in Requests, AllowanceFails(r)
      PROVE  Owed'
  BY <1>14 DEF AllowanceFails, Owed, Known, ReqTyped, HeldTyped, Asking, Resources, InLease
<1>15. ASSUME NEW r \in Requests, DropProvider(r)
      PROVE  Owed'
  BY <1>15 DEF DropProvider, Owed, Known, ReqTyped, HeldTyped, Asking, Resources, InLease
<1>16. ASSUME NEW r \in Requests, DropProviderFails(r)
      PROVE  Owed'
  BY <1>16
     DEF DropProviderFails, Owed, Known, ReqTyped, HeldTyped, Asking, Resources, InLease
<1>17. ASSUME NEW r \in Requests, ReleaseLocalPdf(r)
      PROVE  Owed'
  <2>1. \A q \in Requests, x \in Resources : InLease(q, x) => InLease(q, x)'
    <3>1. \A x \in Resources : x # Last(lease[r])
      BY <1>17 DEF ReleaseLocalPdf, Resources
    <3> QED
      BY <1>17, <3>1, StillAfterRelease DEF ReleaseLocalPdf
  <2> QED
    BY <1>17, <2>1 DEF ReleaseLocalPdf, Owed, Known, ReqTyped, HeldTyped, Asking, Resources
<1>18. ASSUME NEW r \in Requests, NEW ok \in BOOLEAN, ReleaseSlot(r, ok)
      PROVE  Owed'
  <2>1. \A q \in Requests, x \in Resources :
           InLease(q, x) => InLease(q, x)' \/ (q = r /\ x = Last(lease[r]))
    BY <1>18, StillAfterRelease DEF ReleaseSlot
  <2>2. /\ Last(lease[r]) \in Resources /\ UNCHANGED stage
        /\ (Drop(Last(lease[r]), r) /\ UNCHANGED troubled) \/ FailedDrop(Last(lease[r]), r)
    BY <1>18 DEF ReleaseSlot
  <2> DEFINE y == Last(lease[r])
  <2>3. \A q \in Requests, x \in Resources :
           q \in held'[x] => q \in held[x] /\ ((q = r /\ x = y) => r \in troubled')
    <3> HIDE DEF y
    <3>1. CASE Drop(y, r) /\ UNCHANGED troubled
      BY <2>2, <3>1 DEF Known, HeldTyped, Resources
    <3>2. CASE FailedDrop(y, r)
      BY <2>2, <3>2 DEF Known, HeldTyped, Resources
    <3> QED
      BY <2>2, <3>1, <3>2 DEF y
  <2>4. troubled \subseteq troubled' /\ UNCHANGED stage
    BY <2>2
  <2> QED
    BY <2>1, <2>3, <2>4 DEF Owed
<1>19. ASSUME NEW r \in Requests, Released(r)
      PROVE  Owed'
  BY <1>19 DEF Released, Owed, Known, ReqTyped, HeldTyped, Asking, Resources, InLease
<1>20. ASSUME NEW r \in Requests, EmergencyRefused(r)
      PROVE  Owed'
  BY <1>20
     DEF EmergencyRefused, Owed, Known, ReqTyped, HeldTyped, Asking, Resources, InLease
<1>21. ASSUME NEW r \in Requests, EmergencyClock(r)
      PROVE  Owed'
  BY <1>21 DEF EmergencyClock, Owed, Known, ReqTyped, HeldTyped, Asking, Resources, InLease
<1>22. ASSUME NEW r \in Requests, EmergencyTake(r)
      PROVE  Owed'
  BY <1>22 DEF EmergencyTake, Owed, Known, ReqTyped, HeldTyped, Asking, Resources, InLease
<1>23. ASSUME NEW r \in Requests, Dispatch(r)
      PROVE  Owed'
  BY <1>23 DEF Dispatch, Owed, Known, ReqTyped, HeldTyped, Asking, Resources, InLease
<1>24. ASSUME NEW r \in Requests, Finish(r)
      PROVE  Owed'
  BY <1>24 DEF Finish, Owed, Known, ReqTyped, HeldTyped, Asking, Resources, InLease
<1>25. ASSUME NEW x \in Resources, NEW r \in Requests, Expire(x, r)
      PROVE  Owed'
  BY <1>25 DEF Expire, Owed, Known, ReqTyped, HeldTyped, Asking, Resources, InLease
<1>26. ASSUME Tick
      PROVE  Owed'
  BY <1>26 DEF Tick, Owed, Known, ReqTyped, HeldTyped, Asking, Resources, InLease
<1>27. ASSUME NEW p \in Processes, Crash(p)
      PROVE  Owed'
  BY <1>27 DEF Crash, Owed, Known, ReqTyped, HeldTyped, Asking, Resources, InLease, Alive
<1>28. CASE UNCHANGED vars
  BY <1>28 DEF vars, Owed, Known, ReqTyped, HeldTyped, Asking, Resources, InLease
<1> QED
  BY <1>1, <1>2, <1>3, <1>4, <1>5, <1>6, <1>7, <1>8, <1>9, <1>10, <1>11, <1>12, <1>13,
     <1>14, <1>15, <1>16, <1>17, <1>18, <1>19, <1>20, <1>21, <1>22, <1>23, <1>24, <1>25,
     <1>26, <1>27, <1>28
     DEF Next

LEMMA OwedNothingLeaks == LeaseInv /\ Owed => NothingLeaks
BY DEF LeaseInv, LeaseShape, Empty, Owed, NothingLeaks, InLease, Asking

-----------------------------------------------------------------------------
(* The emergency limiter, when no second passes between a thread's reading  *)
(* of the clock and its turn at the lock.  What a process took in this      *)
(* second is no more than its counter says.                                 *)

EmergencyInv ==
    /\ second \in Seconds
    /\ readAt \in [Requests -> Seconds \cup {Nothing}]
    /\ \A r \in Requests : stage[r] = "take" => readAt[r] = second
    /\ emergency \in [Processes -> [second : Seconds \cup {Nothing}, count : 0 .. EmergencyRate]]
    /\ scores \in [Processes -> [Seconds -> 0 .. EmergencyRate]]
    /\ \A p \in Processes :
          /\ scores[p][second] <= TakenIn(p, second)
          /\ \A t \in Seconds : t > second => scores[p][t] = 0
          /\ emergency[p].second # Nothing => emergency[p].second <= second

LEMMA EmergencyQuiet ==
    ASSUME EmergencyInv, UNCHANGED <<emergency, second, readAt, scores>>,
           \A q \in Requests : stage'[q] = "take" => stage[q] = "take"
    PROVE  EmergencyInv'
BY DEF EmergencyInv, TakenIn

LEMMA EmergencyStep == ~StaleSecond /\ ReqTyped /\ EmergencyInv /\ [Next]_vars => EmergencyInv'
<1> SUFFICES ASSUME ~StaleSecond /\ ReqTyped /\ EmergencyInv, [Next]_vars
             PROVE  EmergencyInv'
  OBVIOUS
<1>1. ASSUME NEW r \in Requests, Begin(r)
      PROVE  EmergencyInv'
  BY <1>1, EmergencyQuiet DEF Begin, ReqTyped, Goto, Decide, Raise, clockVars, otherVars
<1>2. ASSUME NEW r \in Requests, Tokens(r)
      PROVE  EmergencyInv'
  BY <1>2, EmergencyQuiet DEF Tokens, ReqTyped, Goto, Decide, Raise, clockVars, otherVars
<1>3. ASSUME NEW r \in Requests, TokensFail(r)
      PROVE  EmergencyInv'
  BY <1>3, EmergencyQuiet
     DEF TokensFail, ReqTyped, Goto, Decide, Raise, clockVars, otherVars
<1>4. ASSUME NEW r \in Requests, ReserveLocalPdf(r)
      PROVE  EmergencyInv'
  BY <1>4, EmergencyQuiet
     DEF ReserveLocalPdf, ReqTyped, Goto, Decide, Raise, clockVars, otherVars
<1>5. ASSUME NEW r \in Requests, NoLocalPdf(r)
      PROVE  EmergencyInv'
  BY <1>5, EmergencyQuiet
     DEF NoLocalPdf, ReqTyped, Goto, Decide, Raise, clockVars, otherVars
<1>6. ASSUME NEW r \in Requests, NoPdf(r)
      PROVE  EmergencyInv'
  BY <1>6, EmergencyQuiet DEF NoPdf, ReqTyped, Goto, Decide, Raise, clockVars, otherVars
<1>7. ASSUME NEW r \in Requests, ChooseAi(r)
      PROVE  EmergencyInv'
  BY <1>7, EmergencyQuiet DEF ChooseAi, ReqTyped, Goto, Decide, Raise, clockVars, otherVars
<1>8. ASSUME NEW r \in Requests, NoProvider(r)
      PROVE  EmergencyInv'
  BY <1>8, EmergencyQuiet
     DEF NoProvider, ReqTyped, Goto, Decide, Raise, clockVars, otherVars
<1>9. ASSUME NEW r \in Requests, NEW reply \in BOOLEAN, ReservePdf(r, reply)
      PROVE  EmergencyInv'
  BY <1>9, EmergencyQuiet
     DEF ReservePdf, ReqTyped, Goto, Decide, Raise, clockVars, otherVars
<1>10. ASSUME NEW r \in Requests, NEW reply \in BOOLEAN, ReserveProvider(r, reply)
      PROVE  EmergencyInv'
  BY <1>10, EmergencyQuiet
     DEF ReserveProvider, ReqTyped, Goto, Decide, Raise, clockVars, otherVars
<1>11. ASSUME NEW r \in Requests, ReserveAllowance(r)
      PROVE  EmergencyInv'
  BY <1>11, EmergencyQuiet
     DEF ReserveAllowance, ReqTyped, Goto, Decide, Raise, clockVars, otherVars
<1>12. ASSUME NEW r \in Requests, Snapshot(r)
      PROVE  EmergencyInv'
  BY <1>12, EmergencyQuiet DEF Snapshot, ReqTyped, Goto, Decide, Raise, clockVars, otherVars
<1>13. ASSUME NEW r \in Requests, DropAllowance(r)
      PROVE  EmergencyInv'
  BY <1>13, EmergencyQuiet
     DEF DropAllowance, ReqTyped, Goto, Decide, Raise, clockVars, otherVars
<1>14. ASSUME NEW r \in Requests, AllowanceFails(r)
      PROVE  EmergencyInv'
  BY <1>14, EmergencyQuiet
     DEF AllowanceFails, ReqTyped, Goto, Decide, Raise, clockVars, otherVars
<1>15. ASSUME NEW r \in Requests, DropProvider(r)
      PROVE  EmergencyInv'
  BY <1>15, EmergencyQuiet
     DEF DropProvider, ReqTyped, Goto, Decide, Raise, clockVars, otherVars
<1>16. ASSUME NEW r \in Requests, DropProviderFails(r)
      PROVE  EmergencyInv'
  BY <1>16, EmergencyQuiet
     DEF DropProviderFails, ReqTyped, Goto, Decide, Raise, clockVars, otherVars
<1>17. ASSUME NEW r \in Requests, ReleaseLocalPdf(r)
      PROVE  EmergencyInv'
  BY <1>17, EmergencyQuiet
     DEF ReleaseLocalPdf, ReqTyped, Goto, Decide, Raise, clockVars, otherVars
<1>18. ASSUME NEW r \in Requests, NEW ok \in BOOLEAN, ReleaseSlot(r, ok)
      PROVE  EmergencyInv'
  BY <1>18, EmergencyQuiet
     DEF ReleaseSlot, ReqTyped, Goto, Decide, Raise, clockVars, otherVars
<1>19. ASSUME NEW r \in Requests, Released(r)
      PROVE  EmergencyInv'
  BY <1>19, EmergencyQuiet DEF Released, ReqTyped, Goto, Decide, Raise, clockVars, otherVars
<1>20. ASSUME NEW r \in Requests, EmergencyRefused(r)
      PROVE  EmergencyInv'
  BY <1>20, EmergencyQuiet
     DEF EmergencyRefused, ReqTyped, Goto, Decide, Raise, clockVars, otherVars
<1>21. ASSUME NEW r \in Requests, EmergencyClock(r)
      PROVE  EmergencyInv'
  BY <1>21 DEF EmergencyClock, otherVars, Goto, EmergencyInv, ReqTyped, TakenIn
<1>22. ASSUME NEW r \in Requests, EmergencyTake(r)
      PROVE  EmergencyInv'
  <2>0. PICK p \in Processes : p = req[r].process
    BY <1>22, ReqFields DEF EmergencyTake
  <2> DEFINE n == TakenIn(p, second)
  <2>1. /\ readAt[r] = second /\ second \in Seconds /\ second # Nothing
        /\ second' = second /\ EmergencyRate \in Nat /\ n \in 0 .. EmergencyRate
    BY <1>22, ReqFields, ParametersAssumption, NothingAssumption
       DEF EmergencyTake, EmergencyInv, Seconds, TakenIn
  <2>2. /\ readAt' = [readAt EXCEPT ![r] = Nothing]
        /\ \A q \in Requests : stage'[q] = "take" => stage[q] = "take" /\ q # r
    BY <1>22 DEF EmergencyTake, Decide, Goto, ReqTyped
  <2>3. PICK m \in 0 .. EmergencyRate :
           /\ emergency' = [emergency EXCEPT ![p] = [second |-> second, count |-> m]]
           /\ \/ m = n /\ scores' = scores
              \/ m = n + 1 /\ scores' = [scores EXCEPT ![p][second] = scores[p][second] + 1]
    <3>1. CASE EmergencyFull(p, second)
      BY <1>22, <2>0, <2>1, <3>1 DEF EmergencyTake
    <3>2. CASE ~EmergencyFull(p, second)
      <4>1. n + 1 \in 0 .. EmergencyRate
        BY <2>1, <3>2 DEF EmergencyFull
      <4> QED
        BY <1>22, <2>0, <2>1, <3>2, <4>1 DEF EmergencyTake
    <3> QED
      BY <3>1, <3>2
  <2>4. /\ emergency' \in [Processes -> [second : Seconds \cup {Nothing}, count : 0 .. EmergencyRate]]
        /\ emergency'[p].second = second /\ emergency'[p].count = m
        /\ \A w \in Processes \ {p} : emergency'[w] = emergency[w]
    BY <2>1, <2>3 DEF EmergencyInv
  <2>5. /\ TakenIn(p, second)' = m
        /\ \A w \in Processes \ {p} : TakenIn(w, second)' = TakenIn(w, second)
    <3> HIDE DEF n
    <3> QED
      BY <2>1, <2>4 DEF TakenIn
  <2>6. /\ \A w \in Processes, t \in Seconds : w # p \/ t # second => scores'[w][t] = scores[w][t]
        /\ scores'[p][second] <= m
        /\ scores' \in [Processes -> [Seconds -> 0 .. EmergencyRate]]
    <3>1. scores[p] \in [Seconds -> 0 .. EmergencyRate] /\ scores[p][second] <= n
      BY <2>1 DEF EmergencyInv
    <3>2. CASE m = n /\ scores' = scores
      BY <3>1, <3>2, <2>1 DEF EmergencyInv
    <3>3. CASE m = n + 1 /\ scores' = [scores EXCEPT ![p][second] = scores[p][second] + 1]
      <4>1. scores[p][second] + 1 \in 0 .. EmergencyRate /\ scores[p][second] + 1 <= m
        BY <2>1, <3>1, <3>3
      <4>2. [scores[p] EXCEPT ![second] = scores[p][second] + 1] \in [Seconds -> 0 .. EmergencyRate]
        BY <3>1, <4>1
      <4> QED
        BY <2>1, <3>1, <3>3, <4>1, <4>2 DEF EmergencyInv
    <3> QED
      BY <2>3, <3>2, <3>3
  <2> HIDE DEF n
  <2>7. /\ readAt' \in [Requests -> Seconds \cup {Nothing}]
        /\ \A q \in Requests : stage'[q] = "take" => readAt'[q] = second
    BY <2>2 DEF EmergencyInv
  <2>8. ASSUME NEW w \in Processes
        PROVE  /\ scores'[w][second] <= TakenIn(w, second)'
               /\ \A t \in Seconds : t > second => scores'[w][t] = 0
               /\ emergency'[w].second # Nothing => emergency'[w].second <= second
    <3>1. \A t \in Seconds : t > second => t # second
      BY <2>1, ParametersAssumption DEF Seconds
    <3>2. second <= second
      BY <2>1, ParametersAssumption DEF Seconds
    <3>3. CASE w = p
      BY <2>1, <2>4, <2>5, <2>6, <3>1, <3>2, <3>3 DEF EmergencyInv
    <3>4. CASE w # p
      BY <2>1, <2>4, <2>5, <2>6, <3>4 DEF EmergencyInv
    <3> QED
      BY <3>3, <3>4
  <2> QED
    BY <2>1, <2>4, <2>6, <2>7, <2>8 DEF EmergencyInv
<1>23. ASSUME NEW r \in Requests, Dispatch(r)
      PROVE  EmergencyInv'
  BY <1>23, EmergencyQuiet DEF Dispatch, ReqTyped, Goto, Decide, Raise, clockVars, otherVars
<1>24. ASSUME NEW r \in Requests, Finish(r)
      PROVE  EmergencyInv'
  BY <1>24, EmergencyQuiet DEF Finish, ReqTyped, Goto, Decide, Raise, clockVars, otherVars
<1>25. ASSUME NEW x \in Resources, NEW r \in Requests, Expire(x, r)
      PROVE  EmergencyInv'
  BY <1>25, EmergencyQuiet DEF Expire, ReqTyped, Goto, Decide, Raise, clockVars, otherVars
<1>26. ASSUME Tick
      PROVE  EmergencyInv'
  <2>1. /\ second' = second + 1 /\ second + 1 \in Seconds /\ second \in Nat
        /\ UNCHANGED <<stage, emergency, readAt, scores>> /\ \A r \in Requests : stage[r] # "take"
    BY <1>26, ParametersAssumption DEF Tick, otherVars, EmergencyInv, Seconds
  <2>2. ASSUME NEW p \in Processes PROVE scores[p][second + 1] = 0 /\ TakenIn(p, second + 1) \in Nat
    BY <2>1, ParametersAssumption DEF EmergencyInv, TakenIn
  <2>3. ASSUME NEW p \in Processes
        PROVE  /\ scores'[p][second'] <= TakenIn(p, second)'
               /\ \A t \in Seconds : t > second' => scores'[p][t] = 0
               /\ emergency'[p].second # Nothing => emergency'[p].second <= second'
    <3>1. TakenIn(p, second)' = TakenIn(p, second + 1)
      BY <2>1 DEF TakenIn
    <3>2. \A t \in Seconds : t > second + 1 => t > second
      BY <2>1, ParametersAssumption DEF Seconds
    <3>3. emergency[p].second # Nothing => emergency[p].second \in Nat
      BY DEF EmergencyInv, Seconds
    <3> QED
      BY <2>1, <2>2, <3>1, <3>2, <3>3 DEF EmergencyInv
  <2> QED
    BY <2>1, <2>3 DEF EmergencyInv
<1>27. ASSUME NEW p \in Processes, Crash(p)
      PROVE  EmergencyInv'
  <2>1. /\ second' = second /\ second \in Seconds
        /\ \A r \in Requests : stage'[r] = "take" => stage[r] = "take" /\ readAt'[r] = readAt[r]
        /\ readAt' \in [Requests -> Seconds \cup {Nothing}]
    BY <1>27 DEF Crash, EmergencyInv
  <2>2. /\ emergency' \in [Processes -> [second : Seconds \cup {Nothing}, count : 0 .. EmergencyRate]]
        /\ scores' \in [Processes -> [Seconds -> 0 .. EmergencyRate]]
        /\ \A w \in Processes \ {p} : emergency'[w] = emergency[w] /\ scores'[w] = scores[w]
        /\ emergency'[p] = [second |-> Nothing, count |-> 0] /\ \A t \in Seconds : scores'[p][t] = 0
    <3>1. 0 \in 0 .. EmergencyRate
      BY ParametersAssumption
    <3>2. [t \in Seconds |-> 0] \in [Seconds -> 0 .. EmergencyRate]
      BY <3>1
    <3> QED
      BY <1>27, <3>1, <3>2 DEF Crash, EmergencyInv
  <2>3. TakenIn(p, second)' = 0 /\ \A w \in Processes \ {p} : TakenIn(w, second)' = TakenIn(w, second)
    BY <2>1, <2>2 DEF TakenIn
  <2>4. ASSUME NEW w \in Processes
        PROVE  /\ scores'[w][second] <= TakenIn(w, second)'
               /\ \A t \in Seconds : t > second => scores'[w][t] = 0
               /\ emergency'[w].second # Nothing => emergency'[w].second <= second
    <3>1. CASE w = p
      BY <2>1, <2>2, <2>3, <3>1
    <3>2. CASE w # p
      BY <2>1, <2>2, <2>3, <3>2 DEF EmergencyInv
    <3> QED
      BY <3>1, <3>2
  <2> QED
    BY <2>1, <2>2, <2>4 DEF EmergencyInv
<1>28. CASE UNCHANGED vars
  BY <1>28, EmergencyQuiet DEF vars
<1> QED
  BY <1>1, <1>2, <1>3, <1>4, <1>5, <1>6, <1>7, <1>8, <1>9, <1>10, <1>11, <1>12, <1>13,
     <1>14, <1>15, <1>16, <1>17, <1>18, <1>19, <1>20, <1>21, <1>22, <1>23, <1>24, <1>25,
     <1>26, <1>27, <1>28
     DEF Next

LEMMA EmergencyKeepsItsRate == EmergencyInv => EmergencyBound
BY ParametersAssumption DEF EmergencyInv, EmergencyBound

-----------------------------------------------------------------------------
(* The invariant of admission and what follows from it.                     *)

AdmissionInv == Known /\ LeaseInv /\ CountInv /\ SlotsKept /\ Owed

LEMMA AdmissionInit == Init => AdmissionInv /\ EmergencyInv
<1> SUFFICES ASSUME Init PROVE AdmissionInv /\ EmergencyInv
  OBVIOUS
<1>1. Known
  BY ParametersAssumption DEF Init, Known, ReqTyped, StatusTyped, HeldTyped, Stages
<1>2. LeaseInv
  <2>1. <<>> \in Seq(Reservations)
    OBVIOUS
  <2> QED
    BY <2>1 DEF Init, LeaseInv, LeaseTyped, LeaseShape, Empty, Past
<1>3. CountInv
  <2>1. \A p \in Processes : Holding(p) = {}
    BY DEF Init, Holding, Alive
  <2>2. Cardinality({}) = 0 /\ Sizes(req, {}) = 0
    BY FS_EmptySet, SizesStep
  <2>3. \A p \in Processes : Cardinality(Holding(p)) = 0 /\ Sizes(req, Holding(p)) = 0
    BY <2>1, <2>2, Zenon
  <2> QED
    BY <2>3, ParametersAssumption DEF Init, CountInv
<1>4. SlotsKept
  BY FS_EmptySet, NothingAssumption, ParametersAssumption
     DEF Init, SlotsKept, Asking, Granted, Resources, AiStatus
<1>5. Owed
  BY DEF Init, Owed
<1>6. EmergencyInv
  <2>1. 0 \in Seconds /\ 0 \in 0 .. EmergencyRate
    BY ParametersAssumption DEF Seconds
  <2>2. [t \in Seconds |-> 0] \in [Seconds -> 0 .. EmergencyRate]
    BY <2>1
  <2>3. \A p \in Processes : TakenIn(p, 0) = 0
    BY DEF Init, TakenIn
  <2> QED
    BY <2>1, <2>2, <2>3 DEF Init, EmergencyInv
<1> QED
  BY <1>1, <1>2, <1>3, <1>4, <1>5, <1>6 DEF AdmissionInv

LEMMA AdmissionStep == AdmissionInv /\ [Next]_vars => AdmissionInv'
<1> SUFFICES ASSUME AdmissionInv, [Next]_vars PROVE AdmissionInv'
  OBVIOUS
<1>1. Known'
  BY ReqTypedStep, StatusTypedStep, HeldTypedStep DEF AdmissionInv, Known
<1>2. LeaseInv'
  BY LeaseInvStep DEF AdmissionInv, Known
<1>3. CountInv'
  BY <1>2, CountInvStep DEF AdmissionInv, Known
<1>4. SlotsKept' /\ Owed'
  BY SlotsKeptStep, OwedStep DEF AdmissionInv
<1> QED
  BY <1>1, <1>2, <1>3, <1>4 DEF AdmissionInv

LEMMA CountsBoundPdfs == AdmissionInv => PdfsBound
<1> SUFFICES ASSUME AdmissionInv, NEW p \in Processes
             PROVE  /\ local[p].count = Cardinality(Holding(p))
                    /\ local[p].bytes = Sizes(req, Holding(p))
                    /\ LET pdfs == {r \in Alive(p) : Served(r) /\ req[r].source = "pdf"}
                       IN  /\ Cardinality(pdfs) <= ProcessPdfs
                           /\ Sizes(req, pdfs) <= ProcessBytes
  BY DEF PdfsBound, LocalPdfExact, PdfFailsClosed, Sizes
<1> DEFINE pdfs == {r \in Alive(p) : Served(r) /\ req[r].source = "pdf"}
<1>1. pdfs \subseteq Holding(p)
  BY HoldersHaveLocal
     DEF AdmissionInv, HoldersKnown, Alive, Served, LeaseInv, LeaseShape, Past, HasLocal
<1> HIDE DEF pdfs
<1>2. IsFiniteSet(Holding(p)) /\ (\A r \in Holding(p) : req[r].size \in Nat)
  BY HoldersFinite DEF AdmissionInv, Known
<1>3. Cardinality(pdfs) <= Cardinality(Holding(p)) /\ Cardinality(pdfs) \in Nat /\ Cardinality(Holding(p)) \in Nat
  BY <1>1, <1>2, FS_Subset, FS_CardinalityType
<1>4. Sizes(req, pdfs) <= Sizes(req, Holding(p)) /\ Sizes(req, pdfs) \in Nat /\ Sizes(req, Holding(p)) \in Nat
  BY <1>1, <1>2, SizesGrow, SizesNat, FS_Subset
<1>5. /\ local[p].count = Cardinality(Holding(p)) /\ local[p].count <= ProcessPdfs
      /\ local[p].bytes = Sizes(req, Holding(p)) /\ local[p].bytes <= ProcessBytes
  BY DEF AdmissionInv, CountInv
<1> QED
  BY <1>3, <1>4, <1>5, ParametersAssumption DEF pdfs

LEMMA AdmissionHolds == Spec => []AdmissionInv
BY AdmissionInit, AdmissionStep, PTL DEF Spec

\* The PDF capacity of a process is counted exactly, and no more PDFs are served
\* than it has room for, whatever Redis does (_reserve_local_pdf and
\* _release_local_pdf, called on every path of admit and of the teardown).
THEOREM PdfsCounted == Spec => []PdfsBound
BY AdmissionHolds, CountsBoundPdfs, PTL

\* A request that met no Redis failure leaves no slot and no allowance lease
\* behind (the early returns of _admit_with_store, AdmissionLease.release).
THEOREM NothingIsLeaked == Spec => []NothingLeaks
<1>1. AdmissionInv => NothingLeaks
  BY OwedNothingLeaks DEF AdmissionInv
<1> QED
  BY <1>1, AdmissionHolds, PTL

\* The provider calls whose slot did not run out are within the global limit,
\* through lost replies, failed releases and restarts (RedisCapacityStore).
THEOREM CallsBounded == Spec => []ProviderBound
<1>1. AdmissionInv => ProviderBound
  BY SlotsBoundCalls DEF AdmissionInv
<1> QED
  BY <1>1, AdmissionHolds, PTL

\* With them, a process without Redis keeps to the rate of its emergency limiter
\* in every second (_take_emergency_score) - when the clock a thread read has not
\* moved on before it takes the lock.  An older reading stored over a newer one
\* opens the second it came from again.
THEOREM ProvidersHeld == ASSUME ~StaleSecond PROVE Spec => []ProvidersBound
<1>1. AdmissionInv /\ EmergencyInv /\ [Next]_vars => EmergencyInv'
  BY EmergencyStep DEF AdmissionInv, Known
<1>2. Spec => []EmergencyInv
  BY <1>1, AdmissionInit, AdmissionHolds, PTL DEF Spec
<1>3. EmergencyInv /\ ProviderBound => ProvidersBound
  BY EmergencyKeepsItsRate DEF ProvidersBound
<1> QED
  BY <1>2, <1>3, CallsBounded, PTL
================================================================================
