--------------------------- MODULE HookBusProofs ----------------------------
(***************************************************************************)
(* The hook bus for any handlers: the recursive functions of HookBus       *)
(* satisfy their equations, registration makes a sequence of the handlers, *)
(* and an event that ends well has been through all of them.  Call stays   *)
(* a constant, so the facts are taken over for the buses of WebSite by     *)
(* INSTANCE.                                                               *)
(***************************************************************************)
EXTENDS HookBus, InductionLemmas, TLAPS

\* What one handler makes of the outcome of those before it.
FireStep(before, who, h) ==
    IF before.end = "panic" THEN before
    ELSE [out |-> Call(who, before.out, h).out,
          end |-> Ended(before.end, Call(who, before.out, h).end)]

\* The stages of Fire are what its equation says.
LEMMA FiredUpToDef ==
    ASSUME NEW hs, Len(hs) \in Nat, NEW who, NEW args
    PROVE  /\ FiredUpTo(hs, who, args)[0] = [out |-> args, end |-> "ok"]
           /\ \A i \in 1 .. Len(hs) :
                FiredUpTo(hs, who, args)[i] = FireStep(FiredUpTo(hs, who, args)[i - 1], who, hs[i])
<1> DEFINE L == Len(hs)
           Step(g, i) ==
             IF i = 0 THEN [out |-> args, end |-> "ok"]
             ELSE FireStep(g[i - 1], who, hs[i])
           Some(n) == \E g : g = [i \in 0 .. n |-> Step(g, i)]
           Good == {n \in 0 .. L : Some(n)}
<1>1. 0 \in Good
  <2> DEFINE g == [i \in 0 .. 0 |-> [out |-> args, end |-> "ok"]]
  <2>1. g = [i \in 0 .. 0 |-> Step(g, i)]
    OBVIOUS
  <2>2. Some(0)
    <3> HIDE DEF g
    <3> QED BY <2>1
  <2> HIDE DEF Some
  <2> QED BY <2>2
<1>2. ASSUME NEW n \in 1 .. L, n - 1 \in Good
      PROVE  n \in Good
  <2>1. PICK g : g = [i \in 0 .. n - 1 |-> Step(g, i)]
    BY <1>2
  <2> DEFINE h == [i \in 0 .. n |-> IF i = n THEN FireStep(g[n - 1], who, hs[n]) ELSE g[i]]
  <2>2. \A i \in 0 .. n : h[i] = Step(h, i)
    <3> TAKE i \in 0 .. n
    <3>1. CASE i = n
      BY <3>1
    <3>2. CASE i # n
      <4>1. i \in 0 .. n - 1
        BY <3>2
      <4>2. h[i] = g[i] /\ g[i] = Step(g, i)
        BY <2>1, <3>2, <4>1
      <4>3. i # 0 => h[i - 1] = g[i - 1]
        BY <4>1
      <4> QED BY <4>2, <4>3
    <3> QED BY <3>1, <3>2
  <2>3. h = [i \in 0 .. n |-> Step(h, i)]
    BY <2>2
  <2>4. Some(n)
    <3> HIDE DEF h
    <3> QED BY <2>3
  <2> HIDE DEF Some
  <2> QED BY <2>4
<1>3. L \in Good
  <2> HIDE DEF Good
  <2>1. \A k \in 1 .. L : k - 1 \in Good => k \in Good
    BY <1>2
  <2> HIDE DEF L
  <2>2. 0 .. L \subseteq Good
    BY <1>1, <2>1, InductionOn DEF L
  <2> QED BY <2>2 DEF L
<1>4. Some(L)
  BY <1>3
<1> DEFINE U == FiredUpTo(hs, who, args)
<1>5. U = [i \in 0 .. L |-> Step(U, i)]
  BY <1>4 DEF FiredUpTo, FireStep
<1> HIDE DEF U
<1>6. U[0] = Step(U, 0)
  BY <1>5
<1>7. ASSUME NEW i \in 1 .. L PROVE U[i] = Step(U, i) /\ i # 0
  <2>1. i \in 0 .. L /\ i # 0
    OBVIOUS
  <2> HIDE DEF Step, L
  <2> QED BY <1>5, <2>1
<1> QED
  BY <1>6, <1>7 DEF U

\* The outcome of the handlers up to i follows from that of those before it.
LEMMA FireOk ==
    ASSUME NEW hs, Len(hs) \in Nat, NEW who, NEW args, Fire(hs, who, args).end = "ok"
    PROVE  \A i \in 1 .. Len(hs) :
             /\ FiredUpTo(hs, who, args)[i].out =
                  Call(who, FiredUpTo(hs, who, args)[i - 1].out, hs[i]).out
             /\ Call(who, FiredUpTo(hs, who, args)[i - 1].out, hs[i]).end = "ok"
<1> DEFINE L == Len(hs)
           U == FiredUpTo(hs, who, args)
           Ok == {k \in 0 .. L : U[L - k].end = "ok"}
<1>1. \A i \in 1 .. L : U[i] = FireStep(U[i - 1], who, hs[i])
  BY FiredUpToDef
<1>2. U[L].end = "ok"
  BY DEF Fire
<1> HIDE DEF U
<1>3. ASSUME NEW i \in 1 .. L, U[i].end = "ok"
      PROVE  /\ U[i - 1].end = "ok"
             /\ U[i].out = Call(who, U[i - 1].out, hs[i]).out
             /\ Call(who, U[i - 1].out, hs[i]).end = "ok"
  <2>1. U[i] = FireStep(U[i - 1], who, hs[i])
    BY <1>1
  <2>2. U[i - 1].end # "panic"
    BY <1>3, <2>1 DEF FireStep
  <2>3. U[i] = [out |-> Call(who, U[i - 1].out, hs[i]).out,
                end |-> Ended(U[i - 1].end, Call(who, U[i - 1].out, hs[i]).end)]
    BY <2>1, <2>2 DEF FireStep
  <2> QED BY <1>3, <2>3 DEF Ended
<1>4. 0 .. L \subseteq Ok
  <2>1. 0 \in Ok
    BY <1>2
  <2>2. ASSUME NEW k \in 1 .. L, k - 1 \in Ok PROVE k \in Ok
    <3>1. L - (k - 1) \in 1 .. L /\ (L - (k - 1)) - 1 = L - k
      OBVIOUS
    <3>2. U[L - (k - 1)].end = "ok"
      BY <2>2
    <3> QED BY <1>3, <3>1, <3>2
  <2> HIDE DEF Ok, L
  <2> QED BY <2>1, <2>2, InductionOn DEF L
<1>5. ASSUME NEW i \in 1 .. L PROVE U[i].end = "ok"
  <2>1. L - i \in 0 .. L /\ L - (L - i) = i
    OBVIOUS
  <2> QED BY <1>4, <2>1
<1> QED
  BY <1>3, <1>5 DEF U

-----------------------------------------------------------------------------
\* Registering one handler after another is what its equation says.
LEMMA RegisteredUpToDef ==
    ASSUME NEW hs, Len(hs) \in Nat
    PROVE  /\ RegisteredUpTo(hs)[0] = << >>
           /\ \A i \in 1 .. Len(hs) :
                RegisteredUpTo(hs)[i] = AddHook(RegisteredUpTo(hs)[i - 1], hs[i])
<1> DEFINE L == Len(hs)
           Step(g, i) == IF i = 0 THEN << >> ELSE AddHook(g[i - 1], hs[i])
           Some(n) == \E g : g = [i \in 0 .. n |-> Step(g, i)]
           Good == {n \in 0 .. L : Some(n)}
<1>1. 0 \in Good
  <2> DEFINE g == [i \in 0 .. 0 |-> << >>]
  <2>1. g = [i \in 0 .. 0 |-> Step(g, i)]
    OBVIOUS
  <2>2. Some(0)
    <3> HIDE DEF g
    <3> QED BY <2>1
  <2> HIDE DEF Some
  <2> QED BY <2>2
<1>2. ASSUME NEW n \in 1 .. L, n - 1 \in Good
      PROVE  n \in Good
  <2>1. PICK g : g = [i \in 0 .. n - 1 |-> Step(g, i)]
    BY <1>2
  <2> DEFINE h == [i \in 0 .. n |-> IF i = n THEN AddHook(g[n - 1], hs[n]) ELSE g[i]]
  <2>2. \A i \in 0 .. n : h[i] = Step(h, i)
    <3> TAKE i \in 0 .. n
    <3>1. CASE i = n
      BY <3>1
    <3>2. CASE i # n
      <4>1. i \in 0 .. n - 1
        BY <3>2
      <4>2. h[i] = g[i] /\ g[i] = Step(g, i)
        BY <2>1, <3>2, <4>1
      <4>3. i # 0 => h[i - 1] = g[i - 1]
        BY <4>1
      <4> QED BY <4>2, <4>3
    <3> QED BY <3>1, <3>2
  <2>3. h = [i \in 0 .. n |-> Step(h, i)]
    BY <2>2
  <2>4. Some(n)
    <3> HIDE DEF h
    <3> QED BY <2>3
  <2> HIDE DEF Some
  <2> QED BY <2>4
<1>3. L \in Good
  <2> HIDE DEF Good
  <2>1. \A k \in 1 .. L : k - 1 \in Good => k \in Good
    BY <1>2
  <2> HIDE DEF L
  <2>2. 0 .. L \subseteq Good
    BY <1>1, <2>1, InductionOn DEF L
  <2> QED BY <2>2 DEF L
<1>4. Some(L)
  BY <1>3
<1> DEFINE U == RegisteredUpTo(hs)
<1>5. U = [i \in 0 .. L |-> Step(U, i)]
  BY <1>4 DEF RegisteredUpTo
<1> HIDE DEF U
<1>6. U[0] = Step(U, 0)
  BY <1>5
<1>7. ASSUME NEW i \in 1 .. L PROVE U[i] = Step(U, i) /\ i # 0
  <2>1. i \in 0 .. L /\ i # 0
    OBVIOUS
  <2> HIDE DEF Step, L
  <2> QED BY <1>5, <2>1
<1> QED
  BY <1>6, <1>7 DEF U

\* A handler is put between two others, or at one of the ends.
LEMMA AddHookIsSeq ==
    ASSUME NEW S, NEW handlers \in Seq(S), NEW h \in S
    PROVE  AddHook(handlers, h) \in Seq(S)
<1> DEFINE later == {i \in DOMAIN handlers : handlers[i].priority > h.priority}
           at == IF later = {} THEN Len(handlers) + 1
                               ELSE CHOOSE i \in later : \A j \in later : i <= j
<1>1. at \in 1 .. Len(handlers) + 1
  <2>1. CASE later = {}
    BY <2>1
  <2>2. CASE later # {}
    <3>1. later \subseteq 1 .. Len(handlers) /\ later \subseteq Nat
      OBVIOUS
    <3>2. \E i \in later : \A j \in later : i <= j
      <4> HIDE DEF later
      <4> QED BY <2>2, <3>1, SmallestOf
    <3>3. at \in later
      <4> HIDE DEF later
      <4> QED BY <2>2, <3>2
    <3> HIDE DEF at
    <3> QED BY <3>1, <3>3
  <2> QED BY <2>1, <2>2
<1>2. AddHook(handlers, h) = InsertAt(handlers, at, h)
  BY DEF AddHook
<1> HIDE DEF at
<1>3. SubSeq(handlers, 1, at - 1) \in Seq(S) /\ SubSeq(handlers, at, Len(handlers)) \in Seq(S)
  BY <1>1
<1>4. << h >> \in Seq(S)
  OBVIOUS
<1> QED
  BY <1>2, <1>3, <1>4 DEF InsertAt

\* What is registered is a sequence of the handlers.
LEMMA RegisteredIsSeq ==
    ASSUME NEW S, NEW hs \in Seq(S)
    PROVE  Registered(hs) \in Seq(S)
<1> DEFINE L == Len(hs)
           U == RegisteredUpTo(hs)
           Good == {k \in 0 .. L : U[k] \in Seq(S)}
<1>0. L \in Nat
  OBVIOUS
<1>1. U[0] = << >> /\ \A i \in 1 .. L : U[i] = AddHook(U[i - 1], hs[i])
  BY RegisteredUpToDef
<1> HIDE DEF U
<1>2. 0 .. L \subseteq Good
  <2>1. 0 \in Good
    <3>1. << >> \in Seq(S) /\ 0 \in 0 .. L
      BY <1>0
    <3> QED BY <1>1, <3>1
  <2>2. ASSUME NEW k \in 1 .. L, k - 1 \in Good PROVE k \in Good
    <3>1. U[k - 1] \in Seq(S) /\ hs[k] \in S
      BY <2>2
    <3>2. U[k] = AddHook(U[k - 1], hs[k])
      BY <1>1
    <3>3. U[k] \in Seq(S)
      BY <3>1, <3>2, AddHookIsSeq
    <3> QED BY <3>3
  <2> HIDE DEF Good, L
  <2> QED BY <1>0, <2>1, <2>2, InductionOn
<1>3. L \in 0 .. L
  OBVIOUS
<1> QED
  BY <1>2, <1>3 DEF Registered, U
=============================================================================
