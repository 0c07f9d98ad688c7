--------------------------- MODULE PcshProofs ---------------------------
(***************************************************************************)
(* Proofs about Pcsh, for all constants that the named assumptions allow.  *)
(*                                                                         *)
(* MachineOK first: what a call, a return, the entry of a scope and an     *)
(* exception do to the path of calls and to the visitors they own; then    *)
(* the symbol tables' types; then the actions of the three passes, one     *)
(* lemma each; then the theorems about it.                                 *)
(*                                                                         *)
(* The other parts of PcshInv's invariant are inductive given MachineOK.   *)
(* TablesOK: the visitors alive have the type that their owners want, and  *)
(* the tables' entries only advance.  PassesOK: what the two passes of     *)
(* validate_tree have recorded is enough for every later evaluation.       *)
(***************************************************************************)
EXTENDS PcshInv, TLAPS, FiniteSetTheorems, WellFoundedInduction

-----------------------------------------------------------------------------
\* A set of positions of a sequence has a last one.
LEMMA LastPosition ==
  ASSUME NEW n \in Nat, NEW S, S \subseteq 1..n, S # {}
  PROVE  \E i \in S : \A j \in S : j <= i
<1> DEFINE T == {n - i : i \in S}
<1>1. T \subseteq Nat /\ T # {}
  <2>1. \A i \in S : n - i \in Nat
    OBVIOUS
  <2>2. T # {}
    <3>1. PICK i \in S : TRUE
      OBVIOUS
    <3> QED BY <3>1
  <2> QED BY <2>1, <2>2
<1>2. PICK t \in T : \A u \in T : ~ (<<u, t>> \in OpToRel(<, Nat))
  <2> HIDE DEF T
  <2> QED BY <1>1, NatLessThanWellFounded, WFMin
<1>3. PICK i \in S : t = n - i
  OBVIOUS
<1>4. ASSUME NEW j \in S PROVE j <= i
  <2>1. n - j \in T
    OBVIOUS
  <2>2. ~ (n - j < n - i)
    BY <1>2, <1>3, <2>1, <1>1 DEF OpToRel
  <2> QED BY <2>2
<1> QED BY <1>4

\* The accessor stops at a table that it may stop at, if there is one.
LEMMA NearestStops ==
  ASSUME NEW list \in Seq(Node), NEW x, NEW fe
  PROVE  /\ Stops(list, x, fe) = {} => Nearest(list, x, fe) = 0
         /\ Stops(list, x, fe) # {} => Nearest(list, x, fe) \in Stops(list, x, fe)
         /\ Nearest(list, x, fe) # 0 =>
              /\ Nearest(list, x, fe) \in DOMAIN list
              /\ Bound(list[Nearest(list, x, fe)], x)
<1> DEFINE S == Stops(list, x, fe)
<1>1. S \subseteq 1..Len(list) /\ Len(list) \in Nat /\ \A i \in S : i \in DOMAIN list /\ Bound(list[i], x)
  BY DEF Stops
<1>2. CASE S = {}
  BY <1>2 DEF Nearest
<1>3. CASE S # {}
  <2>1. \E i \in S : \A j \in S : j <= i
    <3> HIDE DEF S
    <3> QED BY <1>1, <1>3, LastPosition
  <2>2. Nearest(list, x, fe) \in S
    BY <1>3, <2>1 DEF Nearest
  <2> QED BY <1>1, <1>3, <2>2
<1> QED BY <1>2, <1>3

-----------------------------------------------------------------------------
(***************************************************************************)
(* The stack.                                                              *)
(***************************************************************************)
\* All of a sequence but its last element.
LEMMA FrontFacts ==
  ASSUME NEW S, NEW s \in Seq(S), s # << >>
  PROVE  /\ Len(s) \in Nat /\ Len(s) > 0
         /\ s[Len(s)] \in S
         /\ SubSeq(s, 1, Len(s) - 1) \in Seq(S)
         /\ Len(SubSeq(s, 1, Len(s) - 1)) = Len(s) - 1
         /\ \A i \in 1..(Len(s) - 1) : SubSeq(s, 1, Len(s) - 1)[i] = s[i]
<1>1. Len(s) \in Nat /\ Len(s) > 0 /\ \A i \in 1..Len(s) : s[i] \in S
  OBVIOUS
<1>2. SubSeq(s, 1, Len(s) - 1) \in Seq(S)
  BY <1>1
<1>3. Len(SubSeq(s, 1, Len(s) - 1)) = Len(s) - 1
  <2>1. \A n \in Nat : n > 0 => Len(SubSeq(s, 1, n - 1)) = n - 1
    OBVIOUS
  <2> QED BY <1>1, <2>1
<1>4. SubSeq(s, 1, Len(s) - 1) = [i \in 1..(Len(s) - 1) |-> s[1 + i - 1]]
  BY <1>1
<1>5. ASSUME NEW i \in 1..(Len(s) - 1)
      PROVE  SubSeq(s, 1, Len(s) - 1)[i] = s[i]
  BY <1>1, <1>4
<1>6. s[Len(s)] \in S
  BY <1>1
<1>7. \A i \in 1..(Len(s) - 1) : SubSeq(s, 1, Len(s) - 1)[i] = s[i]
  BY <1>5
<1> QED BY <1>1, <1>2, <1>3, <1>6, <1>7

\* A stack that is not empty has a top frame and a shorter stack below it.
LEMMA TopFacts ==
  ASSUME stk \in Seq(Frames), stk # << >>
  PROVE  /\ Len(stk) \in Nat /\ Len(stk) > 0
         /\ Top \in Frames /\ N \in Node
         /\ Below \in Seq(Frames) /\ Len(Below) = Len(stk) - 1
         /\ \A i \in 1..(Len(stk) - 1) : Below[i] = stk[i]
<1>1. Len(stk) \in Nat /\ Len(stk) > 0 /\ Top \in Frames
  BY FrontFacts DEF Top
<1>2. N \in Node
  BY <1>1 DEF N, Frames
<1>3. Below \in Seq(Frames) /\ Len(Below) = Len(stk) - 1
      /\ \A i \in 1..(Len(stk) - 1) : Below[i] = stk[i]
  BY FrontFacts DEF Below
<1> QED BY <1>1, <1>2, <1>3

\* The stack after a call of a child: the caller below, the callee on top.
LEMMA CallFacts ==
  ASSUME stk \in Seq(Frames), stk # << >>, nested \in Seq(Node),
         NEW k \in DOMAIN Kids[N], NEW v \in Int, NEW typed \in BOOLEAN, Call(k, v, typed)
  PROVE  /\ stk' \in Seq(Frames) /\ Len(stk') = Len(stk) + 1
         /\ \A i \in 1..(Len(stk) - 1) : stk'[i] = stk[i]
         /\ stk'[Len(stk)] = Later(Top.stage + 1, v)
         /\ stk'[Len(stk) + 1] = Frame(Kids[N][k], typed, nested)
<1> DEFINE caller == Later(Top.stage + 1, v)
           callee == Frame(Kids[N][k], typed, nested)
<1>1. caller \in Frames
  <2>1. Top \in Frames /\ N \in Node
    BY TopFacts
  <2>2. Top.stage + 1 \in Nat /\ Top.typed \in BOOLEAN /\ Top.scope \in Seq(Node)
    BY <2>1 DEF Frames
  <2> QED BY <2>1, <2>2 DEF Frames, Later
<1>2. callee \in Frames
  <2>1. N \in Node
    BY TopFacts
  <2>2. Kids[N] \in Seq(Node)
    BY <2>1, TreeAssumption
  <2>3. Kids[N][k] \in Node
    BY <2>2
  <2> QED BY <2>3 DEF Frames, Frame
<1>3. stk' = Append(Append(Below, caller), callee)
  BY DEF Call, Kid
<1> HIDE DEF caller, callee
<1>4. /\ stk' \in Seq(Frames) /\ Len(stk') = Len(stk) + 1
      /\ stk'[Len(stk)] = caller /\ stk'[Len(stk) + 1] = callee
      /\ \A i \in 1..(Len(stk) - 1) : stk'[i] = stk[i]
  BY <1>1, <1>2, <1>3, TopFacts
<1> QED BY <1>4 DEF caller, callee

\* The stack after a step without a call.
LEMMA GotoFacts ==
  ASSUME stk \in Seq(Frames), stk # << >>, NEW stage \in Nat, NEW v \in Int, Goto(stage, v)
  PROVE  /\ stk' \in Seq(Frames) /\ Len(stk') = Len(stk)
         /\ \A i \in 1..(Len(stk) - 1) : stk'[i] = stk[i]
         /\ stk'[Len(stk)] = Later(stage, v)
<1> DEFINE caller == Later(stage, v)
<1>1. caller \in Frames
  <2>1. Top \in Frames /\ N \in Node
    BY TopFacts
  <2>2. Top.typed \in BOOLEAN /\ Top.scope \in Seq(Node)
    BY <2>1 DEF Frames
  <2> QED BY <2>1, <2>2 DEF Frames, Later
<1>2. stk' = Append(Below, caller)
  BY DEF Goto
<1> HIDE DEF caller
<1>3. /\ stk' \in Seq(Frames) /\ Len(stk') = Len(stk)
      /\ stk'[Len(stk)] = caller
      /\ \A i \in 1..(Len(stk) - 1) : stk'[i] = stk[i]
  BY <1>1, <1>2, TopFacts
<1> QED BY <1>3 DEF caller

\* The stack after a return.
LEMMA ReturnFacts ==
  ASSUME stk \in Seq(Frames), stk # << >>, Return
  PROVE  /\ stk' \in Seq(Frames) /\ Len(stk') = Len(stk) - 1
         /\ \A i \in 1..(Len(stk) - 1) : stk'[i] = stk[i]
BY TopFacts DEF Return

-----------------------------------------------------------------------------
(***************************************************************************)
(* PathOK: what a step does to the stack and to the accessor's list.       *)
(***************************************************************************)

\* A call that goes on is still a frame, of the same node and scope.
LEMMA LaterFacts ==
  ASSUME NEW stage, NEW v
  PROVE  /\ Later(stage, v).n = N /\ Later(stage, v).scope = Top.scope
         /\ Later(stage, v).typed = Top.typed
         /\ Later(stage, v).stage = stage /\ Later(stage, v).local = v
BY DEF Later

\* A new call is a frame at its first stage.
LEMMA FrameFacts ==
  ASSUME NEW n, NEW typed, NEW scope
  PROVE  /\ Frame(n, typed, scope).n = n /\ Frame(n, typed, scope).scope = scope
         /\ Frame(n, typed, scope).typed = typed
         /\ Frame(n, typed, scope).stage = 0 /\ Frame(n, typed, scope).local = 0
BY DEF Frame

\* accept on a child extends the path of calls by one.
LEMMA CallKeepsPath ==
  ASSUME stk \in Seq(Frames), stk # << >>, nested \in Seq(Node), PathOK,
         NEW k \in DOMAIN Kids[N], NEW v \in Int, NEW typed \in BOOLEAN,
         Call(k, v, typed), UNCHANGED <<root, phase, nested>>,
         Called(Later(Top.stage + 1, v)) = k,
         Kind[N] = "block" => Top.stage > 0,
         typed => Kind[Kids[N][k]] \in ExprKinds
  PROVE  PathOK'
<1> DEFINE L == Len(stk)
           f == Later(Top.stage + 1, v)
           g == Frame(Kids[N][k], typed, nested)
<1>1. L \in Nat /\ L > 0 /\ Top = stk[L] /\ Top \in Frames /\ N = Top.n
  BY TopFacts DEF Top, N
<1>2. f.n = Top.n /\ f.scope = Top.scope /\ f.typed = Top.typed /\ f.stage > 0
  <2>1. Top.stage \in Nat
    BY <1>1 DEF Frames
  <2> QED BY <2>1, <1>1, LaterFacts
<1>3. g.n = Kids[f.n][k] /\ g.scope = nested /\ g.typed = typed /\ g.stage = 0
  BY <1>1, <1>2, FrameFacts
<1>4. /\ Len(stk') = L + 1 /\ stk'[L] = f /\ stk'[L + 1] = g
      /\ \A i \in 1..(L - 1) : stk'[i] = stk[i]
  BY CallFacts
<1>5. Called(f) = k /\ k \in DOMAIN Kids[f.n]
  BY <1>1, <1>2
<1> HIDE DEF f, g
<1>6. Top' = g
  BY <1>1, <1>4 DEF Top
<1>7. stk' # << >> /\ stk[1].n = root /\ stk[1].scope = << >> /\ nested = Inside(Top)
  BY <1>1, <1>4 DEF PathOK
<1>8. Inside(f) = nested
  BY <1>1, <1>2, <1>7 DEF Inside
<1>9. stk'[1].n = root' /\ stk'[1].scope = << >>
  BY <1>1, <1>2, <1>4, <1>7
<1>10. nested' = Inside(Top)'
  BY <1>3, <1>6 DEF Inside
<1>11. ASSUME NEW i \in 2..Len(stk')
       PROVE  Calls(stk[i - 1], stk[i])'
  <2>1. CASE i < L
    <3>1. stk'[i - 1] = stk[i - 1] /\ stk'[i] = stk[i] /\ Calls(stk[i - 1], stk[i])
      BY <1>1, <1>4, <2>1 DEF PathOK
    <3> QED BY <3>1 DEF Calls, Called, Inside
  <2>2. CASE i = L
    <3>1. stk'[i - 1] = stk[i - 1] /\ stk'[i] = f /\ Calls(stk[i - 1], Top)
      BY <1>1, <1>4, <2>2 DEF PathOK
    <3> QED BY <1>2, <3>1 DEF Calls, Called, Inside
  <2>3. CASE i = L + 1
    <3>1. stk'[i - 1] = f /\ stk'[i] = g
      BY <1>1, <1>4, <2>3
    <3> QED BY <1>2, <1>3, <1>5, <1>8, <3>1 DEF Calls, Called, Inside
  <2> QED BY <1>1, <1>4, <2>1, <2>2, <2>3
<1>12. ASSUME NEW i \in 1..Len(stk')
       PROVE  /\ Kind[stk'[i].n] # "block" => stk'[i].scope # << >>
              /\ stk'[i].typed => Kind[stk'[i].n] \in ExprKinds
  <2>1. CASE i < L
    BY <1>1, <1>4, <2>1 DEF PathOK
  <2>2. CASE i = L
    BY <1>1, <1>2, <1>4, <2>2 DEF PathOK
  <2>3. CASE i = L + 1
    <3>1. Kind[f.n] = "block" => nested # << >>
      <4>1. Kind[f.n] = "block" => nested = Append(f.scope, f.n)
        BY <1>2, <1>8 DEF Inside
      <4>2. f.scope \in Seq(Node) /\ f.n \in Node
        BY <1>1, <1>2 DEF Frames
      <4> QED BY <4>1, <4>2
    <3>2. Kind[f.n] # "block" => nested # << >>
      BY <1>1, <1>2, <1>7 DEF PathOK, Inside
    <3> QED BY <1>1, <1>2, <1>3, <1>4, <2>3, <3>1, <3>2
  <2> QED BY <1>1, <1>4, <2>1, <2>2, <2>3
<1> QED BY <1>7, <1>9, <1>10, <1>11, <1>12 DEF PathOK

\* Entering a block's scope keeps the path: the accessor's list now ends in
\* the block.
LEMMA EnterKeepsPath ==
  ASSUME stk \in Seq(Frames), stk # << >>, nested \in Seq(Node), PathOK,
         NEW v \in Int, EnterScope(v), UNCHANGED <<root, phase>>
  PROVE  PathOK'
<1> DEFINE L == Len(stk)
           f == Later(1, v)
<1>1. L \in Nat /\ L > 0 /\ Top = stk[L] /\ Top \in Frames /\ N = Top.n
  BY TopFacts DEF Top, N
<1>2. f.n = Top.n /\ f.scope = Top.scope /\ f.typed = Top.typed /\ f.stage = 1
  BY <1>1, LaterFacts
<1>3. /\ Len(stk') = L /\ stk'[L] = f
      /\ \A i \in 1..(L - 1) : stk'[i] = stk[i]
  BY GotoFacts DEF EnterScope
<1> HIDE DEF f
<1>4. Kind[N] = "block" /\ Top.stage = 0
  BY DEF EnterScope, Running
<1>5. stk[1].n = root /\ stk[1].scope = << >> /\ nested = Top.scope
  BY <1>1, <1>4 DEF PathOK, Inside
<1>6. stk' # << >> /\ Top' = f
  BY <1>1, <1>3 DEF Top
<1>7. stk'[1].n = root' /\ stk'[1].scope = << >>
  BY <1>1, <1>2, <1>3, <1>5
<1>8. nested' = Inside(Top)'
  BY <1>1, <1>2, <1>4, <1>5, <1>6 DEF Inside, EnterScope
<1>9. ASSUME NEW i \in 2..Len(stk')
      PROVE  Calls(stk[i - 1], stk[i])'
  <2>1. stk'[i - 1] = stk[i - 1] /\ Calls(stk[i - 1], stk[i])
    BY <1>1, <1>3 DEF PathOK
  <2>2. stk'[i].n = stk[i].n /\ stk'[i].scope = stk[i].scope
    BY <1>1, <1>2, <1>3
  <2> QED BY <2>1, <2>2 DEF Calls, Called, Inside
<1>10. ASSUME NEW i \in 1..Len(stk')
       PROVE  /\ Kind[stk'[i].n] # "block" => stk'[i].scope # << >>
              /\ stk'[i].typed => Kind[stk'[i].n] \in ExprKinds
  <2>1. stk'[i].n = stk[i].n /\ stk'[i].scope = stk[i].scope /\ stk'[i].typed = stk[i].typed
    BY <1>1, <1>2, <1>3
  <2> QED BY <1>1, <1>3, <2>1 DEF PathOK
<1> QED BY <1>6, <1>7, <1>8, <1>9, <1>10 DEF PathOK

\* A return leaves the path of the callers, with the scope they called in.
LEMMA ReturnKeepsPath ==
  ASSUME stk \in Seq(Frames), stk # << >>, nested \in Seq(Node), PathOK,
         Return, UNCHANGED <<root, phase>>, nested' = Top.scope
  PROVE  PathOK'
<1> DEFINE L == Len(stk)
<1>1. L \in Nat /\ L > 0 /\ Top = stk[L] /\ Top \in Frames /\ N = Top.n
  BY TopFacts DEF Top, N
<1>2. /\ stk' \in Seq(Frames) /\ Len(stk') = L - 1
      /\ \A i \in 1..(L - 1) : stk'[i] = stk[i]
  BY ReturnFacts
<1>3. stk[1].n = root /\ stk[1].scope = << >>
  BY <1>1 DEF PathOK
<1>4. CASE L = 1
  <2>1. stk' = << >> /\ nested' = << >>
    BY <1>1, <1>2, <1>3, <1>4
  <2> QED BY <2>1, <1>2, <1>4 DEF PathOK
<1>5. CASE L > 1
  <2>1. stk' # << >> /\ Top' = stk[L - 1] /\ stk'[1] = stk[1]
    BY <1>1, <1>2, <1>5 DEF Top
  <2>2. nested' = Inside(Top)'
    <3>1. Calls(stk[L - 1], Top)
      <4>1. L \in 2..Len(stk)
        BY <1>1, <1>5
      <4>2. \A i \in 2..Len(stk) : Calls(stk[i - 1], stk[i])
        BY DEF PathOK
      <4> QED BY <1>1, <4>1, <4>2
    <3> QED BY <2>1, <3>1 DEF Calls, Inside
  <2>3. ASSUME NEW i \in 2..Len(stk')
        PROVE  Calls(stk[i - 1], stk[i])'
    <3>1. i \in 2..Len(stk) /\ i \in 1..(L - 1) /\ i - 1 \in 1..(L - 1)
      BY <1>1, <1>2
    <3>2. stk'[i - 1] = stk[i - 1] /\ stk'[i] = stk[i] /\ Calls(stk[i - 1], stk[i])
      BY <1>2, <3>1 DEF PathOK
    <3> QED BY <3>2 DEF Calls, Called, Inside
  <2>4. ASSUME NEW i \in 1..Len(stk')
        PROVE  /\ Kind[stk'[i].n] # "block" => stk'[i].scope # << >>
               /\ stk'[i].typed => Kind[stk'[i].n] \in ExprKinds
    BY <1>1, <1>2 DEF PathOK
  <2> QED BY <1>3, <2>1, <2>2, <2>3, <2>4 DEF PathOK
<1>6. L = 1 \/ L > 1
  <2>1. L \in Nat /\ L > 0
    BY <1>1
  <2> HIDE DEF L
  <2> QED BY <2>1
<1> QED BY <1>4, <1>5, <1>6

\* A call that is not of a block has the accessor's list that is current.
LEMMA ScopeFacts ==
  ASSUME stk \in Seq(Frames), stk # << >>, nested \in Seq(Node), PathOK
  PROVE  /\ Kind[N] # "block" => nested = Top.scope /\ nested # << >> /\ Len(stk) > 1
         /\ Kind[N] = "block" /\ Top.stage > 0 =>
              nested = Append(Top.scope, N) /\ SubSeq(nested, 1, Len(nested) - 1) = Top.scope
<1>1. Len(stk) \in Nat /\ Len(stk) > 0 /\ Top = stk[Len(stk)] /\ Top \in Frames /\ N = Top.n /\ N \in Node
  BY TopFacts DEF Top, N
<1>2. nested = Inside(Top) /\ stk[1].scope = << >>
  BY <1>1 DEF PathOK
<1>3. ASSUME Kind[N] # "block"
      PROVE  nested = Top.scope /\ nested # << >> /\ Len(stk) > 1
  BY <1>1, <1>2, <1>3 DEF Inside, PathOK
<1>4. ASSUME Kind[N] = "block", Top.stage > 0
      PROVE  nested = Append(Top.scope, N) /\ SubSeq(nested, 1, Len(nested) - 1) = Top.scope
  <2>1. nested = Append(Top.scope, N)
    BY <1>1, <1>2, <1>4 DEF Inside
  <2>2. Top.scope \in Seq(Node)
    BY <1>1 DEF Frames
  <2>3. SubSeq(Append(Top.scope, N), 1, Len(Append(Top.scope, N)) - 1) = Top.scope
    BY <1>1, <2>2
  <2> QED BY <2>1, <2>3
<1> QED BY <1>3, <1>4

-----------------------------------------------------------------------------
(***************************************************************************)
(* VisitorsOK: what a step does to the number of owners.                   *)
(***************************************************************************)
One(b) == IF b THEN 1 ELSE 0

\* Two sets that differ at most in l.
LEMMA Recount ==
  ASSUME NEW S, NEW T, NEW l, IsFiniteSet(S), S \ {l} = T \ {l}
  PROVE  /\ IsFiniteSet(T) /\ Cardinality(S) \in Nat /\ Cardinality(T) \in Nat
         /\ Cardinality(T) = Cardinality(S) + One(l \in T) - One(l \in S)
<1>1. IsFiniteSet(S \ {l}) /\ Cardinality(S) \in Nat
      /\ Cardinality(S \ {l}) = Cardinality(S) - One(l \in S)
  <2>1. /\ IsFiniteSet(S \ {l})
        /\ Cardinality(S \ {l}) = IF l \in S THEN Cardinality(S) - 1 ELSE Cardinality(S)
    BY FS_RemoveElement
  <2>2. Cardinality(S) \in Nat
    BY FS_CardinalityType
  <2> QED BY <2>1, <2>2 DEF One
<1>2. IsFiniteSet(T)
  <2>1. IsFiniteSet((S \ {l}) \cup {l})
    BY <1>1, FS_AddElement
  <2>2. T \subseteq (S \ {l}) \cup {l}
    OBVIOUS
  <2> QED BY <2>1, <2>2, FS_Subset
<1>3. Cardinality(T) \in Nat /\ Cardinality(T \ {l}) = Cardinality(T) - One(l \in T)
  <2>1. Cardinality(T \ {l}) = IF l \in T THEN Cardinality(T) - 1 ELSE Cardinality(T)
    BY <1>2, FS_RemoveElement
  <2>2. Cardinality(T) \in Nat
    BY <1>2, FS_CardinalityType
  <2> QED BY <2>1, <2>2 DEF One
<1>4. One(l \in S) \in Int /\ One(l \in T) \in Int
  BY DEF One
<1> DEFINE s == Cardinality(S)
           t == Cardinality(T)
           u == Cardinality(T \ {l})
           a == One(l \in S)
           b == One(l \in T)
<1>5. s \in Nat /\ t \in Nat /\ a \in Int /\ b \in Int /\ u = s - a /\ u = t - b
  BY <1>1, <1>3, <1>4
<1> HIDE DEF s, t, u, a, b
<1>6. t = s + b - a
  BY <1>5
<1> QED BY <1>2, <1>5, <1>6 DEF s, t, a, b

\* There are finitely many owners of visitors.
LEMMA OwnersFinite ==
  ASSUME stk \in Seq(Frames)
  PROVE  IsFiniteSet(Owners) /\ Cardinality(Owners) \in Nat
<1>1. Len(stk) \in Int
  OBVIOUS
<1>2. IsFiniteSet(1..Len(stk))
  BY <1>1, FS_Interval
<1>3. Owners \subseteq 1..Len(stk)
  BY DEF Owners
<1> QED BY <1>2, <1>3, FS_Subset, FS_CardinalityType

\* A step that changes the call on top, and its owning a visitor, but none below.
TopOnly ==
  /\ Owners \subseteq 1..Len(stk) /\ Owners' \subseteq 1..Len(stk)
  /\ Owners' \ {Len(stk)} = Owners \ {Len(stk)}
  /\ Len(stk) \in Owners <=> Owns(Top)
  /\ \A i \in Owners' : stk'[i].n = stk[i].n /\ stk'[i].scope = stk[i].scope

\* A call adds no owner but the caller itself, if it becomes one by calling.
LEMMA CallTopOnly ==
  ASSUME stk \in Seq(Frames), stk # << >>, nested \in Seq(Node),
         NEW k \in DOMAIN Kids[N], NEW v \in Int, NEW typed \in BOOLEAN, Call(k, v, typed)
  PROVE  TopOnly /\ (Len(stk) \in Owners' <=> Owns(Later(Top.stage + 1, v)))
<1> DEFINE L == Len(stk)
<1>1. L \in Nat /\ L > 0 /\ Top = stk[L]
  BY TopFacts DEF Top
<1>2. /\ Len(stk') = L + 1
      /\ \A i \in 1..(L - 1) : stk'[i] = stk[i]
      /\ stk'[L] = Later(Top.stage + 1, v)
      /\ stk'[L + 1] = Frame(Kids[N][k], typed, nested)
  BY CallFacts
<1>3. ~Owns(Frame(Kids[N][k], typed, nested))
  BY FrameFacts DEF Owns
<1> DEFINE S == Owners
           T == Owners'
<1>4. S = {i \in 1..L : Owns(stk[i])} /\ T = {i \in 1..(L + 1) : Owns(stk'[i])}
  BY <1>2 DEF Owners, Owns
<1>5. Later(Top.stage + 1, v).n = stk[L].n /\ Later(Top.stage + 1, v).scope = stk[L].scope
  BY <1>1, LaterFacts DEF N
<1> HIDE DEF L, S, T
<1>6. L + 1 \notin T
  BY <1>1, <1>2, <1>3, <1>4
<1>7. \A i \in 1..(L - 1) : i \in S <=> i \in T
  BY <1>1, <1>2, <1>4
<1>8. S \subseteq 1..L /\ T \subseteq 1..L
  <2>1. \A i \in 1..(L + 1) : i # L + 1 => i \in 1..L
    BY <1>1
  <2>2. S \subseteq 1..L /\ T \subseteq 1..(L + 1)
    BY <1>4, Zenon
  <2>3. ASSUME NEW i \in T PROVE i \in 1..L
    <3>1. i \in 1..(L + 1) /\ i # L + 1
      BY <1>6, <2>2, Zenon
    <3> QED BY <2>1, <3>1, Zenon
  <2> QED BY <2>2, <2>3, Zenon
<1>9. T \ {L} = S \ {L}
  <2>1. \A i \in 1..L : i # L => i \in 1..(L - 1)
    BY <1>1
  <2>2. \A i \in 1..L : i # L => (i \in S <=> i \in T)
    BY <1>7, <2>1, Zenon
  <2> QED BY <1>8, <2>2, Zenon
<1>10. (L \in S <=> Owns(Top)) /\ (L \in T <=> Owns(Later(Top.stage + 1, v)))
  <2>1. L \in 1..L /\ L \in 1..(L + 1)
    BY <1>1
  <2> QED BY <1>1, <1>2, <1>4, <2>1
<1>11. ASSUME NEW i \in T PROVE stk'[i].n = stk[i].n /\ stk'[i].scope = stk[i].scope
  <2>1. i = L \/ i \in 1..(L - 1)
    BY <1>1, <1>8
  <2> QED BY <1>2, <1>5, <2>1
<1> QED BY <1>8, <1>9, <1>10, <1>11 DEF TopOnly, L, S, T

\* So the number of owners changes by at most the call on top.
LEMMA TopOnlyOwners ==
  ASSUME stk \in Seq(Frames), TopOnly
  PROVE  /\ Cardinality(Owners) \in Nat
         /\ Cardinality(Owners)' =
              Cardinality(Owners) + One(Len(stk) \in Owners') - One(Len(stk) \in Owners)
BY OwnersFinite, Recount DEF TopOnly

\* ... for a call,
LEMMA CallOwners ==
  ASSUME stk \in Seq(Frames), stk # << >>, nested \in Seq(Node),
         NEW k \in DOMAIN Kids[N], NEW v \in Int, NEW typed \in BOOLEAN, Call(k, v, typed)
  PROVE  Cardinality(Owners)' =
           Cardinality(Owners) + One(Owns(Later(Top.stage + 1, v))) - One(Owns(Top))
<1>1. /\ TopOnly /\ (Len(stk) \in Owners' <=> Owns(Later(Top.stage + 1, v)))
      /\ Len(stk) \in Owners <=> Owns(Top)
  BY CallTopOnly DEF TopOnly
<1> QED BY <1>1, TopOnlyOwners DEF One

\* A block owns its typed_interpreter<void> from when its scope is entered.
LEMMA EnterTopOnly ==
  ASSUME stk \in Seq(Frames), stk # << >>, NEW v \in Int, EnterScope(v)
  PROVE  TopOnly /\ Len(stk) \in Owners' /\ Len(stk) \notin Owners
<1> DEFINE L == Len(stk)
<1>1. L \in Nat /\ L > 0 /\ Top = stk[L] /\ Top \in Frames /\ N = Top.n
  BY TopFacts DEF Top, N
<1>2. /\ Len(stk') = L /\ stk'[L] = Later(1, v)
      /\ \A i \in 1..(L - 1) : stk'[i] = stk[i]
  BY GotoFacts DEF EnterScope
<1>3. ~Owns(Top) /\ Owns(Later(1, v)) /\ Later(1, v).n = stk[L].n /\ Later(1, v).scope = stk[L].scope
  BY <1>1, LaterFacts DEF EnterScope, Running, Owns
<1> DEFINE S == Owners
           T == Owners'
<1>4. S = {i \in 1..L : Owns(stk[i])} /\ T = {i \in 1..L : Owns(stk'[i])}
  BY <1>2 DEF Owners, Owns
<1> HIDE DEF L, S, T
<1>5. T \ {L} = S \ {L} /\ L \notin S /\ L \in T /\ S \subseteq 1..L /\ T \subseteq 1..L
  BY <1>1, <1>2, <1>3, <1>4
<1>6. ASSUME NEW i \in T PROVE stk'[i].n = stk[i].n /\ stk'[i].scope = stk[i].scope
  <2>1. i = L \/ i \in 1..(L - 1)
    BY <1>1, <1>5
  <2> QED BY <1>2, <1>3, <2>1
<1> QED BY <1>3, <1>5, <1>6 DEF TopOnly, L, S, T

LEMMA EnterOwners ==
  ASSUME stk \in Seq(Frames), stk # << >>, NEW v \in Int, EnterScope(v)
  PROVE  Cardinality(Owners)' = Cardinality(Owners) + 1
BY EnterTopOnly, TopOnlyOwners DEF One

\* A return removes the returning call from the owners.
LEMMA ReturnTopOnly ==
  ASSUME stk \in Seq(Frames), stk # << >>, Return
  PROVE  TopOnly /\ Len(stk) \notin Owners'
<1> DEFINE L == Len(stk)
<1>1. L \in Nat /\ L > 0 /\ Top = stk[L]
  BY TopFacts DEF Top
<1>2. Len(stk') = L - 1 /\ \A i \in 1..(L - 1) : stk'[i] = stk[i]
  BY ReturnFacts
<1> DEFINE S == Owners
           T == Owners'
<1>3. S = {i \in 1..L : Owns(stk[i])} /\ T = {i \in 1..(L - 1) : Owns(stk'[i])}
  BY <1>2 DEF Owners, Owns
<1> HIDE DEF L, S, T
<1>4. /\ T \ {L} = S \ {L} /\ L \notin T /\ (L \in S <=> Owns(Top))
      /\ S \subseteq 1..L /\ T \subseteq 1..L
      /\ \A i \in T : stk'[i].n = stk[i].n /\ stk'[i].scope = stk[i].scope
  BY <1>1, <1>2, <1>3
<1> QED BY <1>4 DEF TopOnly, L, S, T

LEMMA ReturnOwners ==
  ASSUME stk \in Seq(Frames), stk # << >>, Return
  PROVE  Cardinality(Owners)' = Cardinality(Owners) - One(Owns(Top))
<1>1. TopOnly /\ Len(stk) \notin Owners' /\ (Len(stk) \in Owners <=> Owns(Top))
  BY ReturnTopOnly DEF TopOnly
<1> QED BY <1>1, TopOnlyOwners DEF One

\* Inside a block there is one owner, and above another owner two.
LEMMA EnoughOwners ==
  ASSUME stk \in Seq(Frames), stk # << >>, PathOK, Kind[root] = "block"
  PROVE  /\ Kind[N] # "block" => Cardinality(Owners) >= 1
         /\ Kind[N] # "block" /\ Owns(Top) => Cardinality(Owners) >= 2
         /\ Kind[N] = "block" /\ Top.stage > 0 => Cardinality(Owners) >= 1
<1> DEFINE L == Len(stk)
<1>1. L \in Nat /\ L > 0 /\ Top = stk[L] /\ N = Top.n
  BY TopFacts DEF Top, N
<1>2. IsFiniteSet(Owners) /\ Cardinality(Owners) \in Nat
  BY OwnersFinite
<1>3. Cardinality({1}) = 1 /\ IsFiniteSet({1})
  BY FS_Singleton
<1>4. ASSUME Kind[N] # "block"
      PROVE  1 \in Owners /\ L # 1
  <2>1. stk[1].n = root
    BY <1>1 DEF PathOK
  <2>2. L # 1
    BY <1>1, <1>4, <2>1
  <2>3. 2 \in 2..L
    <3> HIDE DEF L
    <3> QED BY <1>1, <2>2
  <2>4. Calls(stk[2 - 1], stk[2])
    BY <2>3 DEF PathOK
  <2>5. stk[1].stage > 0
    BY <2>4 DEF Calls
  <2> QED BY <1>1, <2>1, <2>2, <2>5 DEF Owners, Owns
<1>5. ASSUME Kind[N] # "block"
      PROVE  Cardinality(Owners) >= 1
  <2>1. {1} \in SUBSET Owners
    BY <1>4, <1>5
  <2> QED BY <1>2, <1>3, <2>1, FS_Subset
<1>6. ASSUME Kind[N] # "block", Owns(Top)
      PROVE  Cardinality(Owners) >= 2
  <2>1. L \in Owners
    BY <1>1, <1>6 DEF Owners
  <2>2. {1} \cup {L} \in SUBSET Owners
    BY <1>4, <1>6, <2>1
  <2>3. Cardinality({1} \cup {L}) = 2
    <3>1. L \notin {1}
      BY <1>4, <1>6
    <3> HIDE DEF L
    <3>2. Cardinality({1} \cup {L}) = IF L \in {1} THEN Cardinality({1}) ELSE Cardinality({1}) + 1
      BY <1>3, FS_AddElement, Zenon
    <3>3. Cardinality({1} \cup {L}) = 1 + 1
      BY <1>3, <3>1, <3>2, Zenon
    <3> QED BY <3>3
  <2>4. Cardinality({1} \cup {L}) <= Cardinality(Owners)
    BY <1>2, <2>2, FS_Subset, Zenon
  <2>5. 2 <= Cardinality(Owners)
    BY <2>3, <2>4, Zenon
  <2> QED
    <3> HIDE DEF L
    <3>1. \A c \in Nat : 2 <= c => c >= 2
      OBVIOUS
    <3> QED BY <1>2, <2>5, <3>1, Zenon
<1>7. ASSUME Kind[N] = "block", Top.stage > 0
      PROVE  Cardinality(Owners) >= 1
  <2>1. {L} \in SUBSET Owners
    BY <1>1, <1>7 DEF Owners, Owns
  <2>2. Cardinality({L}) = 1
    BY FS_Singleton
  <2> QED BY <1>2, <2>1, <2>2, FS_Subset
<1> QED BY <1>5, <1>6, <1>7

-----------------------------------------------------------------------------
(***************************************************************************)
(* The steps that the passes are made of.                                  *)
(***************************************************************************)
StackOK == /\ root \in Root
           /\ stk \in Seq(Frames) /\ nested \in Seq(Node)
           /\ PathOK /\ SavedOK

\* The children that a node other than a block has.
LEMMA KidFacts ==
  ASSUME stk \in Seq(Frames), stk # << >>
  PROVE  /\ Kind[N] \in NodeKinds /\ Kids[N] \in Seq(Node) /\ Var[N] \in Name /\ Lit[N] \in Int
         /\ Kind[N] # "block" => DOMAIN Kids[N] = 1..Arity(Kind[N])
         /\ Kind[N] \in ExprKinds => \A k \in DOMAIN Kids[N] : Kind[Kids[N][k]] \in ExprKinds
         /\ Kind[N] = "if_stmt" => Kind[Kids[N][1]] \in ExprKinds
         /\ Top.stage \in Nat /\ Top.local \in Int /\ Top.typed \in BOOLEAN /\ Top.scope \in Seq(Node)
<1>1. N \in Node /\ Top \in Frames
  BY TopFacts
<1>2. Kind[N] \in NodeKinds /\ Kids[N] \in Seq(Node) /\ Var[N] \in Name /\ Lit[N] \in Int
  BY <1>1, TreeAssumption
<1>3. Kind[N] # "block" => DOMAIN Kids[N] = 1..Arity(Kind[N])
  <2>1. Kind[N] # "block" => Len(Kids[N]) = Arity(Kind[N])
    BY <1>1, TreeAssumption
  <2>2. DOMAIN Kids[N] = 1..Len(Kids[N])
    BY <1>2
  <2> QED BY <2>1, <2>2
<1>4. /\ Kind[N] \in ExprKinds => \A k \in DOMAIN Kids[N] : Kind[Kids[N][k]] \in ExprKinds
      /\ Kind[N] = "if_stmt" => Kind[Kids[N][1]] \in ExprKinds
  BY <1>1, TreeAssumption
<1>5. Top.stage \in Nat /\ Top.local \in Int /\ Top.typed \in BOOLEAN /\ Top.scope \in Seq(Node)
  BY <1>1 DEF Frames
<1> QED BY <1>2, <1>3, <1>4, <1>5

\* A root is a block.
LEMMA RootFacts ==
  ASSUME root \in Root
  PROVE  Kind[root] = "block" /\ root \in Node
BY TreeAssumption

\* A call of a child keeps the stack in order.
LEMMA CallStep ==
  ASSUME StackOK, stk # << >>,
         NEW k \in DOMAIN Kids[N], NEW v \in Int, NEW typed \in BOOLEAN,
         Call(k, v, typed), UNCHANGED <<root, phase, nested>>,
         Called(Later(Top.stage + 1, v)) = k,
         Kind[N] = "block" => Top.stage > 0 /\ v = Top.local,
         typed => Kind[Kids[N][k]] \in ExprKinds
  PROVE  StackOK'
<1>1. PathOK'
  BY CallKeepsPath DEF StackOK
<1>2. /\ stk' \in Seq(Frames) /\ Len(stk') = Len(stk) + 1
      /\ \A i \in 1..(Len(stk) - 1) : stk'[i] = stk[i]
      /\ stk'[Len(stk)] = Later(Top.stage + 1, v)
      /\ stk'[Len(stk) + 1] = Frame(Kids[N][k], typed, nested)
  BY CallFacts DEF StackOK
<1>3. ASSUME phase' = "check", NEW i \in 1..Len(stk'), Kind[stk'[i].n] = "block", stk'[i].stage > 0
      PROVE  stk'[i].local \in TableTypes
  <2> DEFINE L == Len(stk)
  <2>1. L \in Nat /\ L > 0 /\ Top = stk[L] /\ N = Top.n
    BY TopFacts DEF Top, N, StackOK
  <2>2. \A j \in 1..L : Kind[stk[j].n] = "block" /\ stk[j].stage > 0 => stk[j].local \in TableTypes
    BY <1>3 DEF StackOK, SavedOK
  <2>3. i \in 1..(L - 1) \/ i = L \/ i = L + 1
    <3>1. i \in 1..(L + 1)
      BY <1>2
    <3> HIDE DEF L
    <3> QED BY <2>1, <3>1
  <2>4. CASE i \in 1..(L - 1)
    <3>1. stk'[i] = stk[i] /\ i \in 1..L
      BY <1>2, <2>1, <2>4
    <3> QED BY <1>3, <2>2, <3>1
  <2>5. CASE i = L
    <3>1. stk'[i].n = N /\ stk'[i].local = v
      BY <1>2, <2>5, LaterFacts
    <3>2. Kind[Top.n] = "block" /\ Top.stage > 0 /\ stk'[i].local = Top.local
      BY <1>3, <2>1, <3>1
    <3> QED BY <2>1, <2>2, <3>2
  <2>6. CASE i = L + 1
    BY <1>2, <1>3, <2>6, FrameFacts
  <2> QED BY <2>3, <2>4, <2>5, <2>6
<1>4. root' \in Root /\ nested' \in Seq(Node)
  BY DEF StackOK
<1> QED BY <1>1, <1>2, <1>3, <1>4 DEF StackOK, SavedOK

\* A call of a node other than a block returns.
LEMMA ReturnStep ==
  ASSUME StackOK, stk # << >>, Kind[N] # "block", Return, UNCHANGED <<root, phase, nested>>
  PROVE  StackOK'
<1>1. nested' = Top.scope
  BY ScopeFacts DEF StackOK
<1>2. PathOK'
  BY <1>1, ReturnKeepsPath DEF StackOK
<1>3. stk' \in Seq(Frames) /\ Len(stk') = Len(stk) - 1
      /\ \A i \in 1..(Len(stk) - 1) : stk'[i] = stk[i]
  BY ReturnFacts DEF StackOK
<1>4. SavedOK'
  <2>1. Len(stk) \in Nat
    BY DEF StackOK
  <2> QED BY <1>3, <2>1 DEF StackOK, SavedOK
<1> QED BY <1>2, <1>3, <1>4 DEF StackOK

\* Entering a scope keeps the stack's invariant.
LEMMA EnterStep ==
  ASSUME StackOK, stk # << >>, NEW v \in Int, EnterScope(v), UNCHANGED <<root, phase>>,
         phase = "check" => v \in TableTypes
  PROVE  StackOK' /\ Cardinality(Owners)' = Cardinality(Owners) + 1
<1>1. PathOK' /\ Cardinality(Owners)' = Cardinality(Owners) + 1
  BY EnterKeepsPath, EnterOwners DEF StackOK
<1> DEFINE L == Len(stk)
<1>2. L \in Nat /\ L > 0 /\ N \in Node
  BY TopFacts DEF StackOK
<1>3. /\ stk' \in Seq(Frames) /\ Len(stk') = L
      /\ \A i \in 1..(L - 1) : stk'[i] = stk[i]
      /\ stk'[L] = Later(1, v)
  BY GotoFacts DEF StackOK, EnterScope
<1>4. ASSUME phase' = "check", NEW i \in 1..Len(stk'), Kind[stk'[i].n] = "block", stk'[i].stage > 0
      PROVE  stk'[i].local \in TableTypes
  <2>1. CASE i = L
    BY <1>3, <1>4, <2>1, LaterFacts
  <2>2. CASE i \in 1..(L - 1)
    BY <1>2, <1>3, <1>4, <2>2 DEF StackOK, SavedOK
  <2>3. i = L \/ i \in 1..(L - 1)
    <3>1. i \in 1..L
      BY <1>3
    <3> HIDE DEF L
    <3> QED BY <1>2, <3>1
  <2> QED BY <2>1, <2>2, <2>3
<1>5. nested' \in Seq(Node)
  BY <1>2 DEF EnterScope, StackOK
<1> QED BY <1>1, <1>3, <1>4, <1>5 DEF StackOK, SavedOK

\* Visiting the next statement of a block keeps the stack's invariant.
LEMMA StatementStep ==
  ASSUME StackOK, NextStatement, UNCHANGED <<root, phase>>
  PROVE  StackOK' /\ Cardinality(Owners)' = Cardinality(Owners)
<1>1. /\ stk # << >> /\ Kind[N] = "block" /\ Top.stage \in 1..Len(Kids[N])
      /\ Call(Top.stage, Top.local, FALSE) /\ nested' = nested
  BY DEF NextStatement
<1>2. Kids[N] \in Seq(Node) /\ Top.stage \in Nat /\ Top.local \in Int
  BY <1>1, KidFacts DEF StackOK
<1>3. Top.stage \in DOMAIN Kids[N] /\ Top.stage > 0
  BY <1>1, <1>2
<1>4. Called(Later(Top.stage + 1, Top.local)) = Top.stage
  BY <1>1, <1>2, LaterFacts DEF Called
<1>5. StackOK'
  BY <1>1, <1>2, <1>3, <1>4, CallStep
<1>6. Owns(Top) /\ Owns(Later(Top.stage + 1, Top.local))
  BY <1>1, <1>2, <1>3, LaterFacts DEF Owns, N
<1>7. Cardinality(Owners)' =
        Cardinality(Owners) + One(Owns(Later(Top.stage + 1, Top.local))) - One(Owns(Top))
  BY <1>1, <1>2, <1>3, CallOwners DEF StackOK
<1>8. Cardinality(Owners) \in Nat
  BY OwnersFinite DEF StackOK
<1> QED BY <1>5, <1>6, <1>7, <1>8 DEF One

\* Leaving a block keeps the stack's invariant.
LEMMA LeaveStep ==
  ASSUME StackOK, LeaveScope, UNCHANGED <<root, phase>>
  PROVE  /\ StackOK' /\ Cardinality(Owners)' = Cardinality(Owners) - 1
         /\ phase = "check" => Top.local \in TableTypes
<1>1. stk # << >> /\ Kind[N] = "block" /\ Top.stage = Len(Kids[N]) + 1 /\ Return
      /\ nested' = SubSeq(nested, 1, Len(nested) - 1)
  BY DEF LeaveScope, Running
<1>2. Kids[N] \in Seq(Node) /\ Top.scope \in Seq(Node)
  BY <1>1, KidFacts DEF StackOK
<1>3. Top.stage > 0
  BY <1>1, <1>2
<1>4. nested' = Top.scope
  BY <1>1, <1>3, ScopeFacts DEF StackOK
<1>5. PathOK'
  BY <1>1, <1>4, ReturnKeepsPath DEF StackOK
<1>6. stk' \in Seq(Frames) /\ Len(stk') = Len(stk) - 1
      /\ \A i \in 1..(Len(stk) - 1) : stk'[i] = stk[i]
  BY <1>1, ReturnFacts DEF StackOK
<1>7. SavedOK'
  <2>1. Len(stk) \in Nat
    BY DEF StackOK
  <2> QED BY <1>6, <2>1 DEF StackOK, SavedOK
<1>8. Owns(Top) /\ Cardinality(Owners)' = Cardinality(Owners) - One(Owns(Top))
  BY <1>1, <1>3, ReturnOwners DEF Owns, N, StackOK
<1>9. phase = "check" => Top.local \in TableTypes
  BY <1>1, <1>3, TopFacts DEF StackOK, SavedOK, Top, N
<1> QED BY <1>2, <1>4, <1>5, <1>6, <1>7, <1>8, <1>9 DEF StackOK, One

\* An exception leaves no call.
LEMMA ClearStep ==
  ASSUME StackOK, stk' = << >>, nested' = << >>, UNCHANGED root
  PROVE  StackOK'
BY DEF StackOK, PathOK, SavedOK

-----------------------------------------------------------------------------
(***************************************************************************)
(* MachineOK is inductive.                                                 *)
(***************************************************************************)
TableOK == /\ DOMAIN table \subseteq Node \X Name
           /\ \A k \in DOMAIN table : table[k] \in Entries

\* symbol_table::set keeps the tables well typed.
LEMMA PutTypes ==
  ASSUME TableOK, NEW b \in Node, NEW x \in Name, NEW entry \in Entries, Put(b, x, entry)
  PROVE  TableOK'
<1>1. /\ DOMAIN table' = DOMAIN table \cup {<<b, x>>}
      /\ \A k \in DOMAIN table' : table'[k] = IF k = <<b, x>> THEN entry ELSE table[k]
  BY DEF Put
<1> QED BY <1>1 DEF TableOK

\* variable_accessor::set keeps the tables well typed, and writes into a
\* block's table only.
LEMMA SetTypes ==
  ASSUME TableOK, nested \in Seq(Node), NEW x \in Name, NEW entry \in Entries, Set(x, entry)
  PROVE  TableOK'
<1> DEFINE i == Nearest(nested, x, FALSE)
<1>1. CASE i = 0
  BY <1>1 DEF Set, TableOK
<1>2. CASE i # 0
  <2>1. i \in DOMAIN nested
    BY <1>2, NearestStops
  <2>2. nested[i] \in Node
    <3> HIDE DEF i
    <3> QED BY <2>1
  <2>3. Put(nested[i], x, entry)
    BY <1>2 DEF Set
  <2> QED BY <2>2, <2>3, PutTypes
<1> QED BY <1>1, <1>2

\* An entry is well typed if its fields are.
LEMMA EntryTypes ==
  ASSUME NEW ptr \in Pointers, NEW type \in TableTypes, NEW evaluated \in BOOLEAN
  PROVE  Entry(ptr, type, evaluated) \in Entries
BY DEF Entry, Entries

\* A lookup returns an entry.
LEMMA LookupTypes ==
  ASSUME TableOK, NEW list \in Seq(Node), NEW x, NEW fe
  PROVE  /\ LookupIn(list, x, fe).type \in TableTypes
         /\ LookupIn(list, x, fe).ptr \in Pointers
         /\ LookupIn(list, x, fe).evaluated \in BOOLEAN
         /\ LookupIn(list, x, fe).ptr.val \in Int
<1>1. Absent \in Entries
  BY DEF Absent, Entry, Entries, Null, Pointers, PointerKinds, TableTypes, Undet
<1>2. \A b : At(b, x) \in Entries
  BY <1>1 DEF At, TableOK
<1>3. LookupIn(list, x, fe) \in Entries
  BY <1>1, <1>2 DEF LookupIn
<1> QED BY <1>3 DEF Entries, Pointers

\* The child that a node other than a block is at, after a call.
LEMMA NextChild ==
  ASSUME stk \in Seq(Frames), stk # << >>, Kind[N] # "block", NEW v
  PROVE  Called(Later(Top.stage + 1, v)) =
           IF Kind[N] = "if_stmt" /\ phase = "populate" THEN 2 ELSE Top.stage + 1
BY LaterFacts DEF Called

\* Every step of populate_symbol_table keeps the stack's invariant.
LEMMA PopulateStack ==
  ASSUME StackOK, Populate
  PROVE  StackOK'
<1>1. phase = "populate" /\ UNCHANGED <<root, phase>>
  BY DEF Populate, PopulateStep
<1>2. CASE PopulateBlock
  <2>1. CASE EnterScope(0)
    BY <1>1, <2>1, EnterStep DEF EnterScope, Running
  <2>2. CASE NextStatement
    BY <1>1, <2>2, StatementStep
  <2>3. CASE LeaveScope
    BY <1>1, <2>3, LeaveStep
  <2> QED BY <1>2, <2>1, <2>2, <2>3 DEF PopulateBlock
<1>3. CASE PopulateAssign
  <2>1. stk # << >> /\ Kind[N] = "assign" /\ UNCHANGED nested
    BY <1>3 DEF PopulateAssign, Running
  <2>2. 1 \in DOMAIN Kids[N]
    BY <2>1, KidFacts DEF StackOK, Arity, LeafKinds, UnaryKinds
  <2>3. CASE Top.stage = 0 /\ Call(1, 0, FALSE)
    <3>1. Called(Later(Top.stage + 1, 0)) = 1
      BY <2>1, <2>3, NextChild DEF StackOK
    <3>2. UNCHANGED <<root, phase, nested>>
      BY <1>1, <2>1
    <3>4. 0 \in Int /\ FALSE \in BOOLEAN /\ ~FALSE /\ Kind[N] # "block"
      BY <2>1
    <3> QED BY <2>1, <2>2, <2>3, <3>1, <3>2, <3>4, CallStep, Zenon
  <2>4. CASE Return
    BY <1>1, <2>1, <2>4, ReturnStep
  <2> QED BY <1>3, <2>3, <2>4 DEF PopulateAssign, Running
<1>4. CASE PopulateIf
  <2>1. stk # << >> /\ Kind[N] = "if_stmt" /\ UNCHANGED nested
    BY <1>4 DEF PopulateIf, Running
  <2>2. 2 \in DOMAIN Kids[N]
    BY <2>1, KidFacts DEF StackOK, Arity, LeafKinds, UnaryKinds
  <2>3. CASE Call(2, 0, FALSE)
    <3>1. Called(Later(Top.stage + 1, 0)) = 2
      BY <1>1, <2>1, NextChild DEF StackOK
    <3>2. UNCHANGED <<root, phase, nested>>
      BY <1>1, <2>1
    <3>4. 0 \in Int /\ FALSE \in BOOLEAN /\ ~FALSE /\ Kind[N] # "block"
      BY <2>1
    <3> QED BY <2>1, <2>2, <2>3, <3>1, <3>2, <3>4, CallStep, Zenon
  <2>4. CASE Return
    BY <1>1, <2>1, <2>4, ReturnStep
  <2> QED BY <1>4, <2>3, <2>4 DEF PopulateIf, Running
<1>5. CASE PopulateOther
  <2>1. stk # << >> /\ Kind[N] \in ExprKinds /\ UNCHANGED nested
    BY <1>5 DEF PopulateOther
  <2>2. Kind[N] # "block" /\ Kind[N] # "if_stmt"
    BY <2>1 DEF ExprKinds, LeafKinds, UnaryKinds, BinaryKinds
  <2>3. CASE Top.stage < Len(Kids[N]) /\ Call(Top.stage + 1, 0, FALSE)
    <3>1. Top.stage + 1 \in DOMAIN Kids[N]
      BY <2>1, <2>3, KidFacts DEF StackOK
    <3>2. UNCHANGED <<root, phase, nested>>
      BY <1>1, <2>1
    <3>3. Called(Later(Top.stage + 1, 0)) = Top.stage + 1
      BY <2>1, <2>2, NextChild DEF StackOK
    <3>4. 0 \in Int /\ FALSE \in BOOLEAN /\ ~FALSE
      OBVIOUS
    <3> QED BY <2>1, <2>2, <2>3, <3>1, <3>2, <3>3, <3>4, CallStep, Zenon
  <2>4. CASE Return
    BY <1>1, <2>1, <2>2, <2>4, ReturnStep
  <2> QED BY <1>5, <2>3, <2>4 DEF PopulateOther
<1> QED BY <1>2, <1>3, <1>4, <1>5 DEF Populate, PopulateStep

\* Every step of populate_symbol_table keeps the machine's invariant.
LEMMA PopulateMachine ==
  ASSUME MachineOK, Populate
  PROVE  MachineOK'
<1>1. StackOK /\ TableOK /\ phase = "populate" /\ vis = << >>
  BY DEF MachineOK, TypeOK, StackOK, TableOK, VisitorsOK, Populate, PopulateStep
<1>2. StackOK'
  BY <1>1, PopulateStack
<1>3. TableOK'
  <2>1. CASE UNCHANGED table
    BY <1>1, <2>1 DEF TableOK
  <2>2. CASE /\ Running({"assign"}, 0)
             /\ Put(nested[Len(nested)], Var[N], Entry(RightSide, Undet, FALSE))
    <3>1. stk # << >> /\ Kind[N] = "assign"
      BY <2>2 DEF Running
    <3>2. nested # << >>
      BY <1>1, <3>1, ScopeFacts DEF StackOK
    <3>3. nested[Len(nested)] \in Node
      BY <1>1, <3>2 DEF StackOK
    <3>4. Var[N] \in Name
      BY <1>1, <3>1, KidFacts DEF StackOK
    <3>5. Entry(RightSide, Undet, FALSE) \in Entries
      BY DEF Entry, Entries, RightSide, Pointers, PointerKinds, TableTypes
    <3> QED BY <1>1, <2>2, <3>3, <3>4, <3>5, PutTypes
  <2> QED BY <2>1, <2>2 DEF Populate, PopulateStep, PopulateBlock, PopulateAssign, PopulateIf, PopulateOther
<1>4. populated' \subseteq Node \X Seq(Node)
  <2>1. CASE populated' = populated
    BY <2>1 DEF MachineOK, TypeOK
  <2>2. CASE Done /\ stk # << >>
    BY <1>1, <2>2, TopFacts, KidFacts DEF Done, MachineOK, TypeOK
  <2> QED BY <2>1, <2>2 DEF Populate, PopulateStep, PopulateBlock, PopulateAssign, PopulateIf, PopulateOther, Running, LeaveScope
<1>5. UNCHANGED <<phase, result, curr, anntype, checked, vis, last, runs>>
  BY DEF Populate, PopulateStep
<1>6. TypeOK'
  BY <1>2, <1>3, <1>4, <1>5 DEF MachineOK, TypeOK, StackOK, TableOK
<1> QED BY <1>1, <1>2, <1>5, <1>6 DEF MachineOK, StackOK, VisitorsOK, IdleOK

-----------------------------------------------------------------------------
(***************************************************************************)
(* The type checker.                                                       *)
(***************************************************************************)
\* A call of the next child, in a pass that visits the children in order.
LEMMA NextChildStep ==
  ASSUME StackOK, stk # << >>, Kind[N] # "block", phase # "populate",
         NEW k \in DOMAIN Kids[N], NEW v \in Int, NEW typed \in BOOLEAN,
         Call(k, v, typed), UNCHANGED <<root, phase, nested>>, Top.stage + 1 = k,
         typed => Kind[Kids[N][k]] \in ExprKinds
  PROVE  /\ StackOK'
         /\ Cardinality(Owners)' =
              Cardinality(Owners) + One(Owns(Later(k, v))) - One(Owns(Top))
<1>1. Called(Later(Top.stage + 1, v)) = k
  BY NextChild DEF StackOK
<1>2. StackOK'
  BY <1>1, CallStep, Zenon
<1>3. Cardinality(Owners)' =
        Cardinality(Owners) + One(Owns(Later(Top.stage + 1, v))) - One(Owns(Top))
  BY CallOwners, Zenon DEF StackOK
<1> QED BY <1>2, <1>3

\* propagate returns a type that an expression can have, or FAILED.
LEMMA PropagateTypes ==
  ASSUME NEW l \in Int, NEW r \in Int, NEW minvalid \in {BoolType, IntType}
  PROVE  /\ Propagate(l, r, minvalid) \in {BoolType, IntType, FloatType, Failed}
         /\ l \in TableTypes \/ r \in TableTypes => Propagate(l, r, minvalid) # BoolType
BY DEF Propagate, BoolType, IntType, FloatType, StringType, Undet, Failed, TableTypes

\* The variables of the type checker, and those it leaves alone.
CheckerOK ==
  /\ StackOK /\ TableOK
  /\ checked \subseteq Node \X Seq(Node)
  /\ curr \in TableTypes
  /\ DOMAIN anntype \subseteq Node
  /\ \A n \in DOMAIN anntype : anntype[n] \in BoolType..Failed
  /\ result \in Results
  /\ phase = "check" \/ (phase = "stopped" /\ stk = << >>)

\* The types of tables and expressions are result types.
LEMMA CurrTypes ==
  \A type \in TableTypes : type \in Int /\ type \in BoolType..Failed
BY DEF TableTypes, IntType, FloatType, StringType, Undet, BoolType, Failed

\* A type_checker_error ends the pass with an empty stack.
LEMMA RejectStep ==
  ASSUME CheckerOK, Reject, UNCHANGED root
  PROVE  /\ StackOK' /\ TableOK' /\ checked' = checked
         /\ phase' = "stopped" /\ stk' = << >> /\ result' \in Results
<1>1. StackOK'
  BY ClearStep DEF Reject, CheckerOK
<1> QED BY <1>1 DEF Reject, CheckerOK, TableOK, Results

\* The end of a visit keeps the stack's invariant and the saved types.
LEMMA CheckedStep ==
  ASSUME CheckerOK, phase = "check", stk # << >>, Kind[N] # "block", Checked, UNCHANGED <<root, nested>>
  PROVE  /\ StackOK' /\ checked' \subseteq Node \X Seq(Node)
         /\ phase' = "check" /\ result' \in Results
<1>1. StackOK'
  BY ReturnStep DEF Checked, CheckerOK
<1>2. N \in Node /\ Top.scope \in Seq(Node)
  BY TopFacts, KidFacts DEF CheckerOK, StackOK
<1> QED BY <1>1, <1>2 DEF Checked, CheckerOK

\* So does the end of an operator's visit, with a type or with an error.
LEMMA ConcludeStep ==
  ASSUME CheckerOK, phase = "check", stk # << >>, Kind[N] # "block",
         NEW ty \in TableTypes \cup {Failed}, Conclude(ty), UNCHANGED root
  PROVE  /\ StackOK' /\ TableOK' /\ checked' \subseteq Node \X Seq(Node)
         /\ curr' \in TableTypes /\ result' \in Results
         /\ phase' = "check" \/ (phase' = "stopped" /\ stk' = << >>)
<1>1. CASE ty = Failed
  <2>1. Reject /\ UNCHANGED curr
    BY <1>1 DEF Conclude
  <2> QED BY <2>1, RejectStep DEF CheckerOK
<1>2. CASE ty # Failed
  <2>1. curr' = ty /\ Checked /\ UNCHANGED <<table, nested>>
    BY <1>2 DEF Conclude
  <2> QED BY <1>2, <2>1, CheckedStep DEF CheckerOK, TableOK
<1> QED BY <1>1, <1>2

\* An annotation is a result type.
LEMMA AnnotateTypes ==
  ASSUME CheckerOK, NEW n \in Node, NEW ty \in BoolType..Failed, Annotate(n, ty)
  PROVE  /\ DOMAIN anntype' \subseteq Node
         /\ \A m \in DOMAIN anntype' : anntype'[m] \in BoolType..Failed
BY DEF Annotate, CheckerOK

\* Visiting an operand keeps the stack's invariant and the saved types.
LEMMA CheckChildStep ==
  ASSUME CheckerOK, phase = "check", stk # << >>, Kind[N] # "block",
         NEW k \in 1..Arity(Kind[N]), NEW v \in Int, CheckChild(k, v),
         UNCHANGED <<root, curr>>, Top.stage + 1 = k
  PROVE  CheckerOK'
<1>1. k \in DOMAIN Kids[N] /\ FALSE \in BOOLEAN /\ phase # "populate"
  BY KidFacts DEF CheckerOK, StackOK
<1>2. Call(k, v, FALSE) /\ UNCHANGED <<root, phase, nested>>
      /\ UNCHANGED <<table, nested, phase, result, anntype, checked, curr>>
  BY DEF CheckChild
<1>3. StackOK'
  <2>1. StackOK
    BY DEF CheckerOK
  <2> QED BY <1>1, <1>2, <2>1, NextChildStep, Zenon
<1> QED BY <1>2, <1>3 DEF CheckerOK, TableOK

\* How many children the kinds of nodes have.
LEMMA ArityFacts ==
  /\ \A kind \in LeafKinds : kind # "block" /\ Arity(kind) = 0
  /\ \A kind \in UnaryKinds : kind # "block" /\ Arity(kind) = 1
  /\ \A kind \in BinaryKinds : kind # "block" /\ Arity(kind) = 2
  /\ Arity("assign") = 1 /\ Arity("comp_equals") = 2 /\ Arity("if_stmt") = 2
BY DEF Arity, LeafKinds, UnaryKinds, BinaryKinds

\* The type checker on constants and variables.
LEMMA CheckLeafStep ==
  ASSUME CheckerOK, phase = "check", CheckLeaf, UNCHANGED root
  PROVE  CheckerOK'
<1>1. stk # << >> /\ Kind[N] \in LeafKinds /\ Checked /\ UNCHANGED <<table, nested, anntype>>
  BY DEF CheckLeaf, Running
<1>2. StackOK' /\ checked' \subseteq Node \X Seq(Node) /\ phase' = "check" /\ result' \in Results
  BY <1>1, ArityFacts, CheckedStep
<1>3. curr' \in TableTypes
  <2>1. Lookup(Var[N], FALSE).type \in TableTypes
    BY LookupTypes DEF Lookup, CheckerOK, StackOK
  <2>2. IntType \in TableTypes /\ FloatType \in TableTypes /\ StringType \in TableTypes
    BY DEF TableTypes
  <2> QED BY <1>1, <2>1, <2>2 DEF CheckLeaf, LeafKinds
<1> QED BY <1>1, <1>2, <1>3 DEF CheckerOK, TableOK

\* The type checker on unary operators.
LEMMA CheckUnaryStep ==
  ASSUME CheckerOK, phase = "check", CheckUnary, UNCHANGED root
  PROVE  CheckerOK'
<1>1. stk # << >> /\ Kind[N] \in UnaryKinds /\ Kind[N] # "block" /\ Arity(Kind[N]) = 1
  BY ArityFacts DEF CheckUnary, Running
<1>2. CASE Top.stage = 0 /\ CheckChild(1, 0) /\ UNCHANGED curr
  <2>1. 1 \in 1..Arity(Kind[N]) /\ 0 \in Int /\ Top.stage + 1 = 1
    BY <1>1, <1>2
  <2> QED BY <1>1, <1>2, <2>1, CheckChildStep, Zenon
<1>3. CASE Conclude(Propagate(curr, BoolType, BoolType)) /\ UNCHANGED anntype
  <2>1. Propagate(curr, BoolType, BoolType) \in TableTypes \cup {Failed}
    BY PropagateTypes, CurrTypes DEF CheckerOK, BoolType, TableTypes
  <2> QED BY <1>1, <1>3, <2>1, ConcludeStep DEF CheckerOK
<1> QED BY <1>2, <1>3 DEF CheckUnary, Running

\* The type checker on binary operators.
LEMMA CheckBinaryStep ==
  ASSUME CheckerOK, phase = "check", CheckBinary, UNCHANGED root
  PROVE  CheckerOK'
<1>1. stk # << >> /\ Kind[N] \in BinaryKinds /\ Kind[N] # "block" /\ Arity(Kind[N]) = 2
  BY ArityFacts DEF CheckBinary, Running
<1>2. curr \in Int /\ Top.local \in Int
  BY <1>1, CurrTypes, KidFacts DEF CheckerOK, StackOK
<1>3. CASE Top.stage = 0 /\ CheckChild(1, 0) /\ UNCHANGED curr
  <2>1. 1 \in 1..Arity(Kind[N]) /\ 0 \in Int /\ Top.stage + 1 = 1
    BY <1>1, <1>3
  <2> QED BY <1>1, <1>3, <2>1, CheckChildStep, Zenon
<1>4. CASE Top.stage = 1 /\ CheckChild(2, curr) /\ UNCHANGED curr
  <2>1. 2 \in 1..Arity(Kind[N]) /\ Top.stage + 1 = 2
    BY <1>1, <1>4
  <2> QED BY <1>1, <1>2, <1>4, <2>1, CheckChildStep, Zenon
<1>5. CASE Conclude(OperationType(Top.local, curr)) /\ UNCHANGED anntype
  <2>1. MinValid \in {BoolType, IntType}
    BY DEF MinValid
  <2>2. Propagate(Top.local, curr, MinValid) \in {BoolType, IntType, FloatType, Failed}
    BY <1>2, <2>1, PropagateTypes
  <2>3. OperationType(Top.local, curr) \in TableTypes \cup {Failed}
    BY <2>2 DEF OperationType, TableTypes
  <2> QED BY <1>1, <1>5, <2>3, ConcludeStep DEF CheckerOK
<1> QED BY <1>3, <1>4, <1>5 DEF CheckBinary, Running

\* The type checker on comparisons.
LEMMA CheckEqualsStep ==
  ASSUME CheckerOK, phase = "check", CheckEquals, UNCHANGED root
  PROVE  CheckerOK'
<1>1. stk # << >> /\ Kind[N] = "comp_equals" /\ Kind[N] # "block" /\ Arity(Kind[N]) = 2
  BY ArityFacts DEF CheckEquals, Running
<1>2. curr \in Int /\ Top.local \in Int /\ N \in Node
  BY <1>1, CurrTypes, KidFacts, TopFacts DEF CheckerOK, StackOK
<1>3. CASE Top.stage = 0 /\ CheckChild(1, 0) /\ UNCHANGED curr
  <2>1. 1 \in 1..Arity(Kind[N]) /\ 0 \in Int /\ Top.stage + 1 = 1
    BY <1>1, <1>3
  <2> QED BY <1>1, <1>3, <2>1, CheckChildStep, Zenon
<1>4. CASE Top.stage = 1 /\ CheckChild(2, curr) /\ UNCHANGED curr
  <2>1. 2 \in 1..Arity(Kind[N]) /\ Top.stage + 1 = 2
    BY <1>1, <1>4
  <2> QED BY <1>1, <1>2, <1>4, <2>1, CheckChildStep, Zenon
<1>5. CASE /\ Annotate(N, IF StringType \in {Top.local, curr} THEN StringType
                          ELSE ComparisonType(Top.local, curr))
           /\ Conclude(IF ComparisonType(Top.local, curr) = Failed THEN Failed ELSE IntType)
  <2> DEFINE at == IF StringType \in {Top.local, curr} THEN StringType
                   ELSE ComparisonType(Top.local, curr)
             ty == IF ComparisonType(Top.local, curr) = Failed THEN Failed ELSE IntType
  <2>1. at \in BoolType..Failed
    <3>1. Propagate(Top.local, curr, BoolType) \in {BoolType, IntType, FloatType, Failed}
      BY <1>2, PropagateTypes
    <3> QED BY <3>1 DEF ComparisonType, BoolType, IntType, FloatType, StringType, Failed
  <2>2. ty \in TableTypes \cup {Failed}
    BY DEF TableTypes
  <2>3. Annotate(N, at) /\ Conclude(ty)
    BY <1>5
  <2> HIDE DEF at, ty
  <2>4. /\ DOMAIN anntype' \subseteq Node
        /\ \A m \in DOMAIN anntype' : anntype'[m] \in BoolType..Failed
    BY <1>2, <2>1, <2>3, AnnotateTypes
  <2> QED BY <1>1, <2>2, <2>3, <2>4, ConcludeStep DEF CheckerOK
<1> QED BY <1>3, <1>4, <1>5 DEF CheckEquals, Running

\* The type checker on assignments.
LEMMA CheckAssignStep ==
  ASSUME CheckerOK, phase = "check", CheckAssign, UNCHANGED root
  PROVE  CheckerOK'
<1>1. stk # << >> /\ Kind[N] = "assign" /\ Kind[N] # "block" /\ Arity(Kind[N]) = 1
  BY ArityFacts DEF CheckAssign, Running
<1>2. CASE Top.stage = 0 /\ CheckChild(1, 0) /\ UNCHANGED curr
  <2>1. 1 \in 1..Arity(Kind[N]) /\ 0 \in Int /\ Top.stage + 1 = 1
    BY <1>1, <1>2
  <2> QED BY <1>1, <1>2, <2>1, CheckChildStep, Zenon
<1>3. CASE Reject /\ UNCHANGED <<curr, anntype>>
  BY <1>3, RejectStep DEF CheckerOK
<1> DEFINE sym == Lookup(Var[N], FALSE)
<1>4. CASE /\ GiveType(sym) /\ Checked /\ UNCHANGED nested /\ UNCHANGED <<curr, anntype>>
  <2>1. StackOK' /\ checked' \subseteq Node \X Seq(Node) /\ phase' = "check" /\ result' \in Results
    BY <1>1, <1>4, CheckedStep
  <2>2. TableOK'
    <3>1. CASE UNCHANGED table
      BY <3>1 DEF CheckerOK, TableOK
    <3>2. CASE Set(Var[N], Entry(sym.ptr, curr, FALSE))
      <4>1. sym.ptr \in Pointers
        BY LookupTypes DEF Lookup, CheckerOK, StackOK
      <4>2. Entry(sym.ptr, curr, FALSE) \in Entries
        BY <4>1, EntryTypes DEF CheckerOK
      <4>3. Var[N] \in Name /\ nested \in Seq(Node) /\ TableOK
        BY <1>1, KidFacts DEF CheckerOK, StackOK
      <4> HIDE DEF sym
      <4> QED BY <3>2, <4>2, <4>3, SetTypes
    <3> QED BY <1>4, <3>1, <3>2 DEF GiveType
  <2> QED BY <1>4, <2>1, <2>2 DEF CheckerOK
<1> QED BY <1>2, <1>3, <1>4 DEF CheckAssign, Running

\* The type checker on if statements.
LEMMA CheckIfStep ==
  ASSUME CheckerOK, phase = "check", CheckIf, UNCHANGED root
  PROVE  CheckerOK'
<1>1. stk # << >> /\ Kind[N] = "if_stmt" /\ Kind[N] # "block" /\ Arity(Kind[N]) = 2
  BY ArityFacts DEF CheckIf, Running
<1>2. CASE Top.stage = 0 /\ CheckChild(1, 0) /\ UNCHANGED curr
  <2>1. 1 \in 1..Arity(Kind[N]) /\ 0 \in Int /\ Top.stage + 1 = 1
    BY <1>1, <1>2
  <2> QED BY <1>1, <1>2, <2>1, CheckChildStep, Zenon
<1>3. CASE /\ Top.stage = 1 /\ Annotate(N, curr) /\ Call(2, 0, FALSE)
           /\ UNCHANGED <<curr, table, nested, phase, result, checked>>
  <2>1. /\ DOMAIN anntype' \subseteq Node
        /\ \A m \in DOMAIN anntype' : anntype'[m] \in BoolType..Failed
    BY <1>1, <1>3, AnnotateTypes, CurrTypes, TopFacts DEF CheckerOK, StackOK
  <2>2. /\ 2 \in DOMAIN Kids[N] /\ Top.stage + 1 = 2 /\ phase # "populate"
        /\ 0 \in Int /\ FALSE \in BOOLEAN /\ ~FALSE /\ StackOK
    BY <1>1, <1>3, KidFacts DEF CheckerOK, StackOK
  <2>3. UNCHANGED <<root, phase, nested>>
    BY <1>3
  <2>4. StackOK'
    BY <1>1, <1>3, <2>2, <2>3, NextChildStep, Zenon
  <2> QED BY <1>3, <2>1, <2>4 DEF CheckerOK, TableOK
<1>4. CASE Checked /\ UNCHANGED <<curr, table, nested, anntype>>
  BY <1>1, <1>4, CheckedStep DEF CheckerOK, TableOK
<1> QED BY <1>2, <1>3, <1>4 DEF CheckIf, Running

\* The type checker on blocks.
LEMMA CheckBlockStep ==
  ASSUME CheckerOK, phase = "check", CheckBlock, UNCHANGED root
  PROVE  CheckerOK'
<1>1. UNCHANGED <<table, anntype>> /\ StackOK
  BY DEF CheckBlock, CheckerOK
<1>2. CASE EnterScope(curr) /\ curr' = Undet /\ UNCHANGED <<phase, result, checked>>
  <2>1. curr \in Int /\ stk # << >>
    BY <1>2, CurrTypes DEF CheckerOK, EnterScope, Running
  <2>2. StackOK'
    BY <1>1, <1>2, <2>1, EnterStep DEF CheckerOK
  <2> QED BY <1>1, <1>2, <2>2 DEF CheckerOK, TableOK, TableTypes
<1>3. CASE NextStatement /\ UNCHANGED <<curr, phase, result, checked>>
  <2>1. StackOK'
    BY <1>1, <1>3, StatementStep
  <2> QED BY <1>1, <1>3, <2>1 DEF CheckerOK, TableOK
<1>4. CASE LeaveScope /\ curr' = Top.local /\ Checked
  <2>1. stk # << >>
    BY <1>4 DEF LeaveScope, Running
  <2>2. StackOK' /\ Top.local \in TableTypes
    BY <1>1, <1>4, LeaveStep DEF Checked
  <2>3. checked' \subseteq Node \X Seq(Node)
    BY <1>1, <1>4, <2>1, TopFacts, KidFacts DEF Checked, CheckerOK, StackOK
  <2> QED BY <1>1, <1>4, <2>2, <2>3 DEF CheckerOK, TableOK, Checked
<1> QED BY <1>2, <1>3, <1>4 DEF CheckBlock

\* Every step of the type checker keeps the machine's invariant.
LEMMA CheckMachine ==
  ASSUME MachineOK, Check
  PROVE  MachineOK'
<1>1. phase = "check" /\ CheckStep /\ UNCHANGED <<root, populated, vis, last, runs>>
  BY DEF Check, CheckStep
<1>2. CheckerOK /\ vis = << >>
  BY <1>1 DEF MachineOK, TypeOK, CheckerOK, StackOK, TableOK, VisitorsOK
<1>3. CheckerOK'
  BY <1>1, <1>2, CheckLeafStep, CheckUnaryStep, CheckBinaryStep, CheckEqualsStep,
     CheckAssignStep, CheckIfStep, CheckBlockStep DEF CheckStep
<1>4. TypeOK'
  BY <1>1, <1>3 DEF MachineOK, TypeOK, CheckerOK, StackOK, TableOK, Phases
<1> QED BY <1>1, <1>2, <1>3, <1>4 DEF MachineOK, CheckerOK, StackOK, VisitorsOK, IdleOK

-----------------------------------------------------------------------------
(***************************************************************************)
(* The interpreters.                                                       *)
(***************************************************************************)
\* The variables of an evaluation, while it runs and when it has just ended.
EvaluatorOK ==
  /\ StackOK /\ TableOK
  /\ vis \in Seq(Visitors)
  /\ last \in [id : Nat, ptr : Pointers]
  /\ result \in Results
  /\ \/ phase = "eval" /\ Len(vis) = Cardinality(Owners)
     \/ phase \in {"ready", "stopped"} /\ stk = << >> /\ vis = << >>

\* A stack of visitors that is not empty has a last one and a shorter stack
\* below it.
LEMMA VisFacts ==
  ASSUME EvaluatorOK, phase = "eval", stk # << >>, Kind[N] # "block"
  PROVE  /\ Len(vis) \in Nat /\ Len(vis) >= 1 /\ vis # << >>
         /\ Visiting \in Visitors /\ Value \in Int /\ Visiting.ty \in TableTypes
         /\ Owns(Top) => Len(vis) >= 2
         /\ OuterVis \in Seq(Visitors) /\ Len(OuterVis) = Len(vis) - 1
<1>1. Kind[root] = "block"
  BY RootFacts DEF EvaluatorOK, StackOK
<1>2. Cardinality(Owners) >= 1 /\ (Owns(Top) => Cardinality(Owners) >= 2)
  BY <1>1, EnoughOwners DEF EvaluatorOK, StackOK
<1>3. Len(vis) = Cardinality(Owners) /\ vis \in Seq(Visitors) /\ Len(vis) \in Nat
  BY DEF EvaluatorOK
<1>4. Len(vis) >= 1 /\ vis # << >>
  BY <1>2, <1>3
<1>5. OuterVis \in Seq(Visitors) /\ Len(OuterVis) = Len(vis) - 1 /\ Visiting \in Visitors
  BY <1>3, <1>4, FrontFacts DEF OuterVis, Visiting
<1>6. Value \in Int /\ Visiting.ty \in TableTypes
  BY <1>5 DEF Value, Visitors, ValueTypes, TableTypes
<1> QED BY <1>2, <1>3, <1>4, <1>5, <1>6

\* A new value_ is a visitor's.
LEMMA SetValueFacts ==
  ASSUME EvaluatorOK, phase = "eval", stk # << >>, Kind[N] # "block", NEW v \in Int, SetValue(v)
  PROVE  vis' \in Seq(Visitors) /\ Len(vis') = Len(vis)
<1>1. [Visiting EXCEPT !.val = v] \in Visitors
  BY VisFacts DEF Visitors
<1>2. vis' \in Seq(Visitors) /\ Len(vis') = Len(OuterVis) + 1
  BY <1>1, VisFacts DEF SetValue
<1> QED BY <1>2, VisFacts

\* A new typed_interpreter is one more visitor.
LEMMA NewVisitorFacts ==
  ASSUME vis \in Seq(Visitors), NEW ty \in ValueTypes, NewVisitor(ty)
  PROVE  vis' \in Seq(Visitors) /\ Len(vis') = Len(vis) + 1
<1>1. [ty |-> ty, val |-> Initial(ty)] \in Visitors
  BY DEF Visitors, Initial, NullStr
<1> QED BY <1>1 DEF NewVisitor

\* An exception, or the end of the program, leaves an empty stack and no visitor.
LEMMA UnwindStep ==
  ASSUME EvaluatorOK, UNCHANGED root, NEW next \in {"ready", "stopped"}, NEW why \in Results,
         Unwind(next, why)
  PROVE  EvaluatorOK'
<1>1. StackOK'
  BY ClearStep DEF Unwind, EvaluatorOK
<1> QED BY <1>1 DEF Unwind, EvaluatorOK, TableOK

\* Each of the early ends of an evaluation is such an unwinding.
LEMMA UndefinedStep ==
  ASSUME EvaluatorOK, UNCHANGED root
  PROVE  /\ Die => EvaluatorOK'
         /\ Undefined => EvaluatorOK'
         /\ Inexact => EvaluatorOK'
         /\ Throw("used before assigned") => EvaluatorOK'
         /\ Throw("invalid use of ==") => EvaluatorOK'
BY UnwindStep DEF Die, Undefined, Inexact, Throw, Results

\* A call that owns no visitor returns.
LEMMA EvalReturnStep ==
  ASSUME EvaluatorOK, phase = "eval", stk # << >>, Kind[N] # "block", ~Owns(Top),
         Return, UNCHANGED <<root, phase, nested>>
  PROVE  StackOK' /\ Cardinality(Owners)' = Cardinality(Owners) /\ Cardinality(Owners) \in Nat
<1>1. StackOK'
  BY ReturnStep DEF EvaluatorOK
<1>2. Cardinality(Owners)' = Cardinality(Owners) - One(Owns(Top))
  BY ReturnOwners DEF EvaluatorOK, StackOK
<1>3. Cardinality(Owners) \in Nat
  BY OwnersFinite DEF EvaluatorOK, StackOK
<1> QED BY <1>1, <1>2, <1>3 DEF One

\* ... and sets the value.
LEMMA EvalValueStep ==
  ASSUME EvaluatorOK, phase = "eval", stk # << >>, Kind[N] # "block", ~Owns(Top),
         NEW v \in Int, SetValue(v), Return, Going, UNCHANGED <<root, table, nested, last>>
  PROVE  EvaluatorOK'
<1>1. UNCHANGED <<root, phase, nested>>
  BY DEF Going
<1>2. StackOK' /\ Cardinality(Owners)' = Cardinality(Owners)
  BY <1>1, EvalReturnStep
<1>3. vis' \in Seq(Visitors) /\ Len(vis') = Len(vis)
  BY SetValueFacts
<1> QED BY <1>1, <1>2, <1>3 DEF EvaluatorOK, TableOK, Going

\* ... and does not.
LEMMA EvalKeepStep ==
  ASSUME EvaluatorOK, phase = "eval", stk # << >>, Kind[N] # "block", ~Owns(Top),
         Return, Going, UNCHANGED <<root, table, nested, vis, last>>
  PROVE  EvaluatorOK'
<1>1. UNCHANGED <<root, phase, nested>>
  BY DEF Going
<1>2. StackOK' /\ Cardinality(Owners)' = Cardinality(Owners)
  BY <1>1, EvalReturnStep
<1> QED BY <1>1, <1>2 DEF EvaluatorOK, TableOK, Going

\* A call of a typed_interpreter calls its next child.
LEMMA EvalChildStep ==
  ASSUME EvaluatorOK, phase = "eval", stk # << >>, Kind[N] \in ExprKinds,
         NEW k \in 1..Arity(Kind[N]), NEW v \in Int, EvalChild(k, v), UNCHANGED root,
         Top.stage + 1 = k, Owns(Later(k, v)) <=> Owns(Top)
  PROVE  EvaluatorOK'
<1>1. /\ k \in DOMAIN Kids[N] /\ TRUE \in BOOLEAN /\ phase # "populate"
      /\ Kind[N] # "block" /\ StackOK /\ Kind[Kids[N][k]] \in ExprKinds
  <2>1. Kind[N] # "block"
    BY DEF ExprKinds, LeafKinds, UnaryKinds, BinaryKinds
  <2>2. k \in DOMAIN Kids[N]
    BY <2>1, KidFacts DEF EvaluatorOK, StackOK
  <2> QED BY <2>1, <2>2, KidFacts DEF EvaluatorOK, StackOK
<1>2. Call(k, v, TRUE) /\ UNCHANGED <<root, phase, nested>>
      /\ UNCHANGED <<table, vis, last, result>>
  BY DEF EvalChild, Going
<1>3. StackOK' /\ Cardinality(Owners)' =
                    Cardinality(Owners) + One(Owns(Later(k, v))) - One(Owns(Top))
  BY <1>1, <1>2, NextChildStep, Zenon
<1>4. Cardinality(Owners) \in Nat
  BY OwnersFinite DEF EvaluatorOK, StackOK
<1>5. Cardinality(Owners)' = Cardinality(Owners)
  BY <1>3, <1>4 DEF One
<1> QED BY <1>2, <1>3, <1>5 DEF EvaluatorOK, TableOK

\* Which calls own a visitor.
LEMMA OwnsFacts ==
  ASSUME stk \in Seq(Frames), stk # << >>, NEW k \in Nat, NEW v
  PROVE  /\ Kind[N] \in LeafKinds \cup UnaryKinds \cup BinaryKinds => ~Owns(Top) /\ ~Owns(Later(k, v))
         /\ Kind[N] = "comp_equals" => (Owns(Top) <=> Top.stage > 0) /\ (Owns(Later(k, v)) <=> k > 0)
         /\ Kind[N] = "if_stmt" => (Owns(Top) <=> Top.stage = 1) /\ (Owns(Later(k, v)) <=> k = 1)
         /\ Kind[N] = "assign" => /\ Owns(Top) <=> ~Top.typed /\ Top.stage > 0
                                  /\ Owns(Later(k, v)) <=> ~Top.typed /\ k > 0
<1>1. Later(k, v).n = N /\ Later(k, v).stage = k /\ Later(k, v).typed = Top.typed
  BY LaterFacts
<1>2. Top.n = N
  BY DEF N
<1>3. Kind[N] \in LeafKinds \cup UnaryKinds \cup BinaryKinds => ~Owns(Top) /\ ~Owns(Later(k, v))
  BY <1>1, <1>2 DEF Owns, LeafKinds, UnaryKinds, BinaryKinds
<1> QED BY <1>1, <1>2, <1>3 DEF Owns

\* Reading a constant gives a value.
LEMMA LoadTypes ==
  ASSUME NEW ty, NEW c, c.val \in Int, NEW old \in Int
  PROVE  Load(ty, c, old) \in Int
<1>1. Truncate(c.val) \in Int
  BY DEF Truncate, Quotient
<1> QED BY <1>1 DEF Load

\* An operation that Exact allows gives a value.
LEMMA ExactTypes ==
  ASSUME NEW op, NEW ty, NEW a, NEW b, Exact(op, ty, a, b)
  PROVE  Compute(op, ty, a, b) \in Int
<1>1. Compute(op, ty, a, b) \in (-MaxNum - 1)..MaxNum
  BY DEF Exact, InRange
<1> HIDE DEF Compute
<1> QED BY <1>1, MaxNumAssumption

\* The interpreter on constants and variables.
LEMMA EvalLeafStep ==
  ASSUME EvaluatorOK, phase = "eval", SkipExpression \/ EvalConstant \/ EvalVariable, UNCHANGED root
  PROVE  EvaluatorOK'
<1>1. stk # << >> /\ Kind[N] \in ExprKinds /\ Kind[N] # "assign" /\ Top.stage = 0
  BY DEF SkipExpression, EvalConstant, EvalVariable, Running, ExprKinds, LeafKinds, ConstantKinds
<1>2. Kind[N] # "block" /\ Kind[N] # "if_stmt" /\ N = Top.n
  BY <1>1 DEF ExprKinds, LeafKinds, UnaryKinds, BinaryKinds, N
<1>3. ~Owns(Top)
  BY <1>1, <1>2 DEF Owns
<1>4. CASE SkipExpression
  BY <1>1, <1>2, <1>3, <1>4, EvalKeepStep DEF SkipExpression
<1>5. Value \in Int /\ Lit[N] \in Int
  BY <1>1, <1>2, VisFacts, KidFacts DEF EvaluatorOK, StackOK
<1>6. CASE EvalConstant
  <2> DEFINE v == Load(Visiting.ty, Const(Kind[N], Lit[N]), Value)
  <2>1. Const(Kind[N], Lit[N]).val \in Int
    BY <1>5 DEF Const
  <2>2. v \in Int
    BY <1>5, <2>1, LoadTypes
  <2>3. SetValue(v) /\ Return /\ Going /\ UNCHANGED <<root, table, nested, last>>
    BY <1>6 DEF EvalConstant
  <2> HIDE DEF v
  <2> QED BY <1>1, <1>2, <1>3, <2>2, <2>3, EvalValueStep
<1>7. CASE EvalVariable
  <2> DEFINE res == Lookup(Var[N], TRUE)
             v   == Load(Visiting.ty, res.ptr, Value)
  <2>1. CASE Throw("used before assigned")
    BY <2>1, UndefinedStep
  <2>2. CASE SetValue(v) /\ Return /\ Going /\ UNCHANGED <<table, nested, last>>
    <3>1. res.ptr.val \in Int
      BY LookupTypes DEF Lookup, EvaluatorOK, StackOK
    <3>2. v \in Int
      BY <1>5, <3>1, LoadTypes
    <3>3. SetValue(v) /\ Return /\ Going /\ UNCHANGED <<root, table, nested, last>>
      BY <2>2
    <3> HIDE DEF v
    <3> QED BY <1>1, <1>2, <1>3, <3>2, <3>3, EvalValueStep
  <2> QED BY <1>7, <2>1, <2>2 DEF EvalVariable
<1> QED BY <1>4, <1>6, <1>7

\* The end of an operator's visit keeps the machine's invariant.
LEMMA FinishStep ==
  ASSUME EvaluatorOK, phase = "eval", stk # << >>, Kind[N] # "block", ~Owns(Top),
         NEW op, NEW a, NEW b, Finish(op, a, b), UNCHANGED root
  PROVE  EvaluatorOK'
<1>1. CASE Exact(op, Visiting.ty, a, b)
  <2> DEFINE v == Compute(op, Visiting.ty, a, b)
  <2>1. v \in Int
    BY <1>1, ExactTypes
  <2>2. SetValue(v) /\ Return /\ Going /\ UNCHANGED <<root, table, nested, last>>
    BY <1>1 DEF Finish
  <2> HIDE DEF v
  <2> QED BY <2>1, <2>2, EvalValueStep
<1>2. CASE ~Exact(op, Visiting.ty, a, b)
  BY <1>2, UndefinedStep DEF Finish
<1> QED BY <1>1, <1>2

\* The interpreter on unary and binary operators.
LEMMA EvalOperatorStep ==
  ASSUME EvaluatorOK, phase = "eval", EvalUnary \/ EvalBinary, UNCHANGED root
  PROVE  EvaluatorOK'
<1>1. /\ stk # << >> /\ Kind[N] \in UnaryKinds \cup BinaryKinds
      /\ EvalUnary => Kind[N] \in UnaryKinds
      /\ EvalBinary => Kind[N] \in BinaryKinds
  BY DEF EvalUnary, EvalBinary, Running
<1>2. Kind[N] # "block" /\ Kind[N] \in ExprKinds
  BY <1>1 DEF ExprKinds, LeafKinds, UnaryKinds, BinaryKinds
<1>3. /\ ~Owns(Top)
      /\ ~Owns(Later(1, 0)) /\ ~Owns(Later(2, Value))
  BY <1>1, OwnsFacts DEF EvaluatorOK, StackOK
<1>4. Value \in Int
  BY <1>1, <1>2, VisFacts
<1>5. CASE Top.stage = 0 /\ EvalChild(1, 0)
  <2>1. 1 \in 1..Arity(Kind[N]) /\ 0 \in Int /\ Top.stage + 1 = 1
    BY <1>1, <1>5, ArityFacts
  <2> QED BY <1>1, <1>2, <1>3, <1>5, <2>1, EvalChildStep, Zenon
<1>6. CASE Top.stage = 1 /\ EvalChild(2, Value) /\ EvalBinary
  <2>1. 2 \in 1..Arity(Kind[N]) /\ Top.stage + 1 = 2
    BY <1>1, <1>6, ArityFacts
  <2> QED BY <1>1, <1>2, <1>3, <1>4, <1>6, <2>1, EvalChildStep, Zenon
<1>7. CASE KeepValue
  BY <1>1, <1>2, <1>3, <1>7, EvalKeepStep DEF KeepValue
<1>8. CASE Finish(Kind[N], Value, Value) \/ Finish(Kind[N], Top.local, Value)
  BY <1>1, <1>2, <1>3, <1>8, FinishStep
<1> QED BY <1>5, <1>6, <1>7, <1>8 DEF EvalUnary, EvalBinary, Running

\* A call makes a visitor and calls its next child.
LEMMA EvalOwnerStep ==
  ASSUME EvaluatorOK, phase = "eval", stk # << >>, Kind[N] # "block",
         NEW k \in 1..Arity(Kind[N]), NEW v \in Int, NEW typed \in BOOLEAN, Call(k, v, typed),
         NEW ty \in ValueTypes, NewVisitor(ty), Going, UNCHANGED <<root, table, nested, last>>,
         Top.stage + 1 = k, ~Owns(Top), Owns(Later(k, v)),
         typed => Kind[Kids[N][k]] \in ExprKinds
  PROVE  EvaluatorOK'
<1>1. /\ k \in DOMAIN Kids[N] /\ phase # "populate" /\ StackOK
      /\ UNCHANGED <<root, phase, nested>>
  BY KidFacts DEF EvaluatorOK, StackOK, Going
<1>2. StackOK' /\ Cardinality(Owners)' =
                    Cardinality(Owners) + One(Owns(Later(k, v))) - One(Owns(Top))
  BY <1>1, NextChildStep, Zenon
<1>3. Cardinality(Owners) \in Nat
  BY OwnersFinite DEF EvaluatorOK, StackOK
<1>4. Cardinality(Owners)' = Cardinality(Owners) + 1
  BY <1>2, <1>3 DEF One
<1>5. vis' \in Seq(Visitors) /\ Len(vis') = Len(vis) + 1
  BY NewVisitorFacts DEF EvaluatorOK
<1> QED BY <1>1, <1>2, <1>4, <1>5 DEF EvaluatorOK, TableOK, Going

\* A comparison creates its typed_interpreter, or ends the evaluation.
LEMMA BeginEqualsStep ==
  ASSUME EvaluatorOK, phase = "eval", BeginEquals, UNCHANGED root
  PROVE  EvaluatorOK'
<1>1. stk # << >> /\ Kind[N] = "comp_equals" /\ Kind[N] # "block" /\ Top.stage = 0
  BY DEF BeginEquals, Running
<1>2. ~Owns(Top) /\ Owns(Later(1, 0))
  BY <1>1, OwnsFacts DEF EvaluatorOK, StackOK
<1>3. CASE Throw("invalid use of ==") \/ Die
  BY <1>3, UndefinedStep
<1>4. CASE /\ Annotation(N) \in ValueTypes
           /\ NewVisitor(ComparedAs(Annotation(N)))
           /\ Call(1, 0, TRUE) /\ Going /\ UNCHANGED <<table, nested, last>>
  <2>1. ComparedAs(Annotation(N)) \in ValueTypes
    BY <1>4 DEF ComparedAs, ValueTypes
  <2>2. 1 \in 1..Arity(Kind[N]) /\ 0 \in Int /\ TRUE \in BOOLEAN /\ Top.stage + 1 = 1
    BY <1>1, ArityFacts
  <2>3. Kind[Kids[N][1]] \in ExprKinds
    BY <1>1, <2>2, KidFacts DEF EvaluatorOK, StackOK, ExprKinds
  <2>4. UNCHANGED <<root, table, nested, last>>
    BY <1>4
  <2> QED BY <1>1, <1>2, <1>4, <2>1, <2>2, <2>3, <2>4, EvalOwnerStep, Zenon
<1>5. CASE SetValue(0) /\ Return /\ Going /\ UNCHANGED <<table, nested, last>>
  <2>1. UNCHANGED <<root, table, nested, last>> /\ 0 \in Int
    BY <1>5
  <2> QED BY <1>1, <1>2, <1>5, <2>1, EvalValueStep, Zenon
<1> QED BY <1>3, <1>4, <1>5 DEF BeginEquals

\* A comparison destroys its typed_interpreter and gives its caller's a value.
LEMMA EndEqualsStep ==
  ASSUME EvaluatorOK, phase = "eval", EndEquals, UNCHANGED root
  PROVE  EvaluatorOK'
<1>1. stk # << >> /\ Kind[N] = "comp_equals" /\ Kind[N] # "block" /\ Top.stage = 2
  BY DEF EndEquals, Running
<1>2. Owns(Top)
  BY <1>1, OwnsFacts DEF EvaluatorOK, StackOK
<1> DEFINE truth == IF Top.local = Value THEN 1 ELSE 0
           below == vis[Len(vis) - 1]
<1>3. CASE Undefined
  BY <1>3, UndefinedStep
<1>4. CASE /\ vis' = Append(SubSeq(vis, 1, Len(vis) - 2), [below EXCEPT !.val = truth])
           /\ Return /\ Going /\ UNCHANGED <<table, nested, last>>
  <2>1. vis \in Seq(Visitors) /\ Len(vis) \in Nat /\ Len(vis) >= 2
        /\ Len(vis) = Cardinality(Owners)
    BY <1>1, <1>2, VisFacts DEF EvaluatorOK
  <2>2. OuterVis \in Seq(Visitors) /\ Len(OuterVis) = Len(vis) - 1 /\ OuterVis # << >>
    BY <1>1, <2>1, VisFacts
  <2>3. below \in Visitors
    BY <2>1
  <2>4. [below EXCEPT !.val = truth] \in Visitors
    <3> HIDE DEF below
    <3> QED BY <2>3 DEF Visitors
  <2>5. SubSeq(vis, 1, Len(vis) - 2) \in Seq(Visitors)
    BY <2>1
  <2>6. Len(SubSeq(vis, 1, Len(vis) - 2)) = Len(vis) - 2
    <3>1. \A n \in Nat : n >= 2 => Len(SubSeq(vis, 1, n - 2)) = n - 2
      OBVIOUS
    <3> QED BY <2>1, <3>1
  <2>7. vis' \in Seq(Visitors) /\ Len(vis') = Len(vis) - 1
    <3> DEFINE front == SubSeq(vis, 1, Len(vis) - 2)
               e     == [below EXCEPT !.val = truth]
    <3>1. vis' = Append(front, e) /\ front \in Seq(Visitors) /\ e \in Visitors
          /\ Len(front) = Len(vis) - 2
      BY <1>4, <2>4, <2>5, <2>6
    <3> HIDE DEF front, e
    <3> QED BY <2>1, <3>1
  <2>8. UNCHANGED <<root, phase, nested>>
    BY <1>4 DEF Going
  <2>9. StackOK'
    BY <1>1, <1>4, <2>8, ReturnStep DEF EvaluatorOK
  <2>10. Cardinality(Owners)' = Cardinality(Owners) - 1
    <3>1. Cardinality(Owners)' = Cardinality(Owners) - One(Owns(Top))
      BY <1>1, <1>4, ReturnOwners DEF EvaluatorOK, StackOK
    <3> QED BY <1>2, <3>1 DEF One
  <2> QED BY <1>4, <2>1, <2>7, <2>8, <2>9, <2>10 DEF EvaluatorOK, TableOK, Going
<1> QED BY <1>3, <1>4 DEF EndEquals

\* The interpreter on comparisons.
LEMMA EvalEqualsStep ==
  ASSUME EvaluatorOK, phase = "eval", EvalEquals, UNCHANGED root
  PROVE  EvaluatorOK'
<1>1. CASE BeginEquals
  BY <1>1, BeginEqualsStep
<1>2. CASE Running({"comp_equals"}, 1) /\ EvalChild(2, Value)
  <2>1. /\ stk # << >> /\ Kind[N] = "comp_equals" /\ Kind[N] # "block" /\ Kind[N] \in ExprKinds
        /\ Top.stage = 1
    BY <1>2 DEF Running, ExprKinds
  <2>2. 2 \in 1..Arity(Kind[N]) /\ Top.stage + 1 = 2 /\ Value \in Int
    BY <2>1, ArityFacts, VisFacts
  <2>3. Owns(Later(2, Value)) <=> Owns(Top)
    BY <2>1, OwnsFacts DEF EvaluatorOK, StackOK
  <2> QED BY <1>2, <2>1, <2>2, <2>3, EvalChildStep, Zenon
<1>3. CASE EndEquals
  BY <1>3, EndEqualsStep
<1> QED BY <1>1, <1>2, <1>3 DEF EvalEquals

\* A visit by a typed_interpreter has a visitor that is no typed_interpreter<void>.
LEMMA TypedFacts ==
  ASSUME Typed, Kind[N] = "assign"
  PROVE  Top.typed
BY DEF Typed

\* The constants that assignments create are constants.
LEMMA NewConstantTypes ==
  ASSUME NEW ty, NEW v \in Int
  PROVE  /\ NewConstant(ty, v) \in Pointers /\ NewTypedConstant(ty, v) \in Pointers
         /\ NewConstant(ty, v).kind \in ConstantKinds /\ NewTypedConstant(ty, v).kind \in ConstantKinds
<1>1. \A kind \in ConstantKinds, w \in Int :
        Const(kind, w) \in Pointers /\ Const(kind, w).kind \in ConstantKinds
  BY DEF Const, Pointers, PointerKinds
<1>2. 2 * v \in Int
  OBVIOUS
<1>3. {"int_constant", "float_constant", "string_constant"} = ConstantKinds
  BY DEF ConstantKinds
<1>4. "int_constant" \in ConstantKinds /\ "float_constant" \in ConstantKinds /\ "string_constant" \in ConstantKinds
  BY <1>3
<1> QED BY <1>1, <1>2, <1>4 DEF NewConstant, NewTypedConstant

\* The interpreter on assignments under an operator or in a condition.
LEMMA TypedAssignStep ==
  ASSUME EvaluatorOK, phase = "eval", BeginTypedAssign \/ EndTypedAssign, UNCHANGED root
  PROVE  EvaluatorOK'
<1>1. stk # << >> /\ Kind[N] = "assign" /\ Kind[N] # "block" /\ Kind[N] \in ExprKinds /\ Top.typed
  BY TypedFacts DEF BeginTypedAssign, EndTypedAssign, Running, ExprKinds
<1>2. ~Owns(Top) /\ ~Owns(Later(1, 0))
  BY <1>1, OwnsFacts DEF EvaluatorOK, StackOK
<1>3. Value \in Int /\ Visiting.ty \in TableTypes /\ Var[N] \in Name
  BY <1>1, VisFacts, KidFacts DEF EvaluatorOK, StackOK
<1> DEFINE res == Lookup(Var[N], FALSE)
           v   == Load(Visiting.ty, res.ptr, Value)
           e   == Entry(NewTypedConstant(Visiting.ty, Value), Visiting.ty, TRUE)
<1>4. CASE Top.stage = 0 /\ EvalChild(1, 0)
  <2>1. 1 \in 1..Arity(Kind[N]) /\ 0 \in Int /\ Top.stage + 1 = 1
    BY <1>1, <1>4, ArityFacts
  <2> QED BY <1>1, <1>2, <1>4, <2>1, EvalChildStep, Zenon
<1>5. CASE SetValue(v) /\ Return /\ Going /\ UNCHANGED <<table, nested, last>>
  <2>1. res.ptr.val \in Int
    BY LookupTypes DEF Lookup, EvaluatorOK, StackOK
  <2>2. v \in Int
    BY <1>3, <2>1, LoadTypes
  <2>3. SetValue(v) /\ Return /\ Going /\ UNCHANGED <<root, table, nested, last>>
    BY <1>5
  <2> HIDE DEF v
  <2> QED BY <1>1, <1>2, <2>2, <2>3, EvalValueStep
<1>6. CASE Undefined
  BY <1>6, UndefinedStep
<1>7. CASE Set(Var[N], e) /\ Return /\ Going /\ UNCHANGED <<nested, vis, last>>
  <2>1. e \in Entries
    BY <1>3, NewConstantTypes, EntryTypes
  <2>2. TableOK'
    <3> HIDE DEF e
    <3> QED BY <1>3, <1>7, <2>1, SetTypes DEF EvaluatorOK, StackOK
  <2>3. UNCHANGED <<root, phase, nested>>
    BY <1>7 DEF Going
  <2>4. StackOK' /\ Cardinality(Owners)' = Cardinality(Owners)
    BY <1>1, <1>2, <1>7, <2>3, EvalReturnStep
  <2> QED BY <1>7, <2>2, <2>4 DEF EvaluatorOK, Going
<1>8. CASE BeginTypedAssign
  BY <1>4, <1>5, <1>8 DEF BeginTypedAssign, Running
<1>9. CASE EndTypedAssign
  BY <1>6, <1>7, <1>9 DEF EndTypedAssign
<1> QED BY <1>8, <1>9

\* The interpreter on blocks.
LEMMA EvalBlockStep ==
  ASSUME EvaluatorOK, phase = "eval", EvalBlock, UNCHANGED root
  PROVE  EvaluatorOK'
<1>1. UNCHANGED <<root, phase>> /\ UNCHANGED <<table, last, result>> /\ StackOK /\ vis \in Seq(Visitors)
      /\ Len(vis) = Cardinality(Owners) /\ Cardinality(Owners) \in Nat
  BY OwnersFinite DEF EvalBlock, Going, EvaluatorOK, StackOK
<1>2. CASE EnterScope(0) /\ vis' = Append(vis, VoidVisitor)
  <2>1. stk # << >> /\ 0 \in Int
    BY <1>2 DEF EnterScope, Running
  <2>2. StackOK' /\ Cardinality(Owners)' = Cardinality(Owners) + 1
    BY <1>1, <1>2, <2>1, EnterStep
  <2>3. VoidVisitor \in Visitors
    BY DEF VoidVisitor, Visitors
  <2>4. vis' \in Seq(Visitors) /\ Len(vis') = Len(vis) + 1
    BY <1>1, <1>2, <2>3
  <2> QED BY <1>1, <2>2, <2>4 DEF EvaluatorOK, TableOK
<1>3. CASE NextStatement /\ UNCHANGED vis
  BY <1>1, <1>3, StatementStep DEF EvaluatorOK, TableOK
<1>4. CASE LeaveScope /\ vis' = OuterVis
  <2>1. stk # << >> /\ Kind[N] = "block" /\ Top.stage = Len(Kids[N]) + 1
    BY <1>4 DEF LeaveScope, Running
  <2>2. Kids[N] \in Seq(Node)
    BY <2>1, KidFacts DEF StackOK, EvaluatorOK
  <2>3. Top.stage > 0
    BY <2>1, <2>2
  <2>4. Cardinality(Owners) >= 1
    BY <1>1, <2>1, <2>3, RootFacts, EnoughOwners DEF StackOK
  <2>5. vis # << >>
    BY <1>1, <2>4
  <2>6. vis' \in Seq(Visitors) /\ Len(vis') = Len(vis) - 1
    BY <1>1, <1>4, <2>5, FrontFacts DEF OuterVis
  <2>7. StackOK' /\ Cardinality(Owners)' = Cardinality(Owners) - 1
    BY <1>1, <1>4, LeaveStep
  <2> QED BY <1>1, <2>6, <2>7 DEF EvaluatorOK, TableOK
<1> QED BY <1>2, <1>3, <1>4 DEF EvalBlock

\* A call that owns the last visitor returns.
LEMMA OwnerReturnStep ==
  ASSUME EvaluatorOK, phase = "eval", stk # << >>, Kind[N] # "block", Owns(Top),
         Return, vis' = OuterVis, UNCHANGED <<root, phase, nested>>
  PROVE  StackOK' /\ vis' \in Seq(Visitors) /\ Len(vis') = Cardinality(Owners)'
<1>1. StackOK'
  BY ReturnStep DEF EvaluatorOK
<1>2. Cardinality(Owners)' = Cardinality(Owners) - One(Owns(Top))
  BY ReturnOwners DEF EvaluatorOK, StackOK
<1>3. vis' \in Seq(Visitors) /\ Len(vis') = Len(vis) - 1 /\ Len(vis) = Cardinality(Owners)
  BY VisFacts DEF EvaluatorOK
<1> QED BY <1>1, <1>2, <1>3 DEF One

\* The interpreter on assignments that are statements.
LEMMA AssignStep ==
  ASSUME EvaluatorOK, phase = "eval", BeginAssign \/ EndAssign, UNCHANGED root
  PROVE  EvaluatorOK'
<1>1. stk # << >> /\ Kind[N] = "assign" /\ Kind[N] # "block" /\ ~Top.typed
  BY DEF BeginAssign, EndAssign, Statement, Running
<1>2. Value \in Int /\ Visiting.ty \in TableTypes /\ Var[N] \in Name
      /\ last.id \in Nat /\ last.ptr \in Pointers
  BY <1>1, VisFacts, KidFacts DEF EvaluatorOK, StackOK
<1> DEFINE outty == Lookup(Var[N], FALSE).type
<1>3. CASE Die \/ Undefined
  BY <1>3, UndefinedStep
<1>4. CASE /\ Top.stage = 0 /\ outty \in ValueTypes /\ NewVisitor(outty) /\ Call(1, last.id, FALSE)
           /\ Going /\ UNCHANGED <<table, nested, last>>
  <2>1. 1 \in 1..Arity(Kind[N]) /\ last.id \in Int /\ FALSE \in BOOLEAN /\ Top.stage + 1 = 1 /\ ~FALSE
    BY <1>1, <1>2, <1>4, ArityFacts
  <2>2. ~Owns(Top) /\ Owns(Later(1, last.id))
    BY <1>1, <1>4, OwnsFacts DEF EvaluatorOK, StackOK
  <2>3. UNCHANGED <<root, table, nested, last>>
    BY <1>4
  <2> HIDE DEF outty
  <2> QED BY <1>1, <1>4, <2>1, <2>2, <2>3, EvalOwnerStep, Zenon
<1>5. CASE /\ Top.stage = 1 /\ Set(Var[N], NewEntry)
           /\ last' = IF Cascading THEN last ELSE [id |-> last.id + 1, ptr |-> NewValue]
           /\ vis' = OuterVis
           /\ Return /\ Going /\ UNCHANGED nested
  <2>1. NewValue \in Pointers
    BY <1>2, NewConstantTypes DEF NewValue
  <2>2. TableOK'
    <3>1. NewEntry \in Entries
      BY <1>2, <2>1, EntryTypes DEF NewEntry
    <3> QED BY <1>2, <1>5, <3>1, SetTypes DEF EvaluatorOK, StackOK
  <2>3. Owns(Top)
    BY <1>1, <1>5 DEF Owns, N
  <2>4. UNCHANGED <<root, phase, nested, result>>
    BY <1>5 DEF Going
  <2>5. StackOK' /\ vis' \in Seq(Visitors) /\ Len(vis') = Cardinality(Owners)'
    BY <1>1, <1>5, <2>3, <2>4, OwnerReturnStep
  <2>6. last' \in [id : Nat, ptr : Pointers]
    BY <1>2, <1>5, <2>1 DEF EvaluatorOK
  <2> QED BY <2>2, <2>4, <2>5, <2>6 DEF EvaluatorOK
<1>6. CASE BeginAssign
  BY <1>3, <1>4, <1>6 DEF BeginAssign, Statement, Running
<1>7. CASE EndAssign
  BY <1>3, <1>5, <1>7 DEF EndAssign, Cleanup, Statement, Running
<1> QED BY <1>6, <1>7

\* The interpreter on if statements.
LEMMA IfStep ==
  ASSUME EvaluatorOK, phase = "eval", BeginIf \/ DecideIf \/ EndIf, UNCHANGED root
  PROVE  EvaluatorOK'
<1>1. stk # << >> /\ Kind[N] = "if_stmt" /\ Kind[N] # "block"
  BY DEF BeginIf, DecideIf, EndIf, Statement, Running
<1>2. Cardinality(Owners) \in Nat
  BY OwnersFinite DEF EvaluatorOK, StackOK
<1>3. CASE Die \/ Undefined
  BY <1>3, UndefinedStep
<1>4. CASE /\ Top.stage = 0 /\ Annotation(N) \in ValueTypes
           /\ NewVisitor(Annotation(N)) /\ Call(1, 0, TRUE)
           /\ Going /\ UNCHANGED <<table, nested, last>>
  <2>1. 1 \in 1..Arity(Kind[N]) /\ 0 \in Int /\ TRUE \in BOOLEAN /\ Top.stage + 1 = 1
    BY <1>1, <1>4, ArityFacts
  <2>2. ~Owns(Top) /\ Owns(Later(1, 0))
    BY <1>1, <1>4, OwnsFacts DEF EvaluatorOK, StackOK
  <2>3. Kind[Kids[N][1]] \in ExprKinds
    BY <1>1, KidFacts DEF EvaluatorOK, StackOK
  <2>4. UNCHANGED <<root, table, nested, last>>
    BY <1>4
  <2> QED BY <1>1, <1>4, <2>1, <2>2, <2>3, <2>4, EvalOwnerStep, Zenon
<1>5. CASE Top.stage # 1 /\ Return /\ Going /\ UNCHANGED <<table, nested, vis, last>>
  <2>1. ~Owns(Top)
    BY <1>1, <1>5 DEF Owns, N
  <2>2. UNCHANGED <<root, table, nested, vis, last>>
    BY <1>5
  <2> QED BY <1>1, <1>5, <2>1, <2>2, EvalKeepStep, Zenon
<1>6. CASE /\ Top.stage = 1 /\ vis' = OuterVis
           /\ Call(2, 0, FALSE) \/ Return
           /\ Going /\ UNCHANGED <<table, nested, last>>
  <2>1. Owns(Top)
    BY <1>1, <1>6 DEF Owns, N
  <2>2. UNCHANGED <<root, phase, nested>>
    BY <1>6 DEF Going
  <2>3. CASE Return
    <3>1. StackOK' /\ vis' \in Seq(Visitors) /\ Len(vis') = Cardinality(Owners)'
      BY <1>1, <1>6, <2>1, <2>2, <2>3, OwnerReturnStep, Zenon
    <3> QED BY <1>6, <3>1 DEF EvaluatorOK, TableOK, Going
  <2>4. CASE Call(2, 0, FALSE)
    <3>1. 2 \in DOMAIN Kids[N] /\ 0 \in Int /\ FALSE \in BOOLEAN /\ ~FALSE /\ Top.stage + 1 = 2
          /\ phase # "populate" /\ StackOK
      BY <1>1, <1>6, KidFacts, ArityFacts DEF EvaluatorOK, StackOK
    <3>2. StackOK' /\ Cardinality(Owners)' =
                        Cardinality(Owners) + One(Owns(Later(2, 0))) - One(Owns(Top))
      BY <1>1, <2>2, <2>4, <3>1, NextChildStep, Zenon
    <3>3. ~Owns(Later(2, 0))
      BY <1>1, OwnsFacts DEF EvaluatorOK, StackOK
    <3>4. Cardinality(Owners)' = Cardinality(Owners) - 1
      BY <1>2, <2>1, <3>2, <3>3 DEF One
    <3>5. vis' \in Seq(Visitors) /\ Len(vis') = Len(vis) - 1
      BY <1>1, <1>6, VisFacts
    <3> QED BY <1>6, <3>2, <3>4, <3>5 DEF EvaluatorOK, TableOK, Going
  <2> QED BY <1>6, <2>3, <2>4
<1>7. CASE BeginIf
  <2>1. Top.stage = 0 /\ Top.stage # 1
    BY <1>7 DEF BeginIf, Statement, Running
  <2>2. CASE Annotation(N) \in ValueTypes
    BY <1>4, <1>7, <2>1, <2>2 DEF BeginIf
  <2>3. CASE Annotation(N) \notin ValueTypes /\ NDEBUG
    BY <1>5, <1>7, <2>1, <2>3 DEF BeginIf
  <2>4. CASE Annotation(N) \notin ValueTypes /\ ~NDEBUG
    BY <1>3, <1>7, <2>4 DEF BeginIf
  <2> QED BY <2>2, <2>3, <2>4
<1>8. CASE DecideIf
  BY <1>3, <1>6, <1>8 DEF DecideIf, Statement, Running
<1>9. CASE EndIf
  BY <1>5, <1>9 DEF EndIf, Statement, Running
<1> QED BY <1>7, <1>8, <1>9

\* Every step of the interpreter keeps the machine's invariant.
LEMMA EvalMachine ==
  ASSUME MachineOK, Eval
  PROVE  MachineOK'
<1>1. phase = "eval" /\ EvalStep /\ UNCHANGED <<root, curr, anntype, checked, populated, runs>>
  BY DEF Eval, EvalStep
<1>2. EvaluatorOK
  BY <1>1 DEF MachineOK, TypeOK, EvaluatorOK, StackOK, TableOK, VisitorsOK
<1>3. EvaluatorOK'
  BY <1>1, <1>2, EvalLeafStep, EvalOperatorStep, EvalEqualsStep, TypedAssignStep,
     EvalBlockStep, AssignStep, IfStep DEF EvalStep
<1>4. TypeOK'
  BY <1>1, <1>3 DEF MachineOK, TypeOK, EvaluatorOK, StackOK, TableOK, Phases
<1> QED BY <1>1, <1>3, <1>4 DEF MachineOK, EvaluatorOK, StackOK, VisitorsOK, IdleOK

-----------------------------------------------------------------------------
(***************************************************************************)
(* The steps between the passes, and the theorem.                          *)
(***************************************************************************)
LEMMA OneElement ==
  ASSUME NEW S, NEW e \in S
  PROVE  /\ <<e>> \in Seq(S) /\ Len(<<e>>) = 1 /\ <<e>>[1] = e /\ <<e>> # << >>
         /\ \A i \in 1..Len(<<e>>) : <<e>>[i] = e
<1>1. <<e>> \in Seq(S)
  OBVIOUS
<1>2. Len(<<e>>) = 1 /\ <<e>>[1] = e /\ <<e>> # << >>
  OBVIOUS
<1> QED BY <1>1, <1>2

\* A pass begins with the call of the root.
LEMMA FirstCall ==
  ASSUME root' \in Root, nested' = << >>, stk' = <<Frame(root, FALSE, << >>)>>, UNCHANGED root
  PROVE  StackOK' /\ Owners' = {}
<1> DEFINE f == Frame(root, FALSE, << >>)
<1>1. f.n = root /\ f.stage = 0 /\ f.typed = FALSE /\ f.scope = << >>
  BY DEF Frame
<1>2. f \in Frames
  BY RootFacts DEF Frames, Frame
<1>3. stk' = <<f>>
  OBVIOUS
<1> HIDE DEF f
<1>4. /\ stk' \in Seq(Frames) /\ Len(stk') = 1 /\ stk'[1] = f /\ stk' # << >>
      /\ \A i \in 1..Len(stk') : stk'[i] = f
  BY <1>2, <1>3, OneElement, Zenon
<1>5. (\A i \in 1..Len(stk') : i = 1) /\ (\A i \in 2..Len(stk') : FALSE)
  BY <1>4
<1>6. Kind[root] = "block" /\ nested' \in Seq(Node)
  BY RootFacts
<1>7. PathOK'
  <2>1. Top' = f
    BY <1>4 DEF Top
  <2>2. nested' = Inside(Top)'
    BY <1>1, <2>1 DEF Inside
  <2> QED BY <1>1, <1>4, <1>5, <1>6, <2>2 DEF PathOK
<1>8. SavedOK'
  <2>1. ~(f.stage > 0)
    BY <1>1
  <2>2. \A i \in 1..Len(stk') : ~(stk'[i].stage > 0)
    BY <1>4, <2>1, Zenon
  <2> QED BY <2>2 DEF SavedOK
<1>9. Owners' = {}
  <2>1. ~Owns(f)
    BY <1>1, <1>6 DEF Owns
  <2>2. Owners' = {i \in 1..Len(stk') : Owns(stk'[i])}
    BY DEF Owners, Owns
  <2> QED BY <1>4, <1>5, <2>1, <2>2
<1> QED BY <1>4, <1>6, <1>7, <1>8, <1>9 DEF StackOK

\* MachineOK holds initially.
LEMMA InitMachine ==
  ASSUME Init
  PROVE  MachineOK
<1> DEFINE f == Frame(root, FALSE, << >>)
<1>1. f.n = root /\ f.stage = 0 /\ f.typed = FALSE /\ f.scope = << >>
  BY DEF Frame
<1>2. Kind[root] = "block" /\ root \in Root /\ root \in Node
  BY RootFacts DEF Init
<1>3. f \in Frames
  BY <1>2 DEF Frames, Frame
<1>4. /\ stk = <<f>> /\ nested = << >> /\ phase = "populate" /\ result = "none"
      /\ table = << >> /\ anntype = << >> /\ populated = {} /\ checked = {}
      /\ curr = Undet /\ vis = << >> /\ last = NoConstant /\ runs = 0
  BY DEF Init
<1> HIDE DEF f
<1>5. stk \in Seq(Frames) /\ Len(stk) = 1 /\ stk[1] = f /\ stk # << >>
  BY <1>3, <1>4, OneElement, Zenon
<1>6. (\A i \in 1..Len(stk) : i = 1) /\ (\A i \in 2..Len(stk) : FALSE)
  BY <1>5
<1>7. PathOK
  <2>1. Top = f
    BY <1>5 DEF Top
  <2>2. nested = Inside(Top)
    BY <1>1, <1>4, <2>1 DEF Inside
  <2> QED BY <1>1, <1>2, <1>4, <1>5, <1>6, <2>2 DEF PathOK
<1>8. nested \in Seq(Node) /\ vis \in Seq(Visitors)
  BY <1>4
<1>9. DOMAIN table = {} /\ DOMAIN anntype = {}
  BY <1>4
<1>10. last \in [id : Nat, ptr : Pointers]
  BY <1>4 DEF NoConstant, Null, Pointers, PointerKinds
<1>11. curr \in TableTypes /\ phase \in Phases /\ result \in Results /\ runs \in 0..MaxRuns
  BY <1>4, MaxRunsAssumption DEF TableTypes, Phases, Results
<1>12. TypeOK
  BY <1>2, <1>4, <1>5, <1>8, <1>9, <1>10, <1>11 DEF TypeOK
<1> QED BY <1>4, <1>7, <1>12 DEF MachineOK, VisitorsOK, SavedOK, IdleOK

\* Going from a pass to the next, and starting and ending an evaluation.
LEMMA BetweenMachine ==
  ASSUME MachineOK, StartCheck \/ EndCheck \/ Evaluate \/ EndEvaluate
  PROVE  MachineOK'
<1>1. /\ stk = << >> /\ nested = << >> /\ vis = << >>
      /\ UNCHANGED <<table, nested, root, populated, curr, anntype, checked, vis>>
  <2>1. stk = << >>
    BY DEF StartCheck, EndCheck, Evaluate, EndEvaluate, MachineOK, IdleOK
  <2>2. nested = << >>
    BY <2>1 DEF MachineOK, PathOK
  <2>3. Cardinality(Owners) = 0
    <3>1. Owners = {}
      BY <2>1 DEF Owners
    <3> QED BY <3>1, FS_EmptySet
  <2>4. Len(vis) = 0 \/ vis = << >>
    BY <2>3 DEF MachineOK, VisitorsOK
  <2>5. vis = << >>
    BY <2>4 DEF MachineOK, TypeOK
  <2> QED BY <2>1, <2>2, <2>5 DEF StartCheck, EndCheck, Evaluate, EndEvaluate
<1>2. /\ phase' \in Phases /\ phase' # "populate" /\ result' \in Results /\ runs' \in 0..MaxRuns
      /\ last' \in [id : Nat, ptr : Pointers]
  <2>1. phase' \in Phases /\ phase' # "populate" /\ result' \in Results
    BY DEF StartCheck, EndCheck, Evaluate, EndEvaluate, Phases, Results, MachineOK, TypeOK
  <2>2. runs' \in 0..MaxRuns
    <3>1. runs \in 0..MaxRuns /\ MaxRuns \in Nat
      BY MaxRunsAssumption DEF MachineOK, TypeOK
    <3>2. runs' = runs \/ (runs < MaxRuns /\ runs' = runs + 1)
      BY DEF StartCheck, EndCheck, Evaluate, EndEvaluate
    <3> QED BY <3>1, <3>2
  <2>3. last' \in [id : Nat, ptr : Pointers]
    <3>1. NoConstant \in [id : Nat, ptr : Pointers]
      BY DEF NoConstant, Null, Pointers, PointerKinds
    <3> QED BY <3>1 DEF StartCheck, EndCheck, Evaluate, EndEvaluate, MachineOK, TypeOK
  <2> QED BY <2>1, <2>2, <2>3
<1>3. CASE stk' = <<Frame(root, FALSE, << >>)>> /\ phase' \in {"check", "eval"}
  <2>1. StackOK' /\ Owners' = {}
    BY <1>1, <1>3, FirstCall DEF MachineOK, TypeOK
  <2>2. TypeOK'
    BY <1>1, <1>2, <2>1 DEF MachineOK, TypeOK, StackOK
  <2>3. VisitorsOK'
    <3>1. Cardinality({}) = 0
      BY FS_EmptySet
    <3>2. vis' = << >> /\ Len(vis') = 0 /\ Cardinality(Owners') = 0
      BY <1>1, <2>1, <3>1
    <3> QED BY <3>2 DEF VisitorsOK
  <2> QED BY <1>3, <2>1, <2>2, <2>3 DEF MachineOK, StackOK, IdleOK
<1>4. CASE stk' = << >> /\ phase' = "ready"
  <2>1. StackOK'
    BY <1>1, <1>4, ClearStep DEF StackOK, MachineOK, TypeOK
  <2>2. TypeOK'
    BY <1>1, <1>2, <2>1 DEF MachineOK, TypeOK, StackOK
  <2> QED BY <1>1, <1>4, <2>1, <2>2 DEF MachineOK, StackOK, VisitorsOK, IdleOK
<1> QED BY <1>1, <1>3, <1>4 DEF StartCheck, EndCheck, Evaluate, EndEvaluate

\* MachineOK is preserved by every step.
LEMMA MachineInductive ==
  ASSUME MachineOK, [Next]_vars
  PROVE  MachineOK'
<1>1. CASE UNCHANGED vars
  <2>1. UNCHANGED <<table, nested, root, phase, result, stk, populated, curr, anntype, checked, vis, last, runs>>
    BY <1>1 DEF vars
  <2>2. TypeOK'
    BY <2>1 DEF MachineOK, TypeOK
  <2>3. PathOK'
    BY <2>1 DEF MachineOK, PathOK, Top, Inside, Calls, Called
  <2>4. VisitorsOK'
    <3>1. Owners' = Owners
      BY <2>1 DEF Owners, Owns
    <3> QED BY <2>1, <3>1 DEF MachineOK, VisitorsOK
  <2>5. SavedOK' /\ IdleOK'
    BY <2>1 DEF MachineOK, SavedOK, IdleOK
  <2> QED BY <2>2, <2>3, <2>4, <2>5 DEF MachineOK
<1>2. CASE Next
  BY <1>2, PopulateMachine, CheckMachine, EvalMachine, BetweenMachine DEF Next
<1> QED BY <1>1, <1>2

(***************************************************************************)
(* The recursion of the visitors is consistent in every reachable state:   *)
(* the running calls are a path of the tree, the accessor's list is the    *)
(* blocks entered on that path, and each typed_interpreter alive is a      *)
(* local variable of exactly one of these calls.                           *)
(***************************************************************************)
THEOREM Machine == Spec => []MachineOK
BY InitMachine, MachineInductive, PTL DEF Spec

(***************************************************************************)
(* The passes never confuse what they keep: every table entry, every type, *)
(* every scope, every visitor stays of its kind, for all trees that the    *)
(* parser can build, all names, both builds and any number of evaluations. *)
(***************************************************************************)
THEOREM TypeCorrect == Spec => []TypeOK
<1>1. MachineOK => TypeOK
  BY DEF MachineOK
<1> QED BY <1>1, Machine, PTL

-----------------------------------------------------------------------------
(***************************************************************************)
(* VisitsOK: which visitor belongs to which call.                          *)
(***************************************************************************)

\* The owners up to i are counted by the rank of i, the last owner's is their number.
LEMMA RankFacts ==
  ASSUME stk \in Seq(Frames), NEW i \in Owners
  PROVE  /\ Rank(i) \in 1..Cardinality(Owners)
         /\ i # Len(stk) => Rank(i) \in 1..(Cardinality(Owners) - One(Len(stk) \in Owners))
         /\ i = Len(stk) => Rank(i) = Cardinality(Owners)
<1> DEFINE L == Len(stk)
           S == Owners
           R == {j \in S : j <= i}
<1>1. L \in Nat /\ S \subseteq 1..L /\ IsFiniteSet(S) /\ i \in S /\ Rank(i) = Cardinality(R)
  BY OwnersFinite DEF Owners, Rank
<1> HIDE DEF L, S
<1>2. R \in SUBSET S /\ {i} \in SUBSET R
  BY <1>1
<1>3. IsFiniteSet(R) /\ Cardinality(R) <= Cardinality(S)
  BY <1>1, <1>2, FS_Subset, Zenon
<1>4. Cardinality({i}) = 1 /\ Cardinality({i}) <= Cardinality(R)
  BY <1>2, <1>3, FS_Subset, FS_Singleton, Zenon
<1>5. Cardinality(R) \in Nat /\ Cardinality(S) \in Nat
  BY <1>1, <1>3, FS_CardinalityType, Zenon
<1>6. ASSUME i # L PROVE Cardinality(R) <= Cardinality(S) - One(L \in S)
  <2>1. R \in SUBSET (S \ {L})
    BY <1>1, <1>6
  <2>2. IsFiniteSet(S \ {L})
        /\ Cardinality(S \ {L}) = IF L \in S THEN Cardinality(S) - 1 ELSE Cardinality(S)
    BY <1>1, FS_RemoveElement, Zenon
  <2>3. Cardinality(R) <= Cardinality(S \ {L})
    BY <2>1, <2>2, FS_Subset, Zenon
  <2> HIDE DEF R
  <2> QED BY <1>5, <2>2, <2>3 DEF One
<1>7. ASSUME i = L PROVE R = S
  <2>1. \A j \in 1..L : j <= L
    BY <1>1
  <2>2. \A j \in S : j <= i
    BY <1>1, <1>7, <2>1, Zenon
  <2> QED BY <2>2, Zenon
<1> HIDE DEF R
<1>8. Cardinality(R) \in 1..Cardinality(S)
  BY <1>3, <1>4, <1>5
<1>9. i # L => Cardinality(R) \in 1..(Cardinality(S) - One(L \in S))
  <2>1. One(L \in S) \in Int
    BY DEF One
  <2> QED BY <1>4, <1>5, <1>6, <2>1
<1> QED BY <1>1, <1>7, <1>8, <1>9 DEF L, S

(***************************************************************************)
(* What a step of the interpreter does to the visitors.  Only the call on  *)
(* top comes to own one, or gives its own up; an assignment's is of the    *)
(* type of its variable.                                                   *)
(***************************************************************************)
KeepsVisitors ==
  /\ Len(stk) \in Owners' => Len(stk) \in Owners
  /\ \A r \in 1..Len(vis) : vis'[r].ty = vis[r].ty

Adds(v) == /\ Len(stk) \notin Owners /\ Len(stk) \in Owners'
           /\ vis' = Append(vis, v)
           /\ v.ty \in TypesOf(Top)
           /\ Kind[N] = "assign" => v.ty = Lookup(Var[N], FALSE).type

DropsVisitor ==
  /\ Len(stk) \in Owners /\ Len(stk) \notin Owners'
  /\ \A r \in 1..(Len(vis) - 1) : vis'[r].ty = vis[r].ty

VisitShape ==
  \/ phase' # "eval"
  \/ TopOnly /\ (KeepsVisitors \/ (\E v \in Visitors : Adds(v)) \/ DropsVisitor)

\* Whatever the types w[i] that the owners i want, after such a step only the
\* one on top has a new visitor to answer for.
LEMMA RankedStep ==
  ASSUME stk \in Seq(Frames), TopOnly, NEW w,
         \A i \in Owners : vis[Rank(i)].ty \in w[i],
         \A r \in 1..(Cardinality(Owners) - One(Len(stk) \in Owners)) : vis'[r].ty = vis[r].ty,
         Len(stk) \in Owners' => vis'[Cardinality(Owners)'].ty \in w[Len(stk)]
  PROVE  \A i \in Owners' : vis'[Rank(i)'].ty \in w[i]
<1> DEFINE L == Len(stk)
           S == Owners
           T == Owners'
<1>1. L \in Nat /\ S \subseteq 1..L /\ T \subseteq 1..L /\ T \ {L} = S \ {L}
  BY DEF TopOnly
<1>2. \A i : Rank(i)' = Cardinality({j \in T : j <= i}) /\ Rank(i) = Cardinality({j \in S : j <= i})
  BY DEF Rank
<1>3. ASSUME NEW i \in T, i = L
      PROVE  vis'[Rank(i)'].ty \in w[i]
  <2>1. {j \in T : j <= i} = T
    <3> HIDE DEF L, T, S
    <3>1. \A j \in 1..L : j <= L
      BY <1>1
    <3>2. \A j \in T : j <= i
      BY <1>1, <1>3, <3>1, Zenon
    <3> QED BY <3>2, Zenon
  <2>2. Rank(i)' = Cardinality(Owners)'
    BY <1>2, <2>1
  <2> QED BY <1>3, <2>2
<1>4. ASSUME NEW i \in T, i # L
      PROVE  vis'[Rank(i)'].ty \in w[i]
  <2>1. i \in S /\ i \in 1..L /\ i < L
    <3> HIDE DEF L, T, S
    <3> QED BY <1>1, <1>4
  <2>2. {j \in T : j <= i} = {j \in S : j <= i}
    <3> HIDE DEF L, T, S
    <3>1. \A j \in S \cup T : j <= i => j # L
      BY <1>1, <2>1
    <3> QED BY <1>1, <3>1, Zenon
  <2>3. Rank(i)' = Rank(i)
    BY <1>2, <2>2, Zenon
  <2>4. Rank(i) \in 1..(Cardinality(Owners) - One(Len(stk) \in Owners))
    BY <1>4, <2>1, RankFacts
  <2>5. vis[Rank(i)].ty \in w[i]
    BY <2>1
  <2> QED BY <2>3, <2>4, <2>5
<1> QED BY <1>3, <1>4, Zenon

LEMMA VisitorsStep ==
  ASSUME EvaluatorOK, phase = "eval", TopOnly, NEW w,
         \A i \in Owners : vis[Rank(i)].ty \in w[i],
         \/ KeepsVisitors
         \/ \E v \in Visitors : Adds(v) /\ v.ty \in w[Len(stk)]
         \/ DropsVisitor
  PROVE  \A i \in Owners' : vis'[Rank(i)'].ty \in w[i]
<1>1. /\ stk \in Seq(Frames) /\ Len(vis) = Cardinality(Owners) /\ Cardinality(Owners) \in Nat
      /\ vis \in Seq(Visitors)
  BY OwnersFinite DEF EvaluatorOK, StackOK
<1>2. CASE KeepsVisitors
  <2>1. \A r \in 1..(Cardinality(Owners) - One(Len(stk) \in Owners)) : vis'[r].ty = vis[r].ty
    BY <1>1, <1>2 DEF One, KeepsVisitors
  <2>2. ASSUME Len(stk) \in Owners'
        PROVE  vis'[Cardinality(Owners)'].ty \in w[Len(stk)]
    <3>1. Len(stk) \in Owners
      BY <1>2, <2>2 DEF KeepsVisitors
    <3>2. Cardinality(Owners)' = Cardinality(Owners)
      BY <1>1, <2>2, <3>1, TopOnlyOwners DEF One
    <3>3. Rank(Len(stk)) = Cardinality(Owners) /\ Rank(Len(stk)) \in 1..Cardinality(Owners)
      BY <1>1, <3>1, RankFacts
    <3>4. vis[Cardinality(Owners)].ty \in w[Len(stk)]
      BY <3>1, <3>3
    <3> QED BY <1>1, <1>2, <3>2, <3>3, <3>4 DEF KeepsVisitors
  <2> QED BY <1>1, <2>1, <2>2, RankedStep
<1>3. ASSUME NEW v \in Visitors, Adds(v), v.ty \in w[Len(stk)]
      PROVE  \A i \in Owners' : vis'[Rank(i)'].ty \in w[i]
  <2>1. Len(stk) \notin Owners /\ Len(stk) \in Owners' /\ vis' = Append(vis, v)
    BY <1>3 DEF Adds
  <2>2. Cardinality(Owners)' = Cardinality(Owners) + 1
    BY <1>1, <2>1, TopOnlyOwners DEF One
  <2>3. vis'[Len(vis) + 1] = v /\ \A r \in 1..Len(vis) : vis'[r] = vis[r]
    BY <1>1, <2>1
  <2>4. \A r \in 1..(Cardinality(Owners) - One(Len(stk) \in Owners)) : vis'[r].ty = vis[r].ty
    BY <1>1, <2>1, <2>3 DEF One
  <2>5. vis'[Cardinality(Owners)'].ty \in w[Len(stk)]
    BY <1>1, <1>3, <2>2, <2>3
  <2> QED BY <1>1, <2>4, <2>5, RankedStep
<1>4. CASE DropsVisitor
  <2>1. \A r \in 1..(Cardinality(Owners) - One(Len(stk) \in Owners)) : vis'[r].ty = vis[r].ty
    BY <1>1, <1>4 DEF One, DropsVisitor
  <2>2. Len(stk) \notin Owners'
    BY <1>4 DEF DropsVisitor
  <2> QED BY <1>1, <2>1, <2>2, RankedStep
<1> QED BY <1>2, <1>3, <1>4

\* A step that keeps the visitors' types, and adds no owner.
LEMMA VisitsKeep ==
  ASSUME TopOnly, Len(stk) \in Owners' => Len(stk) \in Owners,
         \A r \in 1..Len(vis) : vis'[r].ty = vis[r].ty
  PROVE  VisitShape
BY DEF VisitShape, KeepsVisitors

\* The call on top becomes an owner, of a visitor with a type that it wants.
LEMMA VisitsPush ==
  ASSUME TopOnly, Len(stk) \notin Owners, Len(stk) \in Owners',
         NEW v \in Visitors, vis' = Append(vis, v), v.ty \in TypesOf(Top),
         Kind[N] = "assign" => v.ty = Lookup(Var[N], FALSE).type
  PROVE  VisitShape
BY DEF VisitShape, Adds

\* The call on top, an owner, gives its visitor up.
LEMMA VisitsPop ==
  ASSUME TopOnly, Len(stk) \in Owners, Len(stk) \notin Owners',
         \A r \in 1..(Len(vis) - 1) : vis'[r].ty = vis[r].ty
  PROVE  VisitShape
BY DEF VisitShape, DropsVisitor

-----------------------------------------------------------------------------
(***************************************************************************)
(* The same for the ways in which the interpreter's actions change vis.    *)
(***************************************************************************)

\* A call returns, and owns no visitor.
LEMMA VisitsReturn ==
  ASSUME EvaluatorOK, phase = "eval", stk # << >>, Return,
         \A r \in 1..Len(vis) : vis'[r].ty = vis[r].ty
  PROVE  VisitShape
<1>1. TopOnly /\ Len(stk) \notin Owners'
  BY ReturnTopOnly DEF EvaluatorOK, StackOK
<1> QED BY <1>1, VisitsKeep

\* A new value_ leaves the types as they are.
LEMMA SetValueTypes ==
  ASSUME EvaluatorOK, phase = "eval", stk # << >>, Kind[N] # "block", NEW v, SetValue(v)
  PROVE  \A r \in 1..Len(vis) : vis'[r].ty = vis[r].ty
<1> DEFINE w == [Visiting EXCEPT !.val = v]
           o == OuterVis
<1>1. vis \in Seq(Visitors) /\ vis # << >> /\ Len(vis) \in Nat /\ Len(vis) >= 1
  BY VisFacts DEF EvaluatorOK
<1>2. /\ o \in Seq(Visitors) /\ Len(o) = Len(vis) - 1
      /\ \A r \in 1..(Len(vis) - 1) : o[r] = vis[r]
  BY <1>1, FrontFacts DEF OuterVis
<1>3. w.ty = vis[Len(vis)].ty
  BY VisFacts DEF Visiting, Visitors
<1>4. vis' = Append(o, w)
  BY DEF SetValue
<1> HIDE DEF w, o
<1>5. \A r \in 1..(Len(vis) - 1) : vis'[r] = o[r]
  BY <1>1, <1>2, <1>4
<1>6. vis'[Len(vis)] = w
  BY <1>1, <1>2, <1>4
<1>7. \A r \in 1..Len(vis) : r = Len(vis) \/ r \in 1..(Len(vis) - 1)
  BY <1>1
<1> QED BY <1>2, <1>3, <1>5, <1>6, <1>7, Zenon

LEMMA VisitsSetValue ==
  ASSUME EvaluatorOK, phase = "eval", stk # << >>, Kind[N] # "block",
         NEW v, SetValue(v), Return
  PROVE  VisitShape
BY SetValueTypes, VisitsReturn

\* A call visits its next child with the visitor there is.
LEMMA VisitsChild ==
  ASSUME EvaluatorOK, phase = "eval", stk # << >>,
         NEW k \in DOMAIN Kids[N], NEW v \in Int, NEW typed \in BOOLEAN, Call(k, v, typed),
         Owns(Later(Top.stage + 1, v)) => Owns(Top), UNCHANGED vis
  PROVE  VisitShape
<1>1. stk \in Seq(Frames) /\ nested \in Seq(Node)
  BY DEF EvaluatorOK, StackOK
<1>2. TopOnly /\ (Len(stk) \in Owners' <=> Owns(Later(Top.stage + 1, v)))
  BY <1>1, CallTopOnly
<1>3. Len(stk) \in Owners' => Len(stk) \in Owners
  BY <1>2 DEF TopOnly
<1> QED BY <1>2, <1>3, VisitsKeep

\* A call visits its next child with a visitor of its own.
LEMMA VisitsNew ==
  ASSUME EvaluatorOK, phase = "eval", stk # << >>, Kind[N] # "block",
         NEW k \in DOMAIN Kids[N], NEW v \in Int, NEW typed \in BOOLEAN, Call(k, v, typed),
         ~Owns(Top), Owns(Later(Top.stage + 1, v)),
         NEW ty \in ValueTypes, NewVisitor(ty), Kind[N] = "assign" => ty = Lookup(Var[N], FALSE).type
  PROVE  VisitShape
<1> DEFINE w == [ty |-> ty, val |-> Initial(ty)]
<1>1. stk \in Seq(Frames) /\ nested \in Seq(Node)
  BY DEF EvaluatorOK, StackOK
<1>2. TopOnly /\ Len(stk) \in Owners' /\ Len(stk) \notin Owners
  <2>1. TopOnly /\ (Len(stk) \in Owners' <=> Owns(Later(Top.stage + 1, v)))
    BY <1>1, CallTopOnly
  <2> QED BY <2>1 DEF TopOnly
<1>3. w \in Visitors /\ w.ty = ty /\ vis' = Append(vis, w)
  BY DEF Visitors, Initial, NullStr, NewVisitor
<1>4. w.ty \in TypesOf(Top)
  BY <1>3 DEF TypesOf, N
<1>5. Kind[N] = "assign" => w.ty = Lookup(Var[N], FALSE).type
  BY <1>3
<1> HIDE DEF w
<1> QED BY <1>2, <1>3, <1>4, <1>5, VisitsPush

\* An owner goes on without its visitor.
LEMMA OuterTypes ==
  ASSUME vis \in Seq(Visitors), vis # << >>, vis' = OuterVis
  PROVE  \A r \in 1..(Len(vis) - 1) : vis'[r].ty = vis[r].ty
BY FrontFacts DEF OuterVis

LEMMA VisitsOwnerReturn ==
  ASSUME EvaluatorOK, phase = "eval", stk # << >>, Owns(Top), Return,
         \A r \in 1..(Len(vis) - 1) : vis'[r].ty = vis[r].ty
  PROVE  VisitShape
<1>1. TopOnly /\ Len(stk) \notin Owners' /\ Len(stk) \in Owners
  BY ReturnTopOnly DEF EvaluatorOK, StackOK, TopOnly
<1> QED BY <1>1, VisitsPop

LEMMA VisitsUnwind ==
  ASSUME NEW next \in {"ready", "stopped"}, NEW why, Unwind(next, why)
  PROVE  VisitShape
BY DEF Unwind, VisitShape

LEMMA VisitsEnd ==
  ASSUME EvaluatorOK
  PROVE  /\ Die => VisitShape
         /\ Undefined => VisitShape
         /\ Inexact => VisitShape
         /\ Throw("used before assigned") => VisitShape
         /\ Throw("invalid use of ==") => VisitShape
BY VisitsUnwind DEF Die, Undefined, Inexact, Throw

\* Leaves, and the results of operators.
LEMMA VisitsLeaf ==
  ASSUME EvaluatorOK, phase = "eval", SkipExpression \/ EvalConstant \/ EvalVariable
  PROVE  VisitShape
<1>1. stk # << >> /\ Kind[N] # "block"
  BY DEF SkipExpression, EvalConstant, EvalVariable, Running, ExprKinds, LeafKinds, UnaryKinds,
         BinaryKinds, ConstantKinds
<1>2. CASE SkipExpression
  BY <1>1, <1>2, VisitsReturn DEF SkipExpression
<1>3. CASE EvalConstant
  BY <1>1, <1>3, VisitsSetValue DEF EvalConstant
<1>4. CASE EvalVariable
  BY <1>1, <1>4, VisitsSetValue, VisitsEnd DEF EvalVariable
<1> QED BY <1>2, <1>3, <1>4

LEMMA VisitsFinish ==
  ASSUME EvaluatorOK, phase = "eval", stk # << >>, Kind[N] # "block",
         NEW op, NEW a, NEW b, Finish(op, a, b) \/ KeepValue
  PROVE  VisitShape
<1>1. CASE Finish(op, a, b)
  BY <1>1, VisitsSetValue, VisitsEnd DEF Finish
<1>2. CASE KeepValue
  BY <1>2, VisitsReturn DEF KeepValue
<1> QED BY <1>1, <1>2

\* An expression's operand.
LEMMA VisitsEvalChild ==
  ASSUME EvaluatorOK, phase = "eval", stk # << >>, Kind[N] # "block",
         NEW k \in 1..Arity(Kind[N]), NEW v \in Int, EvalChild(k, v), Top.stage + 1 = k,
         Owns(Later(k, v)) => Owns(Top)
  PROVE  VisitShape
<1>1. k \in DOMAIN Kids[N] /\ TRUE \in BOOLEAN
  BY KidFacts DEF EvaluatorOK, StackOK
<1>2. Call(k, v, TRUE) /\ UNCHANGED vis
  BY DEF EvalChild
<1>3. Owns(Later(Top.stage + 1, v)) => Owns(Top)
  OBVIOUS
<1> QED BY <1>1, <1>2, <1>3, VisitsChild, Zenon

LEMMA VisitsOperator ==
  ASSUME EvaluatorOK, phase = "eval", EvalUnary \/ EvalBinary
  PROVE  VisitShape
<1>1. /\ stk # << >> /\ Kind[N] \in UnaryKinds \cup BinaryKinds /\ Kind[N] # "block"
      /\ \A k \in Nat, v \in Int : ~Owns(Later(k, v))
  <2>1. stk # << >> /\ Kind[N] \in UnaryKinds \cup BinaryKinds
    BY DEF EvalUnary, EvalBinary, Running
  <2>2. Kind[N] # "block"
    BY <2>1 DEF UnaryKinds, BinaryKinds
  <2>3. stk \in Seq(Frames)
    BY DEF EvaluatorOK, StackOK
  <2> QED BY <2>1, <2>2, <2>3, OwnsFacts
<1>2. Value \in Int
  BY <1>1, VisFacts
<1>3. ASSUME NEW k \in {1, 2}, NEW v \in Int, EvalChild(k, v), Top.stage + 1 = k, k \in 1..Arity(Kind[N])
      PROVE  VisitShape
  <2>1. ~Owns(Later(k, v))
    BY <1>1
  <2> QED BY <1>1, <1>3, <2>1, VisitsEvalChild, Zenon
<1>4. CASE EvalUnary
  <2>1. CASE Running(UnaryKinds, 0) /\ EvalChild(1, 0)
    <3>1. Top.stage + 1 = 1 /\ 1 \in 1..Arity(Kind[N]) /\ 0 \in Int /\ 1 \in {1, 2}
      BY <2>1, ArityFacts DEF Running
    <3> QED BY <1>3, <2>1, <3>1, Zenon
  <2>2. CASE KeepValue \/ Finish(Kind[N], Value, Value)
    BY <1>1, <2>2, VisitsFinish
  <2> QED BY <1>4, <2>1, <2>2 DEF EvalUnary
<1>5. CASE EvalBinary
  <2>1. CASE Running(BinaryKinds, 0) /\ EvalChild(1, 0)
    <3>1. Top.stage + 1 = 1 /\ 1 \in 1..Arity(Kind[N]) /\ 0 \in Int /\ 1 \in {1, 2}
      BY <2>1, ArityFacts DEF Running
    <3> QED BY <1>3, <2>1, <3>1, Zenon
  <2>2. CASE Running(BinaryKinds, 1) /\ EvalChild(2, Value)
    <3>1. Top.stage + 1 = 2 /\ 2 \in 1..Arity(Kind[N]) /\ 2 \in {1, 2}
      BY <2>2, ArityFacts DEF Running
    <3> QED BY <1>2, <1>3, <2>2, <3>1, Zenon
  <2>3. CASE KeepValue \/ Finish(Kind[N], Top.local, Value)
    BY <1>1, <2>3, VisitsFinish
  <2> QED BY <1>5, <2>1, <2>2, <2>3 DEF EvalBinary
<1> QED BY <1>4, <1>5

\* `=='.
LEMMA VisitsBeginEquals ==
  ASSUME EvaluatorOK, phase = "eval", BeginEquals
  PROVE  VisitShape
<1>1. stk # << >> /\ Kind[N] = "comp_equals" /\ Kind[N] # "block" /\ Top.stage = 0
  BY DEF BeginEquals, Running
<1>2. CASE Throw("invalid use of ==") \/ Die
  BY <1>2, VisitsEnd
<1>3. CASE SetValue(0) /\ Return
  BY <1>1, <1>3, VisitsSetValue
<1>4. CASE Annotation(N) \in ValueTypes /\ NewVisitor(ComparedAs(Annotation(N))) /\ Call(1, 0, TRUE)
  <2>1. 1 \in DOMAIN Kids[N] /\ 0 \in Int /\ TRUE \in BOOLEAN /\ Top.stage + 1 = 1
    BY <1>1, KidFacts, ArityFacts DEF EvaluatorOK, StackOK
  <2>2. ~Owns(Top) /\ Owns(Later(Top.stage + 1, 0))
    BY <1>1, <2>1, OwnsFacts DEF EvaluatorOK, StackOK
  <2>3. ComparedAs(Annotation(N)) \in ValueTypes
    BY <1>4 DEF ComparedAs, ValueTypes
  <2> QED BY <1>1, <1>4, <2>1, <2>2, <2>3, VisitsNew, Zenon
<1> QED BY <1>2, <1>3, <1>4 DEF BeginEquals

\* The visitor below the comparison's own takes its result.
LEMMA VisitsEndEquals ==
  ASSUME EvaluatorOK, phase = "eval", EndEquals
  PROVE  VisitShape
<1>1. stk # << >> /\ Kind[N] = "comp_equals" /\ Kind[N] # "block" /\ Top.stage = 2
  BY DEF EndEquals, Running
<1>2. Owns(Top)
  BY <1>1 DEF Owns, N
<1>3. CASE Undefined
  BY <1>3, VisitsEnd
<1>4. ASSUME NEW b \in {0, 1},
             vis' = Append(SubSeq(vis, 1, Len(vis) - 2), [vis[Len(vis) - 1] EXCEPT !.val = b]), Return
      PROVE  VisitShape
  <2> DEFINE o == OuterVis
             oo == SubSeq(o, 1, Len(o) - 1)
             w == [o[Len(o)] EXCEPT !.val = b]
  <2>1. vis \in Seq(Visitors) /\ Len(vis) \in Nat /\ Len(vis) >= 2 /\ vis # << >>
    BY <1>1, <1>2, VisFacts DEF EvaluatorOK
  <2>2. o \in Seq(Visitors) /\ Len(o) = Len(vis) - 1 /\ \A r \in 1..(Len(vis) - 1) : o[r] = vis[r]
    BY <2>1, FrontFacts DEF OuterVis
  <2> HIDE DEF o
  <2>3. o # << >> /\ Len(o) \in Nat /\ Len(o) >= 1
    BY <2>1, <2>2
  <2>4. /\ oo \in Seq(Visitors) /\ Len(oo) = Len(o) - 1
        /\ \A r \in 1..(Len(o) - 1) : oo[r] = o[r]
        /\ o[Len(o)] \in Visitors
    BY <2>2, <2>3, FrontFacts
  <2>5. w \in Visitors /\ w.ty = o[Len(o)].ty
    BY <2>4 DEF Visitors
  <2>6. vis' = Append(oo, w)
    <3>1. SubSeq(vis, 1, Len(vis) - 2) = oo
      BY <2>1, <2>2, <2>3 DEF OuterVis, o
    <3>2. vis[Len(vis) - 1] = o[Len(o)]
      BY <2>1, <2>2
    <3> QED BY <1>4, <3>1, <3>2
  <2> HIDE DEF oo, w
  <2>7. \A r \in 1..(Len(o) - 1) : vis'[r] = o[r]
    BY <2>3, <2>4, <2>5, <2>6
  <2>8. vis'[Len(o)] = w
    BY <2>3, <2>4, <2>5, <2>6
  <2>9. \A r \in 1..(Len(vis) - 1) : r = Len(o) \/ r \in 1..(Len(o) - 1)
    BY <2>1, <2>2
  <2>10. \A r \in 1..(Len(vis) - 1) : vis'[r].ty = vis[r].ty
    BY <2>2, <2>5, <2>7, <2>8, <2>9, Zenon
  <2> QED BY <1>1, <1>2, <1>4, <2>10, VisitsOwnerReturn
<1>5. (IF Top.local = Value THEN 1 ELSE 0) \in {0, 1}
  OBVIOUS
<1> QED BY <1>3, <1>4, <1>5 DEF EndEquals

LEMMA VisitsEquals ==
  ASSUME EvaluatorOK, phase = "eval", EvalEquals
  PROVE  VisitShape
<1>1. CASE Running({"comp_equals"}, 1) /\ EvalChild(2, Value)
  <2>1. stk # << >> /\ Kind[N] = "comp_equals" /\ Kind[N] # "block" /\ Top.stage = 1
    BY <1>1 DEF Running
  <2>2. Value \in Int
    BY <2>1, VisFacts
  <2>3. 2 \in 1..Arity(Kind[N]) /\ Top.stage + 1 = 2
    BY <2>1, ArityFacts
  <2>4. Owns(Top)
    BY <2>1 DEF Owns, N
  <2> QED BY <1>1, <2>1, <2>2, <2>3, <2>4, VisitsEvalChild, Zenon
<1> QED BY <1>1, VisitsBeginEquals, VisitsEndEquals DEF EvalEquals

\* An assignment under an operator.
LEMMA VisitsTypedAssign ==
  ASSUME EvaluatorOK, phase = "eval", BeginTypedAssign \/ EndTypedAssign
  PROVE  VisitShape
<1>1. stk # << >> /\ Kind[N] = "assign" /\ Kind[N] # "block" /\ Top.typed
  BY TypedFacts DEF BeginTypedAssign, EndTypedAssign, Running
<1>2. CASE BeginTypedAssign
  <2> DEFINE res == Lookup(Var[N], FALSE)
  <2>1. CASE SetValue(Load(Visiting.ty, res.ptr, Value)) /\ Return
    BY <1>1, <2>1, VisitsSetValue
  <2>2. CASE EvalChild(1, 0)
    <3>1. 1 \in 1..Arity(Kind[N]) /\ 0 \in Int /\ Top.stage + 1 = 1
      BY <1>1, <1>2, ArityFacts DEF BeginTypedAssign, Running
    <3>2. ~Owns(Later(1, 0))
      BY <1>1, OwnsFacts DEF EvaluatorOK, StackOK
    <3> QED BY <1>1, <2>2, <3>1, <3>2, VisitsEvalChild, Zenon
  <2> QED BY <1>2, <2>1, <2>2 DEF BeginTypedAssign
<1>3. CASE EndTypedAssign
  <2>1. CASE Undefined
    BY <2>1, VisitsEnd
  <2>2. CASE Return /\ UNCHANGED vis
    BY <1>1, <2>2, VisitsReturn
  <2> QED BY <1>3, <2>1, <2>2 DEF EndTypedAssign
<1> QED BY <1>2, <1>3

\* Blocks: typed_interpreter<void> comes with the scope, and goes with it.
LEMMA VisitsBlock ==
  ASSUME EvaluatorOK, phase = "eval", EvalBlock
  PROVE  VisitShape
<1>1. CASE EnterScope(0) /\ vis' = Append(vis, VoidVisitor)
  <2>1. stk # << >> /\ Kind[N] = "block" /\ stk \in Seq(Frames)
    BY <1>1 DEF EnterScope, Running, EvaluatorOK, StackOK
  <2>2. TopOnly /\ Len(stk) \in Owners' /\ Len(stk) \notin Owners
    BY <1>1, <2>1, EnterTopOnly
  <2>3. VoidVisitor \in Visitors /\ VoidVisitor.ty \in TypesOf(Top)
    BY <2>1 DEF VoidVisitor, Visitors, TypesOf, N
  <2>4. Kind[N] # "assign"
    BY <2>1
  <2> QED BY <1>1, <2>2, <2>3, <2>4, VisitsPush
<1>2. CASE NextStatement /\ UNCHANGED vis
  <2>1. /\ stk # << >> /\ Kind[N] = "block" /\ Top.stage \in 1..Len(Kids[N])
        /\ Call(Top.stage, Top.local, FALSE)
    BY <1>2 DEF NextStatement
  <2>2. /\ Kids[N] \in Seq(Node) /\ Top.stage \in Nat /\ Top.local \in Int /\ FALSE \in BOOLEAN
    BY <2>1, KidFacts DEF EvaluatorOK, StackOK
  <2>3. Top.stage \in DOMAIN Kids[N] /\ Top.stage > 0
    BY <2>1, <2>2
  <2>4. Owns(Top)
    BY <2>1, <2>3 DEF Owns, N
  <2> QED BY <1>2, <2>1, <2>2, <2>3, <2>4, VisitsChild, Zenon
<1>3. CASE LeaveScope /\ vis' = OuterVis
  <2>1. /\ stk # << >> /\ Kind[N] = "block" /\ Top.stage = Len(Kids[N]) + 1 /\ Return
    BY <1>3 DEF LeaveScope, Running
  <2>2. Kids[N] \in Seq(Node) /\ root \in Root /\ stk \in Seq(Frames) /\ PathOK
    BY <2>1, KidFacts DEF EvaluatorOK, StackOK
  <2>3. Top.stage > 0
    BY <2>1, <2>2
  <2>4. Owns(Top)
    BY <2>1, <2>3 DEF Owns, N
  <2>5. Cardinality(Owners) >= 1 /\ Len(vis) = Cardinality(Owners) /\ vis \in Seq(Visitors)
    BY <2>1, <2>2, <2>3, RootFacts, EnoughOwners DEF EvaluatorOK
  <2>6. vis # << >>
    BY <2>5
  <2> QED BY <1>3, <2>1, <2>4, <2>5, <2>6, OuterTypes, VisitsOwnerReturn
<1> QED BY <1>1, <1>2, <1>3 DEF EvalBlock

\* Assignments that are statements.
LEMMA VisitsAssign ==
  ASSUME EvaluatorOK, phase = "eval", BeginAssign \/ EndAssign
  PROVE  VisitShape
<1>1. stk # << >> /\ Kind[N] = "assign" /\ Kind[N] # "block" /\ ~Top.typed
  BY DEF BeginAssign, EndAssign, Statement, Running
<1>2. CASE BeginAssign
  <2> DEFINE outty == Lookup(Var[N], FALSE).type
  <2>1. CASE Die
    BY <2>1, VisitsEnd
  <2>2. CASE outty \in ValueTypes /\ NewVisitor(outty) /\ Call(1, last.id, FALSE)
    <3>1. Top.stage = 0 /\ Top.stage + 1 = 1 /\ 1 \in DOMAIN Kids[N] /\ FALSE \in BOOLEAN
      BY <1>1, <1>2, KidFacts, ArityFacts DEF EvaluatorOK, StackOK, BeginAssign, Statement, Running
    <3>2. last.id \in Int
      BY DEF EvaluatorOK
    <3>3. ~Owns(Top) /\ Owns(Later(Top.stage + 1, last.id))
      BY <1>1, <3>1, OwnsFacts DEF EvaluatorOK, StackOK
    <3>4. Kind[N] = "assign" => outty = Lookup(Var[N], FALSE).type
      OBVIOUS
    <3> HIDE DEF outty
    <3> QED BY <1>1, <2>2, <3>1, <3>2, <3>3, <3>4, VisitsNew, Zenon
  <2> QED BY <1>2, <2>1, <2>2 DEF BeginAssign
<1>3. CASE EndAssign
  <2>1. CASE Undefined
    BY <2>1, VisitsEnd
  <2>2. CASE Return /\ vis' = OuterVis
    <3>1. Top.stage = 1
      BY <1>3 DEF EndAssign, Statement, Running
    <3>2. Owns(Top)
      BY <1>1, <3>1 DEF Owns, N
    <3>3. vis # << >> /\ vis \in Seq(Visitors)
      BY <1>1, VisFacts DEF EvaluatorOK
    <3> QED BY <1>1, <2>2, <3>2, <3>3, OuterTypes, VisitsOwnerReturn
  <2> QED BY <1>3, <2>1, <2>2 DEF EndAssign, Cleanup
<1> QED BY <1>2, <1>3

\* If statements.
LEMMA VisitsIf ==
  ASSUME EvaluatorOK, phase = "eval", BeginIf \/ DecideIf \/ EndIf
  PROVE  VisitShape
<1>1. stk # << >> /\ Kind[N] = "if_stmt" /\ Kind[N] # "block"
  BY DEF BeginIf, DecideIf, EndIf, Statement, Running
<1>2. CASE Die \/ Undefined
  BY <1>2, VisitsEnd
<1>3. CASE BeginIf
  <2>1. Top.stage = 0
    BY <1>3 DEF BeginIf, Statement, Running
  <2>2. CASE Annotation(N) \in ValueTypes /\ NewVisitor(Annotation(N)) /\ Call(1, 0, TRUE)
    <3>1. Top.stage + 1 = 1 /\ 1 \in DOMAIN Kids[N] /\ TRUE \in BOOLEAN /\ 0 \in Int
      BY <1>1, <2>1, KidFacts, ArityFacts DEF EvaluatorOK, StackOK
    <3>2. ~Owns(Top) /\ Owns(Later(Top.stage + 1, 0))
      BY <1>1, <2>1, <3>1, OwnsFacts DEF EvaluatorOK, StackOK
    <3> QED BY <1>1, <2>2, <3>1, <3>2, VisitsNew, Zenon
  <2>3. CASE Return /\ UNCHANGED vis
    BY <1>1, <2>3, VisitsReturn
  <2> QED BY <1>2, <1>3, <2>2, <2>3 DEF BeginIf
<1>4. CASE DecideIf
  <2>1. Top.stage = 1
    BY <1>4 DEF DecideIf, Statement, Running
  <2>2. Owns(Top)
    BY <1>1, <2>1 DEF Owns, N
  <2>3. vis # << >> /\ vis \in Seq(Visitors)
    BY <1>1, VisFacts DEF EvaluatorOK
  <2>4. CASE vis' = OuterVis /\ Return
    BY <1>1, <2>2, <2>3, <2>4, OuterTypes, VisitsOwnerReturn
  <2>5. CASE vis' = OuterVis /\ Call(2, 0, FALSE)
    <3>1. Top.stage + 1 = 2 /\ 2 \in DOMAIN Kids[N] /\ FALSE \in BOOLEAN /\ 0 \in Int
      BY <1>1, <2>1, KidFacts, ArityFacts DEF EvaluatorOK, StackOK
    <3>2. ~Owns(Later(Top.stage + 1, 0))
      BY <1>1, <3>1, OwnsFacts DEF EvaluatorOK, StackOK
    <3>3. stk \in Seq(Frames) /\ nested \in Seq(Node)
      BY DEF EvaluatorOK, StackOK
    <3>4. TopOnly /\ (Len(stk) \in Owners' <=> Owns(Later(Top.stage + 1, 0)))
      BY <1>1, <2>5, <3>1, <3>3, CallTopOnly
    <3>5. Len(stk) \in Owners /\ Len(stk) \notin Owners'
      BY <2>2, <3>2, <3>4 DEF TopOnly
    <3>6. \A r \in 1..(Len(vis) - 1) : vis'[r].ty = vis[r].ty
      BY <2>3, <2>5, OuterTypes
    <3> QED BY <3>4, <3>5, <3>6, VisitsPop
  <2> QED BY <1>2, <1>4, <2>4, <2>5 DEF DecideIf
<1>5. CASE EndIf
  BY <1>1, <1>5, VisitsReturn DEF EndIf
<1> QED BY <1>3, <1>4, <1>5

\* Every step of the interpreter changes the visitors so, and keeps VisitsOK.
LEMMA EvaluatorHolds ==
  ASSUME MachineOK, phase = "eval"
  PROVE  EvaluatorOK
BY DEF MachineOK, TypeOK, EvaluatorOK, StackOK, TableOK, VisitorsOK

LEMMA EvalVisitors ==
  ASSUME MachineOK, Eval
  PROVE  VisitShape /\ EvaluatorOK /\ phase = "eval"
<1>1. phase = "eval" /\ EvalStep
  BY DEF Eval, EvalStep
<1>2. EvaluatorOK
  BY <1>1, EvaluatorHolds
<1> QED BY <1>1, <1>2, VisitsLeaf, VisitsOperator, VisitsEquals, VisitsTypedAssign,
           VisitsBlock, VisitsAssign, VisitsIf DEF EvalStep

LEMMA EvalVisits ==
  ASSUME MachineOK, VisitsOK, Eval
  PROVE  VisitsOK'
<1>1. VisitShape /\ EvaluatorOK /\ phase = "eval"
  BY EvalVisitors
<1>2. CASE phase' # "eval"
  BY <1>2 DEF VisitsOK
<1>3. CASE TopOnly /\ (KeepsVisitors \/ (\E v \in Visitors : Adds(v)) \/ DropsVisitor)
  <2>1. PICK w : w = [i \in 1..Len(stk) |-> TypesOf(stk[i])]
    OBVIOUS
  <2>2. /\ Len(stk) \in Nat /\ Owners \subseteq 1..Len(stk) /\ Owners' \subseteq 1..Len(stk)
        /\ \A i \in Owners' : stk'[i].n = stk[i].n
    BY <1>1, <1>3 DEF TopOnly, EvaluatorOK, StackOK
  <2>3. \A i \in Owners : vis[Rank(i)].ty \in w[i]
    BY <1>1, <2>1, <2>2 DEF VisitsOK
  <2>4. \A v : Adds(v) => v.ty \in w[Len(stk)]
    <3>1. \A v : Adds(v) => v.ty \in TypesOf(stk[Len(stk)]) /\ Len(stk) \in Owners'
      BY DEF Adds, Top
    <3> QED BY <2>1, <2>2, <3>1
  <2>5. \A i \in Owners' : vis'[Rank(i)'].ty \in w[i]
    BY <1>1, <1>3, <2>3, <2>4, VisitorsStep
  <2>6. \A i \in Owners' : w[i] = TypesOf(stk'[i])
    BY <2>1, <2>2 DEF TypesOf
  <2>7. VisitsOK' <=> (phase' = "eval" => \A i \in Owners' : vis'[Rank(i)'].ty \in TypesOf(stk'[i]))
    BY DEF VisitsOK, TypesOf
  <2> QED BY <2>5, <2>6, <2>7, Zenon
<1> QED BY <1>1, <1>2, <1>3 DEF VisitShape

LEMMA NotEvaluating ==
  ASSUME Populate \/ Check \/ StartCheck \/ EndCheck \/ EndEvaluate
  PROVE  phase' # "eval"
<1>1. Check => phase' \in {"check", "stopped"}
  <2>1. /\ Reject => phase' = "stopped"
        /\ Checked => phase' = phase
        /\ \A k, v : CheckChild(k, v) => phase' = phase
        /\ \A ty : Conclude(ty) => phase' \in {phase, "stopped"}
    BY DEF Reject, Checked, CheckChild, Conclude
  <2> QED BY <2>1 DEF Check, CheckStep, CheckLeaf, CheckUnary, CheckBinary, CheckEquals,
                      CheckAssign, CheckIf, CheckBlock
<1> QED BY <1>1 DEF Populate, PopulateStep, StartCheck, EndCheck, EndEvaluate

\* And so does every step: no other phase has a visitor.
LEMMA VisitsInductive ==
  ASSUME MachineOK, VisitsOK, [Next]_vars
  PROVE  VisitsOK'
<1>1. CASE UNCHANGED vars
  <2>1. UNCHANGED <<phase, vis, stk>>
    BY <1>1 DEF vars
  <2>2. Owners' = Owners /\ \A i : Rank(i)' = Rank(i)
    BY <2>1 DEF Owners, Owns, Rank
  <2> QED BY <2>1, <2>2 DEF VisitsOK, TypesOf
<1>2. CASE Populate \/ Check \/ StartCheck \/ EndCheck \/ EndEvaluate
  BY <1>2, NotEvaluating DEF VisitsOK
<1>3. CASE Evaluate
  <2>1. Owners' = {}
    <3>1. root' \in Root /\ nested' = << >> /\ stk' = <<Frame(root, FALSE, << >>)>> /\ UNCHANGED root
      BY <1>3 DEF Evaluate, MachineOK, TypeOK, IdleOK, PathOK
    <3> QED BY <3>1, FirstCall
  <2> QED BY <2>1 DEF VisitsOK
<1> QED BY <1>1, <1>2, <1>3, EvalVisits DEF Next

\* After a statement the visitor is the block's again.
LEMMA VoidFacts ==
  ASSUME MachineOK, VisitsOK
  PROVE  StatementsRunUnderVoid
<1> SUFFICES ASSUME phase = "eval", stk # << >>, Kind[N] = "block", Top.stage > 0
             PROVE  Visiting.ty = Undet
  BY DEF StatementsRunUnderVoid
<1>1. EvaluatorOK
  BY EvaluatorHolds
<1>2. stk \in Seq(Frames) /\ Len(vis) = Cardinality(Owners)
  BY <1>1 DEF EvaluatorOK, StackOK
<1>3. Len(stk) \in 1..Len(stk) /\ Top = stk[Len(stk)]
  BY <1>2, TopFacts DEF Top
<1>4. Len(stk) \in Owners
  BY <1>3 DEF Owners, Owns, N
<1>5. Rank(Len(stk)) = Len(vis)
  BY <1>2, <1>4, RankFacts
<1>6. vis[Len(vis)].ty \in TypesOf(Top)
  BY <1>3, <1>4, <1>5 DEF VisitsOK
<1> QED BY <1>6 DEF TypesOf, N, Visiting

(***************************************************************************)
(* However a statement ended, by a return, by the jump of a cascading      *)
(* assignment or with an assignment inside an assignment, the block goes   *)
(* on with its own typed_interpreter<void> as curr_visitor_; an exception  *)
(* leaves no block running (interpreter.cpp:291, 345-351, 361-381).        *)
(***************************************************************************)
THEOREM RunsUnderVoid == Spec => []StatementsRunUnderVoid
<1>1. Init => VisitsOK
  BY DEF Init, VisitsOK
<1>2. MachineOK /\ VisitsOK /\ [Next]_vars => VisitsOK'
  BY VisitsInductive
<1>3. MachineOK /\ VisitsOK => StatementsRunUnderVoid
  BY VoidFacts
<1> QED BY <1>1, <1>2, <1>3, Machine, PTL DEF Spec

-----------------------------------------------------------------------------
(***************************************************************************)
(* What a step of the interpreter does to the stack and to the tables.     *)
(***************************************************************************)

\* The children that a typed_interpreter visits: operands and conditions.
CallsTyped(k) == \/ Kind[N] \in ExprKinds /\ (Kind[N] = "assign" => Top.typed)
                 \/ Kind[N] = "if_stmt" /\ k = 1

\* A call of child k, by the top call of an evaluation.
EvalCall ==
  \E k \in DOMAIN Kids[N], v \in Int, typed \in BOOLEAN :
    /\ Call(k, v, typed) /\ UNCHANGED nested
    /\ Kind[N] = "assign" /\ ~Top.typed => v = last.id
    /\ ~typed => ~Top.typed /\ <<Kid(k), nested>> \in Inner(N, Top.scope)
    /\ typed => CallsTyped(k)

EvalShape ==
  \/ phase' \in {"ready", "stopped"} /\ stk' = << >> /\ UNCHANGED <<table, last>>
  \/ /\ stk # << >> /\ phase' = "eval"
     /\ \/ /\ EnterScope(0) \/ EvalCall \/ (Return /\ (Kind[N] = "assign" => Top.typed))
           /\ UNCHANGED <<table, last>>
        \/ EndTypedAssign /\ Return /\ UNCHANGED <<last, nested>>
        \/ EndAssign /\ Return /\ UNCHANGED nested

\* The interpreter's calls of children that are statements or right sides.
LEMMA CallShape ==
  ASSUME EvaluatorOK, phase = "eval", phase' = phase, stk # << >>, UNCHANGED <<table, last, nested>>,
         NEW k \in DOMAIN Kids[N], NEW v \in Int, NEW typed \in BOOLEAN, Call(k, v, typed),
         Kind[N] = "assign" /\ ~Top.typed => v = last.id,
         ~typed => ~Top.typed /\ <<Kid(k), nested>> \in Inner(N, Top.scope),
         typed => CallsTyped(k)
  PROVE  EvalShape
BY DEF EvalShape, EvalCall

LEMMA UnwindShape ==
  /\ Die => EvalShape
  /\ Undefined => EvalShape
  /\ Inexact => EvalShape
  /\ Throw("used before assigned") => EvalShape
  /\ Throw("invalid use of ==") => EvalShape
BY DEF Die, Undefined, Inexact, Throw, Unwind, EvalShape

LEMMA ReturnShape ==
  ASSUME phase = "eval", phase' = phase, stk # << >>, Return, UNCHANGED <<table, last>>,
         Kind[N] = "assign" => Top.typed
  PROVE  EvalShape
BY DEF EvalShape

\* An expression's operand.
LEMMA EvalChildShape ==
  ASSUME EvaluatorOK, phase = "eval", stk # << >>, Kind[N] # "block", Kind[N] \in ExprKinds,
         NEW k \in 1..Arity(Kind[N]), NEW v \in Int, EvalChild(k, v),
         Kind[N] = "assign" => Top.typed
  PROVE  EvalShape
<1>1. k \in DOMAIN Kids[N] /\ TRUE \in BOOLEAN
  BY KidFacts DEF EvaluatorOK, StackOK
<1>2. Call(k, v, TRUE) /\ UNCHANGED <<table, last, nested>> /\ phase' = phase
  BY DEF EvalChild, Going
<1>3. CallsTyped(k)
  BY DEF CallsTyped
<1> QED BY <1>1, <1>2, <1>3, CallShape, Zenon

LEMMA ExpressionShape ==
  ASSUME EvaluatorOK, phase = "eval",
         SkipExpression \/ EvalConstant \/ EvalVariable \/ EvalUnary \/ EvalBinary
         \/ EvalEquals \/ BeginTypedAssign \/ EndTypedAssign
  PROVE  EvalShape
<1>1. stk # << >> /\ Kind[N] # "block" /\ Kind[N] \in ExprKinds
  BY DEF SkipExpression, EvalConstant, EvalVariable, EvalUnary, EvalBinary, EvalEquals, BeginEquals,
         EndEquals, BeginTypedAssign, EndTypedAssign, Running, ExprKinds, LeafKinds, UnaryKinds,
         BinaryKinds, ConstantKinds
<1>2. Value \in Int /\ 0 \in Int
  BY <1>1, VisFacts
<1>3. CASE SkipExpression
  BY <1>1, <1>3, ReturnShape DEF SkipExpression, Going, Running
<1>4. CASE EvalConstant
  BY <1>1, <1>4, ReturnShape DEF EvalConstant, Going, Running, ConstantKinds
<1>5. CASE EvalVariable
  BY <1>1, <1>5, ReturnShape, UnwindShape DEF EvalVariable, Going, Running
<1>6. ASSUME NEW op, NEW a, NEW b, Finish(op, a, b) \/ KeepValue, Kind[N] # "assign"
      PROVE  EvalShape
  BY <1>1, <1>6, ReturnShape, UnwindShape DEF Finish, KeepValue, Going
<1>7. CASE EvalUnary
  <2>1. 1 \in 1..Arity(Kind[N]) /\ Kind[N] # "assign"
    BY <1>7, ArityFacts DEF EvalUnary, Running, UnaryKinds
  <2>2. EvalChild(1, 0) => EvalShape
    BY <1>1, <1>2, <2>1, EvalChildShape, Zenon
  <2> QED BY <1>6, <1>7, <2>1, <2>2 DEF EvalUnary
<1>8. CASE EvalBinary
  <2>1. 1 \in 1..Arity(Kind[N]) /\ 2 \in 1..Arity(Kind[N]) /\ Kind[N] # "assign"
    BY <1>8, ArityFacts DEF EvalBinary, Running, BinaryKinds
  <2>2. EvalChild(1, 0) \/ EvalChild(2, Value) => EvalShape
    BY <1>1, <1>2, <2>1, EvalChildShape, Zenon
  <2> QED BY <1>6, <1>8, <2>1, <2>2 DEF EvalBinary
<1>9. CASE EvalEquals
  <2>1. Kind[N] = "comp_equals"
    BY <1>9 DEF EvalEquals, BeginEquals, EndEquals, Running
  <2>2. 1 \in 1..Arity(Kind[N]) /\ 2 \in 1..Arity(Kind[N]) /\ Kind[N] # "assign" /\ 1 \in DOMAIN Kids[N]
    BY <1>1, <2>1, ArityFacts, KidFacts DEF EvaluatorOK, StackOK
  <2>3. EvalChild(2, Value) => EvalShape
    BY <1>1, <1>2, <2>2, EvalChildShape, Zenon
  <2>4. CASE EndEquals
    BY <1>1, <2>2, <2>4, ReturnShape, UnwindShape DEF EndEquals, Going
  <2>5. CASE BeginEquals
    <3>1. CASE Call(1, 0, TRUE) /\ Going /\ UNCHANGED <<table, nested, last>>
      <4>1. phase' = phase /\ TRUE \in BOOLEAN /\ CallsTyped(1)
        BY <1>1, <2>2, <3>1 DEF Going, CallsTyped
      <4> QED BY <1>1, <1>2, <2>2, <3>1, <4>1, CallShape, Zenon
    <3> QED BY <1>1, <2>2, <2>5, <3>1, ReturnShape, UnwindShape DEF BeginEquals, Going
  <2> QED BY <1>9, <2>3, <2>4, <2>5 DEF EvalEquals
<1>10. CASE BeginTypedAssign
  <2>1. Kind[N] = "assign" /\ Top.typed
    BY <1>10, TypedFacts DEF BeginTypedAssign, Running
  <2>2. 1 \in 1..Arity(Kind[N])
    BY <2>1, ArityFacts
  <2>3. EvalChild(1, 0) => EvalShape
    BY <1>1, <1>2, <2>1, <2>2, EvalChildShape, Zenon
  <2> QED BY <1>1, <1>10, <2>1, <2>3, ReturnShape DEF BeginTypedAssign, Going
<1>11. CASE EndTypedAssign
  <2>1. CASE Undefined
    BY <2>1, UnwindShape
  <2>2. CASE Return /\ Going /\ UNCHANGED <<nested, vis, last>>
    BY <1>1, <1>11, <2>2 DEF EvalShape, Going
  <2> QED BY <1>11, <2>1, <2>2 DEF EndTypedAssign
<1> QED BY <1>3, <1>4, <1>5, <1>7, <1>8, <1>9, <1>10, <1>11

LEMMA StatementShape ==
  ASSUME EvaluatorOK, phase = "eval",
         EvalBlock \/ BeginAssign \/ EndAssign \/ BeginIf \/ DecideIf \/ EndIf
  PROVE  EvalShape
<1>1. stk # << >>
  BY DEF EvalBlock, EnterScope, NextStatement, LeaveScope, BeginAssign, EndAssign, BeginIf, DecideIf,
         EndIf, Statement, Running
<1>2. /\ Kids[N] \in Seq(Node) /\ (Kind[N] # "block" => DOMAIN Kids[N] = 1..Arity(Kind[N]))
      /\ Top.local \in Int /\ Top.stage \in Nat /\ last.id \in Int /\ 0 \in Int
      /\ TRUE \in BOOLEAN /\ FALSE \in BOOLEAN
  BY <1>1, KidFacts DEF EvaluatorOK, StackOK
<1>3. nested = Inside(Top) /\ (Top.typed => Kind[N] \in ExprKinds)
  <2>1. Len(stk) \in 1..Len(stk) /\ Top = stk[Len(stk)]
    BY <1>1, TopFacts DEF EvaluatorOK, StackOK, Top
  <2> QED BY <1>1, <2>1 DEF EvaluatorOK, StackOK, PathOK, N
<1>4. CASE EvalBlock
  <2>1. CASE EnterScope(0)
    BY <1>1, <1>4, <2>1 DEF EvalBlock, Going, EvalShape
  <2>2. CASE LeaveScope
    BY <1>1, <1>4, <2>2 DEF EvalBlock, Going, EvalShape, LeaveScope, Running
  <2>3. CASE NextStatement
    <3>1. /\ Kind[N] = "block" /\ Top.stage \in 1..Len(Kids[N])
          /\ Call(Top.stage, Top.local, FALSE) /\ UNCHANGED <<table, last, nested>> /\ phase' = phase
      BY <1>4, <2>3 DEF NextStatement, EvalBlock, Going
    <3>2. Top.stage \in DOMAIN Kids[N] /\ Top.stage > 0
      BY <1>2, <3>1
    <3>3. ~Top.typed
      BY <1>3, <3>1 DEF ExprKinds, LeafKinds, UnaryKinds, BinaryKinds
    <3>4. nested = Append(Top.scope, N)
      BY <1>3, <3>1, <3>2 DEF Inside, N
    <3>5. <<Kid(Top.stage), nested>> \in Inner(N, Top.scope)
      BY <3>1, <3>2, <3>4 DEF Inner, Kid
    <3>6. Kind[N] # "assign"
      BY <3>1
    <3> QED BY <1>1, <1>2, <3>1, <3>2, <3>3, <3>5, <3>6, CallShape, Zenon
  <2> QED BY <1>4, <2>1, <2>2, <2>3 DEF EvalBlock
<1>5. CASE BeginAssign
  <2>1. Kind[N] = "assign" /\ ~Top.typed
    BY <1>5 DEF BeginAssign, Statement, Running
  <2>2. CASE Call(1, last.id, FALSE) /\ Going /\ UNCHANGED <<table, nested, last>>
    <3>1. 1 \in DOMAIN Kids[N] /\ phase' = phase
      BY <1>2, <2>1, <2>2, ArityFacts DEF Going
    <3>2. <<Kid(1), nested>> \in Inner(N, Top.scope)
      BY <1>3, <2>1 DEF Inside, Inner, Kid, N
    <3> QED BY <1>1, <1>2, <2>1, <2>2, <3>1, <3>2, CallShape, Zenon
  <2> QED BY <1>5, <2>2, UnwindShape DEF BeginAssign
<1>6. CASE EndAssign
  <2>1. CASE Undefined
    BY <2>1, UnwindShape
  <2>2. CASE Return /\ Going /\ UNCHANGED nested
    BY <1>1, <1>6, <2>2 DEF EvalShape, Going
  <2> QED BY <1>6, <2>1, <2>2 DEF EndAssign
<1>7. CASE BeginIf \/ DecideIf \/ EndIf
  <2>1. Kind[N] = "if_stmt" /\ Kind[N] # "assign" /\ ~Top.typed
    BY <1>7 DEF BeginIf, DecideIf, EndIf, Statement, Running
  <2>2. 1 \in DOMAIN Kids[N] /\ 2 \in DOMAIN Kids[N]
    BY <1>2, <2>1, ArityFacts
  <2>3. CASE Call(1, 0, TRUE) /\ Going /\ UNCHANGED <<table, nested, last>>
    <3>1. phase' = phase /\ CallsTyped(1)
      BY <2>1, <2>3 DEF Going, CallsTyped
    <3> QED BY <1>1, <1>2, <2>1, <2>2, <2>3, <3>1, CallShape, Zenon
  <2>4. CASE Call(2, 0, FALSE) /\ Going /\ UNCHANGED <<table, nested, last>>
    <3>1. phase' = phase
      BY <2>4 DEF Going
    <3>2. <<Kid(2), nested>> \in Inner(N, Top.scope)
      BY <1>3, <2>1 DEF Inside, Inner, Kid, N
    <3> QED BY <1>1, <1>2, <2>1, <2>2, <2>4, <3>1, <3>2, CallShape, Zenon
  <2>5. CASE Return /\ Going /\ UNCHANGED <<table, nested, last>>
    BY <1>1, <2>1, <2>5, ReturnShape DEF Going
  <2>6. CASE Die \/ Undefined
    BY <2>6, UnwindShape
  <2> QED BY <1>7, <2>3, <2>4, <2>5, <2>6 DEF BeginIf, DecideIf, EndIf
<1> QED BY <1>4, <1>5, <1>6, <1>7

LEMMA EvalShapes ==
  ASSUME EvaluatorOK, Eval
  PROVE  phase = "eval" /\ EvalShape
BY ExpressionShape, StatementShape DEF Eval, EvalStep

-----------------------------------------------------------------------------
(***************************************************************************)
(* EntriesOK: what a step does to one entry of one table.                  *)
(***************************************************************************)

\* An entry that is there is replaced.
Replaces(k, entry) ==
  /\ k \in DOMAIN table /\ DOMAIN table' = DOMAIN table
  /\ table'[k] = entry
  /\ \A j \in DOMAIN table : j # k => table'[j] = table[j]

\* What TablesOnlyAdvance says of a step.
Advances ==
  /\ DOMAIN table \subseteq DOMAIN table'
  /\ phase # "populate" => DOMAIN table' = DOMAIN table
  /\ \A k \in DOMAIN table :
       /\ table'[k].ptr # Null
       /\ table[k].evaluated => table'[k].evaluated
       /\ table[k].type # Undet => table'[k].type # Undet

\* What TypesNeverChange says of one.
KeepsTypes == \A k \in DOMAIN table : table[k].type # Undet => table'[k].type = table[k].type

\* The accessor's set replaces the entry that its lookup finds.
LEMMA SetFacts ==
  ASSUME nested \in Seq(Node), NEW x, NEW entry, Set(x, entry)
  PROVE  \/ UNCHANGED table
         \/ \E k : /\ Replaces(k, entry) /\ table[k] = Lookup(x, FALSE)
                   /\ table[k].ptr.kind # "null"
<1> DEFINE i == Nearest(nested, x, FALSE)
<1>1. CASE i = 0
  BY <1>1 DEF Set
<1>2. CASE i # 0
  <2>1. Bound(nested[i], x)
    BY <1>2, NearestStops
  <2>2. <<nested[i], x>> \in DOMAIN table
    BY <2>1 DEF Bound, At, Absent, Entry, Null
  <2>3. table[<<nested[i], x>>] = Lookup(x, FALSE)
    BY <1>2, <2>2 DEF Lookup, LookupIn, At
  <2>4. Put(nested[i], x, entry)
    BY <1>2 DEF Set
  <2>5. table[<<nested[i], x>>].ptr.kind # "null"
    BY <2>1, <2>2 DEF Bound, At
  <2> HIDE DEF i
  <2>6. Replaces(<<nested[i], x>>, entry)
    BY <2>2, <2>4 DEF Put, Replaces
  <2> QED BY <2>3, <2>5, <2>6
<1> QED BY <1>1, <1>2

\* A step that leaves the tables alone.
LEMMA EntriesKeep ==
  ASSUME EntriesOK, UNCHANGED table, phase' \in {"populate", "check"} => phase \in {"populate", "check"}
  PROVE  EntriesOK' /\ Advances
BY DEF EntriesOK, Advances, Null

\* A step that replaces an entry by one that has advanced.
LEMMA EntriesReplace ==
  ASSUME EntriesOK, NEW k, NEW entry, Replaces(k, entry),
         phase' \in {"populate", "check"} => phase \in {"populate", "check"} /\ ~entry.evaluated,
         entry.ptr.kind # "null",
         entry.evaluated => entry.ptr.kind \in ConstantKinds,
         table[k].evaluated => entry.evaluated,
         table[k].type # Undet => entry.type # Undet
  PROVE  EntriesOK' /\ Advances
<1>1. ASSUME NEW j \in DOMAIN table
      PROVE  /\ table'[j].ptr.kind # "null"
             /\ table'[j].evaluated => table'[j].ptr.kind \in ConstantKinds
             /\ phase' \in {"populate", "check"} => ~table'[j].evaluated
             /\ table[j].evaluated => table'[j].evaluated
             /\ table[j].type # Undet => table'[j].type # Undet
  <2>1. CASE j = k
    BY <2>1 DEF Replaces
  <2>2. CASE j # k
    BY <2>2 DEF Replaces, EntriesOK
  <2> QED BY <2>1, <2>2
<1>2. DOMAIN table' = DOMAIN table
  BY DEF Replaces
<1>3. \A j \in DOMAIN table : table'[j].ptr # Null
  BY <1>1 DEF Null
<1> QED BY <1>1, <1>2, <1>3 DEF EntriesOK, Advances

\* The first pass adds entries, one at a time, and never touches one.
LEMMA PopulateEntries ==
  ASSUME MachineOK, EntriesOK, Populate
  PROVE  EntriesOK' /\ Advances /\ KeepsTypes
<1>1. phase = "populate" /\ phase' = phase
  BY DEF Populate, PopulateStep
<1>2. CASE UNCHANGED table
  BY <1>1, <1>2, EntriesKeep DEF KeepsTypes
<1>3. CASE /\ Running({"assign"}, 0) /\ ~Known(Var[N])
           /\ Put(nested[Len(nested)], Var[N], Entry(RightSide, Undet, FALSE))
  <2> DEFINE b == nested[Len(nested)]
             x == Var[N]
             e == Entry(RightSide, Undet, FALSE)
  <2>1. stk # << >> /\ Kind[N] = "assign" /\ stk \in Seq(Frames) /\ nested \in Seq(Node) /\ PathOK
    BY <1>3 DEF Running, MachineOK, TypeOK
  <2>2. Len(stk) \in 1..Len(stk) /\ Top = stk[Len(stk)] /\ N = Top.n
    BY <2>1, TopFacts DEF Top, N
  <2>3. nested = Top.scope /\ nested # << >>
    BY <2>1, <2>2 DEF PathOK, Inside
  <2>4. Len(nested) \in DOMAIN nested
    BY <2>1, <2>3
  <2>5. <<b, x>> \notin DOMAIN table
    <3> SUFFICES ASSUME <<b, x>> \in DOMAIN table PROVE FALSE
      OBVIOUS
    <3>1. Bound(b, x)
      BY DEF EntriesOK, Bound, At
    <3>2. Len(nested) \in Stops(nested, x, FALSE)
      BY <2>4, <3>1 DEF Stops
    <3>3. Nearest(nested, x, FALSE) \in Stops(nested, x, FALSE)
      BY <2>1, <3>2, NearestStops
    <3>4. Nearest(nested, x, FALSE) # 0
      <4>1. \A i \in DOMAIN nested : i # 0
        BY <2>1
      <4> QED BY <3>3, <4>1 DEF Stops
    <3>5. Lookup(x, FALSE).ptr.kind # "null"
      BY <3>3, <3>4 DEF Lookup, LookupIn, Stops, Bound
    <3>6. Lookup(x, FALSE).ptr = Null
      BY <1>3 DEF Known
    <3>7. Null.kind = "null"
      BY DEF Null
    <3> QED BY <3>5, <3>6, <3>7, Zenon
  <2>6. e.ptr.kind = "expr" /\ e.type = Undet /\ e.evaluated = FALSE
    BY DEF Entry, RightSide
  <2>7. table' = [k \in DOMAIN table \cup {<<b, x>>} |-> IF k = <<b, x>> THEN e ELSE table[k]]
    BY <1>3 DEF Put
  <2> HIDE DEF b, x, e
  <2>8. /\ DOMAIN table' = DOMAIN table \cup {<<b, x>>} /\ table'[<<b, x>>] = e
        /\ \A k \in DOMAIN table : table'[k] = table[k]
    BY <2>5, <2>7
  <2>9. EntriesOK'
    BY <1>1, <2>6, <2>8 DEF EntriesOK
  <2>10. Advances /\ KeepsTypes
    BY <1>1, <2>8 DEF Advances, EntriesOK, Null, KeepsTypes
  <2> QED BY <2>9, <2>10
<1> QED BY <1>2, <1>3
       DEF Populate, PopulateStep, PopulateBlock, PopulateAssign, PopulateIf, PopulateOther

\* The second pass gives types to entries that have none.
LEMMA CheckEntries ==
  ASSUME MachineOK, EntriesOK, Check
  PROVE  EntriesOK' /\ Advances /\ KeepsTypes
<1>1. phase = "check"
  BY DEF Check, CheckStep
<1>2. CASE UNCHANGED table
  BY <1>1, <1>2, EntriesKeep DEF KeepsTypes
<1>3. CASE /\ Running({"assign"}, 1) /\ ~IllTyped(Lookup(Var[N], FALSE))
           /\ GiveType(Lookup(Var[N], FALSE))
  <2> DEFINE sym == Lookup(Var[N], FALSE)
             e == Entry(sym.ptr, curr, FALSE)
  <2>1. CASE sym.type = Undet /\ Set(Var[N], e)
    <3>1. nested \in Seq(Node)
      BY DEF MachineOK, TypeOK
    <3>2. ASSUME NEW k, Replaces(k, e), table[k] = sym, table[k].ptr.kind # "null"
          PROVE  EntriesOK' /\ Advances /\ KeepsTypes
      <4>1. k \in DOMAIN table /\ ~table[k].evaluated
        BY <1>1, <3>2 DEF Replaces, EntriesOK
      <4>2. e.ptr = table[k].ptr /\ e.type = curr /\ e.evaluated = FALSE
        BY <3>2 DEF Entry
      <4>3. curr # Undet
        BY <1>3 DEF IllTyped
      <4>4. KeepsTypes
        BY <2>1, <3>2 DEF Replaces, KeepsTypes
      <4> HIDE DEF e
      <4> QED BY <1>1, <3>2, <4>1, <4>2, <4>3, <4>4, EntriesReplace
    <3> HIDE DEF e, sym
    <3>3. \/ UNCHANGED table
          \/ \E k : Replaces(k, e) /\ table[k] = Lookup(Var[N], FALSE) /\ table[k].ptr.kind # "null"
      BY <2>1, <3>1, SetFacts, Zenon
    <3> QED BY <1>2, <3>2, <3>3 DEF sym
  <2>2. CASE UNCHANGED table
    BY <1>2, <2>2
  <2> QED BY <1>3, <2>1, <2>2 DEF GiveType
<1> QED BY <1>2, <1>3
       DEF Check, CheckStep, CheckLeaf, CheckUnary, CheckBinary, CheckEquals, CheckAssign, CheckIf,
           CheckBlock, CheckChild, Conclude, Checked, Reject

\* An evaluation sets an entry to a constant, of a type.
LEMMA ConstantEntry ==
  ASSUME EntriesOK, nested \in Seq(Node), phase' \notin {"populate", "check"},
         NEW x, NEW ptr, NEW ty, ptr.kind \in ConstantKinds, ty # Undet, Set(x, Entry(ptr, ty, TRUE))
  PROVE  EntriesOK' /\ Advances
<1> DEFINE e == Entry(ptr, ty, TRUE)
<1>1. e.ptr = ptr /\ e.type = ty /\ e.evaluated = TRUE
  BY DEF Entry
<1>2. ptr.kind # "null"
  BY DEF ConstantKinds
<1> HIDE DEF e
<1>3. ASSUME NEW k, Replaces(k, e)
      PROVE  EntriesOK' /\ Advances
  BY <1>1, <1>2, <1>3, EntriesReplace
<1>4. UNCHANGED table \/ \E k : Replaces(k, e)
  <2>1. Set(x, e)
    BY DEF e
  <2> QED BY <2>1, SetFacts
<1> QED BY <1>3, <1>4, EntriesKeep

\* An assignment that is running, and its visitor.
LEMMA AssignmentFacts ==
  ASSUME EvaluatorOK, phase = "eval", VisitsOK, LastOK, stk # << >>, Kind[N] = "assign", ~Top.typed
  PROVE  /\ Top.local \in 0..last.id
         /\ Cascading => last.id > 0 /\ last.ptr.kind \in ConstantKinds
         /\ Top.stage > 0 => Visiting.ty \in ValueTypes
<1>1. /\ stk \in Seq(Frames) /\ Len(vis) = Cardinality(Owners) /\ last.id \in Nat
      /\ Kind[N] # "block"
  BY DEF EvaluatorOK, StackOK
<1>2. Len(stk) \in 1..Len(stk) /\ Top = stk[Len(stk)] /\ N = Top.n
  BY <1>1, TopFacts DEF Top, N
<1>3. Top.local \in 0..last.id
  BY <1>2 DEF LastOK
<1>4. Cascading => last.id > 0 /\ last.ptr.kind \in ConstantKinds
  BY <1>1, <1>3 DEF Cascading, LastOK
<1>5. ASSUME Top.stage > 0 PROVE Visiting.ty \in ValueTypes
  <2>1. Len(stk) \in Owners
    BY <1>2, <1>5 DEF Owners, Owns
  <2>2. Rank(Len(stk)) = Len(vis)
    BY <1>1, <2>1, RankFacts
  <2>3. vis[Len(vis)].ty \in TypesOf(Top)
    BY <1>2, <2>1, <2>2 DEF VisitsOK
  <2> QED BY <1>1, <1>2, <2>3 DEF TypesOf, Visiting
<1> QED BY <1>3, <1>4, <1>5

\* The constant that an assignment stores.
LEMMA NewValueFacts ==
  ASSUME EvaluatorOK, phase = "eval", VisitsOK, LastOK, EndAssign, phase' = "eval"
  PROVE  /\ stk # << >> /\ Kind[N] = "assign" /\ NewValue.kind \in ConstantKinds
         /\ Visiting.ty # Undet /\ Set(Var[N], Entry(NewValue, Visiting.ty, TRUE))
         /\ last' = last \/ last' = [id |-> last.id + 1, ptr |-> NewValue]
<1>1. stk # << >> /\ Kind[N] = "assign" /\ Kind[N] # "block" /\ ~Top.typed /\ Top.stage = 1
  BY DEF EndAssign, Statement, Running
<1>2. Visiting.ty \in ValueTypes /\ (Cascading => last.ptr.kind \in ConstantKinds)
  BY <1>1, AssignmentFacts
<1>3. Value \in Int
  BY <1>1, VisFacts
<1>4. NewValue.kind \in ConstantKinds
  BY <1>2, <1>3, NewConstantTypes DEF NewValue
<1>5. ~Undefined
  BY DEF Undefined, Unwind
<1>6. Visiting.ty # Undet
  BY <1>2 DEF ValueTypes, IntType, FloatType, StringType, Undet
<1> QED BY <1>1, <1>4, <1>5, <1>6 DEF EndAssign, NewEntry

LEMMA EvalEntries ==
  ASSUME MachineOK, VisitsOK, EntriesOK, LastOK, Eval
  PROVE  EntriesOK' /\ Advances
<1>1. phase = "eval" /\ nested \in Seq(Node) /\ EvaluatorOK /\ EvalShape
  BY EvalShapes, EvaluatorHolds DEF Eval, EvalStep, MachineOK, TypeOK
<1>2. phase' \in {"ready", "stopped", "eval"}
  BY <1>1 DEF EvalShape
<1>3. CASE UNCHANGED table
  BY <1>2, <1>3, EntriesKeep
<1>4. CASE EndTypedAssign /\ phase' = "eval"
  <2>1. ~Undefined /\ Visiting.ty # Undet /\ Kind[N] = "assign" /\ stk # << >>
    BY <1>4 DEF Undefined, Unwind, EndTypedAssign, Typed, Running
  <2>2. Value \in Int
    BY <1>1, <2>1, VisFacts
  <2>3. NewTypedConstant(Visiting.ty, Value).kind \in ConstantKinds
    BY <2>2, NewConstantTypes
  <2>4. Set(Var[N], Entry(NewTypedConstant(Visiting.ty, Value), Visiting.ty, TRUE))
    BY <1>4, <2>1 DEF EndTypedAssign
  <2> QED BY <1>1, <1>2, <1>4, <2>1, <2>3, <2>4, ConstantEntry
<1>5. CASE EndAssign /\ phase' = "eval"
  BY <1>1, <1>5, NewValueFacts, ConstantEntry
<1> QED BY <1>1, <1>3, <1>4, <1>5 DEF EvalShape

-----------------------------------------------------------------------------
(***************************************************************************)
(* LastOK.                                                                 *)
(***************************************************************************)

\* last_assign_ moves on, and each assignment remembers an earlier one.
LEMMA LastStep ==
  ASSUME LastOK, phase = "eval", last.id \in Nat, last'.id \in Nat, last.id <= last'.id,
         last'.id > 0 => last'.ptr.kind \in ConstantKinds,
         \A i \in 1..Len(stk') :
            \/ i \in 1..Len(stk) /\ stk'[i] = stk[i]
            \/ Kind[stk'[i].n] = "assign" /\ ~stk'[i].typed => stk'[i].local \in 0..last'.id
  PROVE  LastOK'
<1>1. \A i \in 0..last.id : i \in 0..last'.id
  OBVIOUS
<1>2. ASSUME NEW i \in 1..Len(stk'), Kind[stk'[i].n] = "assign", ~stk'[i].typed
      PROVE  stk'[i].local \in 0..last'.id
  <2>1. CASE i \in 1..Len(stk) /\ stk'[i] = stk[i]
    <3>1. stk[i].local \in 0..last.id
      BY <1>2, <2>1 DEF LastOK
    <3> QED BY <1>1, <2>1, <3>1
  <2>2. CASE Kind[stk'[i].n] = "assign" /\ ~stk'[i].typed => stk'[i].local \in 0..last'.id
    BY <1>2, <2>2
  <2> QED BY <2>1, <2>2
<1> QED BY <1>2 DEF LastOK

LEMMA LastReturn ==
  ASSUME EvaluatorOK, LastOK, phase = "eval", stk # << >>, Return, last'.id \in Nat, last.id <= last'.id,
         last'.id > 0 => last'.ptr.kind \in ConstantKinds
  PROVE  LastOK'
<1>1. stk \in Seq(Frames) /\ last.id \in Nat
  BY DEF EvaluatorOK, StackOK
<1>2. Len(stk) \in Nat /\ Len(stk') = Len(stk) - 1 /\ \A i \in 1..(Len(stk) - 1) : stk'[i] = stk[i]
  BY <1>1, ReturnFacts
<1>3. \A i \in 1..Len(stk') : i \in 1..Len(stk) /\ stk'[i] = stk[i]
  BY <1>2
<1> QED BY <1>1, <1>3, LastStep

LEMMA EvalLast ==
  ASSUME MachineOK, VisitsOK, LastOK, Eval
  PROVE  LastOK'
<1>1. phase = "eval" /\ EvaluatorOK /\ EvalShape
  BY EvalShapes, EvaluatorHolds DEF Eval, EvalStep
<1>2. stk \in Seq(Frames) /\ nested \in Seq(Node) /\ last.id \in Nat
  BY <1>1 DEF EvaluatorOK, StackOK
<1>3. CASE phase' # "eval" /\ UNCHANGED last
  BY <1>3 DEF LastOK
<1>4. CASE stk # << >> /\ Return /\ UNCHANGED last
  BY <1>1, <1>2, <1>4, LastReturn DEF LastOK
<1>5. CASE stk # << >> /\ EnterScope(0) /\ UNCHANGED last
  <2>1. /\ Len(stk) \in Nat /\ Len(stk') = Len(stk) /\ stk'[Len(stk)] = Later(1, 0)
        /\ \A i \in 1..(Len(stk) - 1) : stk'[i] = stk[i]
    BY <1>2, <1>5, GotoFacts DEF EnterScope
  <2>2. Kind[stk'[Len(stk)].n] # "assign"
    BY <1>5, <2>1, LaterFacts DEF EnterScope, Running
  <2>3. \A i \in 1..Len(stk) : i = Len(stk) \/ i \in 1..(Len(stk) - 1)
    BY <2>1
  <2>4. \A i \in 1..Len(stk') :
            \/ i \in 1..Len(stk) /\ stk'[i] = stk[i]
            \/ Kind[stk'[i].n] = "assign" /\ ~stk'[i].typed => stk'[i].local \in 0..last'.id
    BY <2>1, <2>2, <2>3
  <2>5. last'.id \in Nat /\ last.id <= last'.id /\ (last'.id > 0 => last'.ptr.kind \in ConstantKinds)
    BY <1>2, <1>5 DEF LastOK
  <2> QED BY <1>1, <1>2, <2>4, <2>5, LastStep, Zenon
<1>6. ASSUME stk # << >>, UNCHANGED last,
             NEW k \in DOMAIN Kids[N], NEW v \in Int, NEW typed \in BOOLEAN, Call(k, v, typed),
             Kind[N] = "assign" /\ ~Top.typed => v = last.id
      PROVE  LastOK'
  <2> DEFINE caller == Later(Top.stage + 1, v)
             callee == Frame(Kids[N][k], typed, nested)
  <2>1. /\ Len(stk) \in Nat /\ Len(stk') = Len(stk) + 1
        /\ stk'[Len(stk)] = caller /\ stk'[Len(stk) + 1] = callee
        /\ \A i \in 1..(Len(stk) - 1) : stk'[i] = stk[i]
    BY <1>2, <1>6, CallFacts, TopFacts
  <2>2. caller.n = N /\ caller.typed = Top.typed /\ caller.local = v /\ callee.local = 0
    BY LaterFacts, FrameFacts
  <2>3. last'.id \in Nat /\ last.id <= last'.id /\ (last'.id > 0 => last'.ptr.kind \in ConstantKinds)
    BY <1>2, <1>6 DEF LastOK
  <2>4. 0 \in 0..last'.id /\ last.id \in 0..last'.id
    BY <1>2, <2>3
  <2>5. \A i \in 1..(Len(stk) + 1) : i = Len(stk) \/ i = Len(stk) + 1 \/ i \in 1..(Len(stk) - 1)
    BY <2>1
  <2>6. \A i \in 1..(Len(stk) - 1) : i \in 1..Len(stk)
    BY <2>1
  <2> HIDE DEF caller, callee
  <2>7. ASSUME NEW i \in 1..Len(stk')
        PROVE  \/ i \in 1..Len(stk) /\ stk'[i] = stk[i]
               \/ Kind[stk'[i].n] = "assign" /\ ~stk'[i].typed => stk'[i].local \in 0..last'.id
    <3>1. i = Len(stk) \/ i = Len(stk) + 1 \/ i \in 1..(Len(stk) - 1)
      BY <2>1, <2>5
    <3>2. CASE i = Len(stk)
      BY <1>6, <2>1, <2>2, <2>4, <3>2
    <3>3. CASE i = Len(stk) + 1
      BY <2>1, <2>2, <2>4, <3>3
    <3>4. CASE i \in 1..(Len(stk) - 1)
      BY <2>1, <2>6, <3>4
    <3> QED BY <3>1, <3>2, <3>3, <3>4
  <2> QED BY <1>1, <1>2, <2>3, <2>7, LastStep, Zenon
<1>7. CASE EndAssign /\ phase' = "eval" /\ Return
  <2>1. stk # << >> /\ NewValue.kind \in ConstantKinds
        /\ (last' = last \/ last' = [id |-> last.id + 1, ptr |-> NewValue])
    BY <1>1, <1>7, NewValueFacts
  <2>2. last'.id \in Nat /\ last.id <= last'.id /\ (last'.id > 0 => last'.ptr.kind \in ConstantKinds)
    BY <1>2, <2>1 DEF LastOK
  <2> QED BY <1>1, <1>7, <2>1, <2>2, LastReturn
<1>8. CASE EvalCall /\ stk # << >> /\ UNCHANGED last
  BY <1>6, <1>8 DEF EvalCall
<1> QED BY <1>1, <1>3, <1>4, <1>5, <1>7, <1>8 DEF EvalShape

-----------------------------------------------------------------------------
(***************************************************************************)
(* TablesOK is inductive, and what follows.                                *)
(***************************************************************************)
LEMMA InitTables ==
  ASSUME Init
  PROVE  TablesOK
<1>1. table = << >> /\ DOMAIN table = {} /\ phase = "populate" /\ last.id = 0
  BY DEF Init, NoConstant
<1> QED BY <1>1 DEF TablesOK, VisitsOK, EntriesOK, LastOK

\* The steps that neither read nor write last_assign_.
LEMMA OtherLast ==
  ASSUME MachineOK, LastOK, Populate \/ Check \/ StartCheck \/ EndCheck \/ Evaluate \/ EndEvaluate
  PROVE  LastOK'
<1>1. CASE phase' # "eval" /\ last' = last
  BY <1>1 DEF LastOK
<1>2. CASE Evaluate
  <2> DEFINE f == Frame(root, FALSE, << >>)
  <2>1. f \in Frames /\ f.n = root /\ Kind[root] = "block"
    BY RootFacts, FrameFacts DEF Frames, Frame, MachineOK, TypeOK
  <2>2. stk' = <<f>> /\ last'.id = 0
    BY <1>2 DEF Evaluate, NoConstant
  <2> HIDE DEF f
  <2>3. Len(stk') = 1 /\ \A i \in 1..Len(stk') : stk'[i] = f
    BY <2>1, <2>2, OneElement, Zenon
  <2>4. \A i \in 1..Len(stk') : Kind[stk'[i].n] # "assign"
    BY <2>1, <2>3
  <2> QED BY <2>2, <2>4 DEF LastOK
<1>3. CASE Check
  <2>1. /\ Reject => phase' = "stopped"
        /\ Checked => phase' = phase
        /\ \A k, v : CheckChild(k, v) => phase' = phase
        /\ \A ty : Conclude(ty) => phase' \in {phase, "stopped"}
    BY DEF Reject, Checked, CheckChild, Conclude
  <2>2. phase' # "eval" /\ last' = last
    BY <1>3, <2>1 DEF Check, CheckStep, CheckLeaf, CheckUnary, CheckBinary, CheckEquals,
                      CheckAssign, CheckIf, CheckBlock
  <2> QED BY <1>1, <2>2
<1> QED BY <1>1, <1>2, <1>3 DEF Populate, PopulateStep, StartCheck, EndCheck, EndEvaluate

\* Every step keeps TablesOK and advances the tables.
LEMMA TablesInductive ==
  ASSUME MachineOK, TablesOK, [Next]_vars
  PROVE  TablesOK' /\ (Advances \/ UNCHANGED vars)
<1>1. VisitsOK'
  BY VisitsInductive DEF TablesOK
<1>2. CASE UNCHANGED vars
  <2>1. UNCHANGED <<table, phase, last, stk>>
    BY <1>2 DEF vars
  <2> QED BY <1>1, <1>2, <2>1 DEF TablesOK, EntriesOK, LastOK
<1>3. CASE StartCheck \/ EndCheck \/ Evaluate \/ EndEvaluate
  <2>1. UNCHANGED table /\ (phase' \in {"populate", "check"} => phase \in {"populate", "check"})
    BY <1>3 DEF StartCheck, EndCheck, Evaluate, EndEvaluate
  <2>2. EntriesOK' /\ Advances
    BY <2>1, EntriesKeep DEF TablesOK
  <2>3. LastOK'
    BY <1>3, OtherLast DEF TablesOK
  <2> QED BY <1>1, <2>2, <2>3 DEF TablesOK
<1>4. CASE Populate
  BY <1>1, <1>4, PopulateEntries, OtherLast DEF TablesOK
<1>5. CASE Check
  BY <1>1, <1>5, CheckEntries, OtherLast DEF TablesOK
<1>6. CASE Eval
  BY <1>1, <1>6, EvalEntries, EvalLast DEF TablesOK
<1> QED BY <1>2, <1>3, <1>4, <1>5, <1>6 DEF Next

THEOREM Tables == Spec => []TablesOK
<1>1. Init => TablesOK
  BY InitTables
<1>2. MachineOK /\ TablesOK /\ [Next]_vars => TablesOK'
  BY TablesInductive
<1> QED BY <1>1, <1>2, Machine, PTL DEF Spec

(***************************************************************************)
(* Reading a variable visits no expression: an entry that is marked        *)
(* evaluated points at a constant, also when a cascading assignment shared *)
(* another's (interpreter.cpp:48-50, 326-328, 347).                        *)
(***************************************************************************)
THEOREM EvaluatedConstant == Spec => []EvaluatedIsConstant
<1>1. TablesOK => EvaluatedIsConstant
  BY DEF TablesOK, EntriesOK, EvaluatedIsConstant
<1> QED BY <1>1, Tables, PTL

(***************************************************************************)
(* No step of any pass or evaluation loses an entry, its type or its being *)
(* evaluated, though all write the tables through the same accessor, which *)
(* replaces entries whole; and after the first pass no block binds a new   *)
(* name (symbol_table.cpp:54-57, populate_symbol_table.cpp).               *)
(***************************************************************************)
THEOREM OnlyAdvance == Spec => TablesOnlyAdvance
<1> DEFINE A == /\ DOMAIN table \subseteq DOMAIN table'
                /\ phase # "populate" => DOMAIN table' = DOMAIN table
                /\ \A k \in DOMAIN table :
                     /\ table'[k].ptr # Null
                     /\ table[k].evaluated => table'[k].evaluated
                     /\ table[k].type # Undet => table'[k].type # Undet
<1>1. MachineOK /\ TablesOK /\ [Next]_vars => [A]_vars
  BY TablesInductive DEF Advances
<1> QED BY <1>1, Machine, Tables, PTL DEF Spec, TablesOnlyAdvance

-----------------------------------------------------------------------------
(***************************************************************************)
(* Bindings and types, once there, stay.                                   *)
(***************************************************************************)

\* A block binds a name if its table has the key.
LEMMA BoundFacts ==
  ASSUME EntriesOK, NEW b, NEW x
  PROVE  Bound(b, x) <=> <<b, x>> \in DOMAIN table
<1>1. CASE <<b, x>> \in DOMAIN table
  BY <1>1 DEF Bound, At, EntriesOK
<1>2. CASE <<b, x>> \notin DOMAIN table
  BY <1>2 DEF Bound, At, Absent, Entry, Null
<1> QED BY <1>1, <1>2

LEMMA BoundStays ==
  ASSUME EntriesOK, EntriesOK', Advances, NEW b, NEW x
  PROVE  /\ Bound(b, x) => Bound(b, x)'
         /\ phase # "populate" => (Bound(b, x)' <=> Bound(b, x))
<1>1. Bound(b, x) <=> <<b, x>> \in DOMAIN table
  BY BoundFacts
<1>2. Bound(b, x)' <=> <<b, x>> \in DOMAIN table'
  <2>1. CASE <<b, x>> \in DOMAIN table'
    BY <2>1 DEF Bound, At, EntriesOK
  <2>2. CASE <<b, x>> \notin DOMAIN table'
    BY <2>2 DEF Bound, At, Absent, Entry, Null
  <2> QED BY <2>1, <2>2
<1> QED BY <1>1, <1>2 DEF Advances

LEMMA BindingStays ==
  ASSUME EntriesOK, EntriesOK', Advances, NEW scope, NEW x
  PROVE  /\ HasBinding(scope, x) => HasBinding(scope, x)'
         /\ phase # "populate" => (HasBinding(scope, x)' <=> HasBinding(scope, x))
<1>1. /\ HasBinding(scope, x) <=> \E i \in DOMAIN scope : Bound(scope[i], x)
      /\ HasBinding(scope, x)' <=> \E i \in DOMAIN scope : Bound(scope[i], x)'
  BY DEF HasBinding
<1>2. \A b : /\ Bound(b, x) => Bound(b, x)'
             /\ phase # "populate" => (Bound(b, x)' <=> Bound(b, x))
  BY BoundStays
<1> QED BY <1>1, <1>2, Zenon

\* The accessor finds a name that its list of tables binds.
LEMMA BindingFound ==
  ASSUME NEW list \in Seq(Node), NEW x
  PROVE  HasBinding(list, x) <=> Nearest(list, x, FALSE) # 0
<1> DEFINE i == Nearest(list, x, FALSE)
<1>1. ASSUME HasBinding(list, x) PROVE i # 0
  <2>1. Stops(list, x, FALSE) # {}
    BY <1>1 DEF HasBinding, Stops
  <2>2. i \in Stops(list, x, FALSE)
    BY <2>1, NearestStops
  <2>3. i \in DOMAIN list
    BY <2>2 DEF Stops
  <2>4. \A j \in DOMAIN list : j # 0
    OBVIOUS
  <2> QED BY <2>3, <2>4
<1>2. ASSUME i # 0 PROVE HasBinding(list, x)
  <2>1. i \in DOMAIN list /\ Bound(list[i], x)
    BY <1>2, NearestStops
  <2> QED BY <2>1 DEF HasBinding
<1> QED BY <1>1, <1>2

\* A name is found in the same table while the same tables bind it, ...
LEMMA NearestSame ==
  ASSUME NEW scope, NEW x, NEW i, i = Nearest(scope, x, FALSE),
         \A b : Bound(b, x)' <=> Bound(b, x)
  PROVE  Nearest(scope, x, FALSE)' = i
<1> DEFINE S == Stops(scope, x, FALSE)
           highest(T) == IF T = {} THEN 0 ELSE CHOOSE j \in T : \A m \in T : m <= j
<1>1. /\ S = {j \in DOMAIN scope : Bound(scope[j], x)}
      /\ S' = {j \in DOMAIN scope : Bound(scope[j], x)'}
  BY DEF Stops
<1>2. S' = S
  BY <1>1, Zenon
<1>3. Nearest(scope, x, FALSE) = highest(S) /\ Nearest(scope, x, FALSE)' = highest(S')
  BY DEF Nearest
<1> HIDE DEF S, highest
<1> QED BY <1>2, <1>3, Zenon

\* ... which is always after the first pass, ...
LEMMA NearestStays ==
  ASSUME EntriesOK, EntriesOK', Advances, phase # "populate",
         NEW scope, NEW x, NEW i, i = Nearest(scope, x, FALSE)
  PROVE  Nearest(scope, x, FALSE)' = i
<1>1. \A b : Bound(b, x)' <=> Bound(b, x)
  BY BoundStays
<1> QED BY <1>1, NearestSame, Zenon

\* ... and the type found stays one.
LEMMA TypeStays ==
  ASSUME EntriesOK, EntriesOK', Advances, TypeOK, TypeOK', phase # "populate",
         NEW scope \in Seq(Node), NEW x, HasType(scope, x)
  PROVE  HasType(scope, x)'
<1>1. PICK i : i = Nearest(scope, x, FALSE)
  OBVIOUS
<1>2. Nearest(scope, x, FALSE)' = i
  BY <1>1, NearestStays
<1> DEFINE k == <<scope[i], x>>
<1>3. i # 0
  <2>1. Nearest(scope, x, FALSE) = 0 => LookupIn(scope, x, FALSE) = Absent
    BY DEF LookupIn
  <2>2. Absent.type \notin ValueTypes
    BY DEF Absent, Entry, ValueTypes, Undet, IntType, FloatType, StringType
  <2> QED BY <1>1, <2>1, <2>2, Zenon DEF HasType
<1>4. k \in DOMAIN table
  <2>1. Bound(scope[i], x)
    BY <1>1, <1>3, NearestStops
  <2> QED BY <2>1, BoundFacts
<1>5. DOMAIN table' = DOMAIN table
  BY DEF Advances
<1>6. table[k].type \in ValueTypes
  <2>1. LookupIn(scope, x, FALSE) = table[k]
    BY <1>1, <1>3, <1>4 DEF LookupIn, At
  <2> QED BY <2>1, Zenon DEF HasType
<1>7. table'[k].type # Undet
  BY <1>4, <1>6 DEF Advances, ValueTypes, Undet, IntType, FloatType, StringType
<1>8. table'[k].type \in TableTypes
  BY <1>4, <1>5 DEF TypeOK, Entries
<1>9. table'[k].type \in ValueTypes
  BY <1>7, <1>8 DEF TableTypes, ValueTypes
<1>10. LookupIn(scope, x, FALSE)' = table'[k]
  <2>1. LookupIn(scope, x, FALSE)' = At(scope[i], x)'
    BY <1>2, <1>3 DEF LookupIn
  <2>2. At(scope[i], x)' = table'[k]
    BY <1>4, <1>5 DEF At
  <2> QED BY <2>1, <2>2
<1> QED BY <1>9, <1>10, Zenon DEF HasType

-----------------------------------------------------------------------------
(***************************************************************************)
(* The record of the calls that have returned, for a pass and a stack.     *)
(***************************************************************************)
Back(pass, f, called) ==
  CASE Kind[f.n] = "block" -> {<<Kids[f.n][k], Append(f.scope, f.n)>> : k \in 1..(called - 1)}
    [] Kind[f.n] = "assign" /\ called = 1 -> {<<Kids[f.n][1], f.scope>>}
    [] Kind[f.n] = "if_stmt" /\ called = (IF pass = "populate" THEN 1 ELSE 2) ->
         {<<Kids[f.n][2], f.scope>>}
    [] OTHER -> {}

AllBack(pass, frames, calls) ==
  \A i \in 1..Len(frames) :
    Back(pass, frames[i], IF i < Len(frames) THEN frames[i].stage - 1 ELSE frames[i].stage)
      \subseteq calls

LEMMA ReturnedInIsAllBack ==
  /\ ReturnedIn(populated) <=> AllBack(phase, stk, populated)
  /\ ReturnedIn(checked) <=> AllBack(phase, stk, checked)
  /\ ReturnedIn(populated)' <=> AllBack(phase', stk', populated')
  /\ ReturnedIn(checked)' <=> AllBack(phase', stk', checked')
BY DEF ReturnedIn, AllBack, Returned, Back

\* A new call has called nothing, nor has a block that has entered its scope.
LEMMA BackNew ==
  ASSUME NEW pass, NEW f
  PROVE  /\ Back(pass, f, 0) = {}
         /\ Kind[f.n] = "block" => Back(pass, f, 1) = {}
<1>1. 1..(0 - 1) = {} /\ 1..(1 - 1) = {}
  OBVIOUS
<1>2. 0 # 1 /\ 0 # (IF pass = "populate" THEN 1 ELSE 2)
  OBVIOUS
<1>3. Back(pass, f, 0) = {}
  <2>1. CASE Kind[f.n] = "block"
    BY <1>1, <2>1 DEF Back
  <2>2. CASE Kind[f.n] # "block"
    BY <1>2, <2>2 DEF Back
  <2> QED BY <2>1, <2>2
<1>4. ASSUME Kind[f.n] = "block" PROVE Back(pass, f, 1) = {}
  BY <1>1, <1>4 DEF Back
<1> QED BY <1>3, <1>4

\* When a call returns, its caller has one more that has.
LEMMA BackOne ==
  ASSUME NEW f \in Frames, NEW g \in Frames, Calls(f, g)
  PROVE  Back(phase, f, f.stage) \subseteq Back(phase, f, f.stage - 1) \cup {<<g.n, g.scope>>}
<1>1. f.stage \in Nat /\ f.stage > 0 /\ g.n = Kids[f.n][Called(f)] /\ g.scope = Inside(f)
  BY DEF Calls, Frames
<1>2. CASE Kind[f.n] = "block"
  <2>1. g.n = Kids[f.n][f.stage - 1] /\ g.scope = Append(f.scope, f.n)
    BY <1>1, <1>2 DEF Called, Inside
  <2>2. /\ Back(phase, f, f.stage) = {<<Kids[f.n][k], Append(f.scope, f.n)>> : k \in 1..(f.stage - 1)}
        /\ Back(phase, f, f.stage - 1) = {<<Kids[f.n][k], Append(f.scope, f.n)>> : k \in 1..(f.stage - 1 - 1)}
    BY <1>2 DEF Back
  <2>3. \A k \in 1..(f.stage - 1) : k = f.stage - 1 \/ k \in 1..(f.stage - 1 - 1)
    BY <1>1
  <2> QED BY <2>1, <2>2, <2>3, Zenon
<1>3. CASE Kind[f.n] = "assign"
  BY <1>1, <1>3 DEF Called, Inside, Back
<1>4. CASE Kind[f.n] = "if_stmt"
  BY <1>1, <1>4 DEF Called, Inside, Back
<1>5. CASE Kind[f.n] \notin {"block", "assign", "if_stmt"}
  BY <1>5 DEF Back
<1> QED BY <1>2, <1>3, <1>4, <1>5

\* A pass starts.
LEMMA StartBack ==
  ASSUME NEW pass, NEW n, NEW calls
  PROVE  AllBack(pass, <<Frame(n, FALSE, << >>)>>, calls)
<1> DEFINE f == Frame(n, FALSE, << >>)
<1>1. f.stage = 0
  BY DEF Frame
<1> HIDE DEF f
<1>2. Len(<<f>>) = 1 /\ \A i \in 1..Len(<<f>>) : i = 1 /\ <<f>>[i] = f /\ ~(i < Len(<<f>>))
  OBVIOUS
<1>3. AllBack(pass, <<f>>, calls)
  BY <1>1, <1>2, BackNew DEF AllBack
<1> QED BY <1>3 DEF f

\* A call: the caller's last call has not returned.
LEMMA CallBack ==
  ASSUME stk \in Seq(Frames), stk # << >>, nested \in Seq(Node),
         NEW k \in DOMAIN Kids[N], NEW v \in Int, NEW typed \in BOOLEAN, Call(k, v, typed),
         NEW calls, AllBack(phase, stk, calls)
  PROVE  AllBack(phase, stk', calls)
<1> DEFINE L == Len(stk)
           caller == Later(Top.stage + 1, v)
           callee == Frame(Kids[N][k], typed, nested)
<1>1. L \in Nat /\ L > 0 /\ Top = stk[L] /\ N = Top.n /\ Top.stage \in Nat
  BY TopFacts, KidFacts DEF Top, N
<1>2. /\ Len(stk') = L + 1 /\ stk'[L] = caller /\ stk'[L + 1] = callee
      /\ \A i \in 1..(L - 1) : stk'[i] = stk[i]
  BY CallFacts
<1>3. caller.n = Top.n /\ caller.scope = Top.scope /\ caller.stage = Top.stage + 1 /\ callee.stage = 0
  BY <1>1, LaterFacts, FrameFacts
<1> HIDE DEF L, caller, callee
<1>4. Back(phase, caller, caller.stage - 1) \subseteq calls
  <2>1. caller.stage - 1 = Top.stage
    BY <1>1, <1>3
  <2>2. L \in 1..L /\ ~(L < L)
    BY <1>1
  <2>3. Back(phase, Top, Top.stage) \subseteq calls
    BY <1>1, <2>2 DEF AllBack, L
  <2>4. Back(phase, caller, Top.stage) = Back(phase, Top, Top.stage)
    BY <1>3 DEF Back
  <2> QED BY <2>1, <2>3, <2>4
<1>5. Back(phase, callee, callee.stage) \subseteq calls
  BY <1>3, BackNew
<1>6. ASSUME NEW i \in 1..(L - 1)
      PROVE  Back(phase, stk'[i], stk'[i].stage - 1) \subseteq calls
  <2>1. i \in 1..L /\ i < L
    BY <1>1
  <2> QED BY <1>2, <2>1 DEF AllBack, L
<1>7. ASSUME NEW i \in 1..Len(stk')
      PROVE  Back(phase, stk'[i], IF i < Len(stk') THEN stk'[i].stage - 1 ELSE stk'[i].stage)
               \subseteq calls
  <2>1. \/ i \in 1..(L - 1) /\ i < Len(stk')
        \/ i = L /\ i < Len(stk')
        \/ i = L + 1 /\ ~(i < Len(stk'))
    BY <1>1, <1>2
  <2> QED BY <1>2, <1>4, <1>5, <1>6, <2>1
<1> QED BY <1>7 DEF AllBack

\* A return, of a call that is recorded.
LEMMA ReturnBack ==
  ASSUME stk \in Seq(Frames), stk # << >>, PathOK, Return,
         NEW calls, NEW more, AllBack(phase, stk, calls), calls \subseteq more,
         <<N, Top.scope>> \in more
  PROVE  AllBack(phase, stk', more)
<1> DEFINE L == Len(stk)
<1>1. L \in Nat /\ L > 0 /\ Top = stk[L] /\ N = Top.n
  BY TopFacts DEF Top, N
<1>2. Len(stk') = L - 1 /\ \A i \in 1..(L - 1) : stk'[i] = stk[i]
  BY ReturnFacts
<1>3. \A i \in 2..L : Calls(stk[i - 1], stk[i])
  BY DEF PathOK
<1>4. \A i \in 1..L : stk[i] \in Frames
  OBVIOUS
<1> HIDE DEF L
<1>5. ASSUME NEW i \in 1..(L - 1)
      PROVE  Back(phase, stk[i], stk[i].stage - 1) \subseteq more
  <2>1. i \in 1..L /\ i < L
    BY <1>1
  <2> QED BY <2>1 DEF AllBack, L
<1>6. ASSUME L - 1 \in 1..(L - 1)
      PROVE  Back(phase, stk[L - 1], stk[L - 1].stage) \subseteq more
  <2>1. L \in 2..L /\ L - 1 \in 1..L /\ L \in 1..L
    BY <1>1, <1>6
  <2>2. Calls(stk[L - 1], stk[L]) /\ stk[L - 1] \in Frames /\ stk[L] \in Frames
    BY <1>3, <1>4, <2>1
  <2>3. Back(phase, stk[L - 1], stk[L - 1].stage)
          \subseteq Back(phase, stk[L - 1], stk[L - 1].stage - 1) \cup {<<stk[L].n, stk[L].scope>>}
    BY <2>2, BackOne
  <2> QED BY <1>1, <1>5, <1>6, <2>3
<1>7. ASSUME NEW i \in 1..Len(stk')
      PROVE  Back(phase, stk'[i], IF i < Len(stk') THEN stk'[i].stage - 1 ELSE stk'[i].stage)
               \subseteq more
  <2>1. i \in 1..(L - 1)
    BY <1>2
  <2>2. i < Len(stk') \/ (i = L - 1 /\ ~(i < Len(stk')))
    BY <1>1, <1>2
  <2> QED BY <1>2, <1>5, <1>6, <2>1, <2>2
<1> QED BY <1>7 DEF AllBack

\* The entry of a scope.
LEMMA EnterBack ==
  ASSUME stk \in Seq(Frames), stk # << >>, NEW v \in Int, EnterScope(v),
         NEW calls, AllBack(phase, stk, calls)
  PROVE  AllBack(phase, stk', calls)
<1> DEFINE L == Len(stk)
           caller == Later(1, v)
<1>1. L \in Nat /\ L > 0
  BY TopFacts
<1>2. Len(stk') = L /\ stk'[L] = caller /\ \A i \in 1..(L - 1) : stk'[i] = stk[i]
  BY GotoFacts DEF EnterScope
<1>3. caller.stage = 1 /\ Kind[caller.n] = "block"
  BY LaterFacts DEF EnterScope, Running
<1> HIDE DEF L, caller
<1>4. ASSUME NEW i \in 1..(L - 1)
      PROVE  Back(phase, stk[i], stk[i].stage - 1) \subseteq calls
  <2>1. i \in 1..L /\ i < L
    BY <1>1
  <2> QED BY <2>1 DEF AllBack, L
<1>5. Back(phase, caller, caller.stage) \subseteq calls
  BY <1>3, BackNew
<1>6. ASSUME NEW i \in 1..Len(stk')
      PROVE  Back(phase, stk'[i], IF i < Len(stk') THEN stk'[i].stage - 1 ELSE stk'[i].stage)
               \subseteq calls
  <2>1. (i \in 1..(L - 1) /\ i < Len(stk')) \/ (i = L /\ ~(i < Len(stk')))
    BY <1>1, <1>2
  <2> QED BY <1>2, <1>4, <1>5, <2>1
<1> QED BY <1>6 DEF AllBack

\* The record stays closed when a call that has returned from all that it
\* leads to is added.
LEMMA CloseStep ==
  ASSUME stk \in Seq(Frames), stk # << >>, NEW calls, Closed(calls), AllBack(phase, stk, calls),
         Inner(N, Top.scope) \subseteq Back(phase, Top, Top.stage)
  PROVE  Closed(calls \cup {<<N, Top.scope>>})
<1>1. Len(stk) \in 1..Len(stk) /\ Top = stk[Len(stk)] /\ ~(Len(stk) < Len(stk))
  BY TopFacts DEF Top
<1>2. Back(phase, Top, Top.stage) \subseteq calls
  BY <1>1 DEF AllBack
<1>3. ASSUME NEW c \in calls \cup {<<N, Top.scope>>}
      PROVE  Inner(c[1], c[2]) \subseteq calls
  <2>1. CASE c \in calls
    BY <2>1 DEF Closed
  <2>2. CASE c = <<N, Top.scope>>
    <3>1. c[1] = N /\ c[2] = Top.scope
      BY <2>2
    <3> QED BY <1>2, <3>1
  <2> QED BY <2>1, <2>2
<1> QED BY <1>3 DEF Closed

\* What has returned from all its calls.
LEMMA InnerFacts ==
  ASSUME stk \in Seq(Frames), stk # << >>,
         \/ Kind[N] = "block" /\ Top.stage = Len(Kids[N]) + 1
         \/ Kind[N] = "assign" /\ Top.stage = 1
         \/ Kind[N] = "if_stmt" /\ Top.stage = (IF phase = "populate" THEN 1 ELSE 2)
         \/ Kind[N] \notin {"block", "assign", "if_stmt"}
  PROVE  Inner(N, Top.scope) \subseteq Back(phase, Top, Top.stage)
<1>1. Top.n = N /\ Kids[N] \in Seq(Node)
  BY KidFacts DEF N
<1>2. CASE Kind[N] = "block" /\ Top.stage = Len(Kids[N]) + 1
  <2>1. DOMAIN Kids[N] = 1..(Top.stage - 1)
    BY <1>1, <1>2
  <2>2. Inner(N, Top.scope) = {<<Kids[N][k], Append(Top.scope, N)>> : k \in DOMAIN Kids[N]}
    BY <1>2 DEF Inner
  <2>3. Back(phase, Top, Top.stage) = {<<Kids[N][k], Append(Top.scope, N)>> : k \in 1..(Top.stage - 1)}
    BY <1>1, <1>2 DEF Back
  <2> QED BY <2>1, <2>2, <2>3, Zenon
<1>3. CASE Kind[N] = "assign" /\ Top.stage = 1
  BY <1>1, <1>3 DEF Inner, Back
<1>4. CASE Kind[N] = "if_stmt" /\ Top.stage = (IF phase = "populate" THEN 1 ELSE 2)
  BY <1>1, <1>4 DEF Inner, Back
<1>5. CASE Kind[N] \notin {"block", "assign", "if_stmt"}
  BY <1>5 DEF Inner
<1> QED BY <1>2, <1>3, <1>4, <1>5

-----------------------------------------------------------------------------
(***************************************************************************)
(* The first pass.                                                         *)
(***************************************************************************)

\* A table of the list has the name, in the tables tables.
Keyed(tables, scope, x) == \E i \in DOMAIN scope : <<scope[i], x>> \in DOMAIN tables

LEMMA KeyedFacts ==
  ASSUME NEW scope, NEW x
  PROVE  /\ EntriesOK => (HasBinding(scope, x) <=> Keyed(table, scope, x))
         /\ EntriesOK' => (HasBinding(scope, x)' <=> Keyed(table', scope, x))
<1>1. ASSUME EntriesOK PROVE HasBinding(scope, x) <=> Keyed(table, scope, x)
  BY <1>1, BoundFacts DEF HasBinding, Keyed
<1>2. ASSUME EntriesOK' PROVE HasBinding(scope, x)' <=> Keyed(table', scope, x)
  <2>1. ASSUME NEW b PROVE Bound(b, x)' <=> <<b, x>> \in DOMAIN table'
    <3>1. CASE <<b, x>> \in DOMAIN table'
      BY <1>2, <3>1 DEF Bound, At, EntriesOK
    <3>2. CASE <<b, x>> \notin DOMAIN table'
      BY <3>2 DEF Bound, At, Absent, Entry, Null
    <3> QED BY <3>1, <3>2
  <2>2. HasBinding(scope, x)' <=> \E i \in DOMAIN scope : Bound(scope[i], x)'
    BY DEF HasBinding
  <2> QED BY <2>1, <2>2 DEF Keyed
<1> QED BY <1>1, <1>2

PopulateCall ==
  \E k \in DOMAIN Kids[N], v \in Int :
    /\ Call(k, v, FALSE)
    /\ Kind[N] = "assign" => Keyed(table', Top.scope, Var[N])

PopulateShape ==
  /\ stk # << >>
  /\ \/ EnterScope(0) /\ UNCHANGED populated
     \/ PopulateCall /\ UNCHANGED populated
     \/ /\ Return /\ Done
        /\ Inner(N, Top.scope) \subseteq Back(phase, Top, Top.stage)
        /\ Kind[N] = "assign" => Top.stage > 0

LEMMA ScopeOfTop ==
  ASSUME MachineOK, stk # << >>, Kind[N] # "block"
  PROVE  nested = Top.scope /\ nested # << >> /\ Top.scope \in Seq(Node)
<1>1. stk \in Seq(Frames) /\ nested \in Seq(Node) /\ PathOK
  BY DEF MachineOK, TypeOK
<1>2. Len(stk) \in 1..Len(stk) /\ Top = stk[Len(stk)] /\ N = Top.n
  BY <1>1, TopFacts DEF Top, N
<1> QED BY <1>1, <1>2 DEF PathOK, Inside

\* The name of an assignment is bound before its right side is visited.
LEMMA PopulateBinds ==
  ASSUME MachineOK, EntriesOK, stk # << >>, Kind[N] = "assign",
         IF Known(Var[N]) THEN UNCHANGED table
         ELSE Put(nested[Len(nested)], Var[N], Entry(RightSide, Undet, FALSE))
  PROVE  Keyed(table', Top.scope, Var[N])
<1> DEFINE x == Var[N]
<1>1. nested = Top.scope /\ nested # << >> /\ nested \in Seq(Node) /\ Kind[N] # "block"
  BY ScopeOfTop
<1>2. CASE Known(x)
  <2>1. Nearest(nested, x, FALSE) = 0 => Lookup(x, FALSE) = Absent
    BY DEF Lookup, LookupIn
  <2>2. Absent.ptr = Null
    BY DEF Absent, Entry
  <2>3. Nearest(nested, x, FALSE) # 0
    BY <1>2, <2>1, <2>2, Zenon DEF Known
  <2>4. Keyed(table, nested, x)
    BY <1>1, <2>3, BindingFound, KeyedFacts
  <2> QED BY <1>1, <1>2, <2>4
<1>3. CASE ~Known(x)
  <2>1. Put(nested[Len(nested)], x, Entry(RightSide, Undet, FALSE))
    BY <1>3
  <2>2. <<nested[Len(nested)], x>> \in DOMAIN table'
    BY <2>1 DEF Put
  <2>3. Len(nested) \in DOMAIN nested
    BY <1>1
  <2> QED BY <1>1, <2>2, <2>3 DEF Keyed
<1> QED BY <1>2, <1>3

LEMMA PopulateShapes ==
  ASSUME MachineOK, EntriesOK, Populate
  PROVE  PopulateShape /\ phase = "populate" /\ phase' = "populate"
<1>1. /\ phase = "populate" /\ phase' = "populate"
      /\ PopulateBlock \/ PopulateAssign \/ PopulateIf \/ PopulateOther
  BY DEF Populate, PopulateStep
<1> SUFFICES PopulateShape
  BY <1>1
<1>2. stk # << >> /\ stk \in Seq(Frames)
  BY <1>1 DEF PopulateBlock, EnterScope, NextStatement, LeaveScope, PopulateAssign, PopulateIf,
              PopulateOther, Running, MachineOK, TypeOK
<1>3. /\ Kids[N] \in Seq(Node) /\ (Kind[N] # "block" => DOMAIN Kids[N] = 1..Arity(Kind[N]))
      /\ Top.local \in Int /\ Top.stage \in Nat /\ 0 \in Int
  BY <1>2, KidFacts
<1>4. CASE PopulateBlock
  <2>1. CASE EnterScope(0) /\ UNCHANGED <<table, populated>>
    BY <1>2, <2>1 DEF PopulateShape
  <2>2. CASE NextStatement /\ UNCHANGED <<table, populated>>
    <3>1. /\ Top.stage \in 1..Len(Kids[N]) /\ Call(Top.stage, Top.local, FALSE)
          /\ Kind[N] = "block" /\ Kind[N] # "assign"
      BY <2>2 DEF NextStatement
    <3>2. Top.stage \in DOMAIN Kids[N]
      BY <1>3, <3>1
    <3> QED BY <1>2, <1>3, <2>2, <3>1, <3>2 DEF PopulateShape, PopulateCall
  <2>3. CASE LeaveScope /\ Done /\ UNCHANGED table
    <3>1. Kind[N] = "block" /\ Top.stage = Len(Kids[N]) + 1 /\ Return
      BY <2>3 DEF LeaveScope, Running
    <3> QED BY <1>2, <2>3, <3>1, InnerFacts DEF PopulateShape
  <2> QED BY <1>4, <2>1, <2>2, <2>3 DEF PopulateBlock
<1>5. CASE PopulateAssign
  <2>1. Kind[N] = "assign"
    BY <1>5 DEF PopulateAssign, Running
  <2>2. 1 \in DOMAIN Kids[N]
    BY <1>3, <2>1, ArityFacts
  <2>3. CASE Top.stage = 1 /\ Return /\ Done
    BY <1>2, <2>1, <2>3, InnerFacts DEF PopulateShape
  <2>4. CASE /\ IF Known(Var[N]) THEN UNCHANGED table
                ELSE Put(nested[Len(nested)], Var[N], Entry(RightSide, Undet, FALSE))
             /\ Call(1, 0, FALSE) /\ UNCHANGED <<nested, populated>>
    <3>1. Keyed(table', Top.scope, Var[N])
      BY <1>2, <2>1, <2>4, PopulateBinds
    <3> QED BY <1>2, <1>3, <2>2, <2>4, <3>1 DEF PopulateShape, PopulateCall
  <2> QED BY <1>5, <2>3, <2>4 DEF PopulateAssign, Running
<1>6. CASE PopulateIf
  <2>1. Kind[N] = "if_stmt" /\ Kind[N] # "assign"
    BY <1>6 DEF PopulateIf, Running
  <2>2. 2 \in DOMAIN Kids[N]
    BY <1>3, <2>1, ArityFacts
  <2>3. CASE Top.stage = 1 /\ Return /\ Done
    BY <1>1, <1>2, <2>1, <2>3, InnerFacts DEF PopulateShape
  <2>4. CASE Call(2, 0, FALSE) /\ UNCHANGED populated
    BY <1>2, <1>3, <2>1, <2>2, <2>4 DEF PopulateShape, PopulateCall
  <2> QED BY <1>6, <2>3, <2>4 DEF PopulateIf, Running
<1>7. CASE PopulateOther
  <2>1. Kind[N] \notin {"block", "assign", "if_stmt"}
    BY <1>7 DEF PopulateOther, ExprKinds, LeafKinds, UnaryKinds, BinaryKinds
  <2>2. CASE Return /\ Done
    BY <1>2, <2>1, <2>2, InnerFacts DEF PopulateShape
  <2>3. CASE Top.stage < Len(Kids[N]) /\ Call(Top.stage + 1, 0, FALSE) /\ UNCHANGED populated
    <3>1. Top.stage + 1 \in DOMAIN Kids[N] /\ Kind[N] # "assign"
      BY <1>3, <2>1, <2>3
    <3> QED BY <1>2, <1>3, <2>3, <3>1 DEF PopulateShape, PopulateCall
  <2> QED BY <1>7, <2>2, <2>3 DEF PopulateOther
<1> QED BY <1>1, <1>4, <1>5, <1>6, <1>7

\* The assignments that are running or have returned are bound.
AllBound(tables, frames) ==
  \A i \in 1..Len(frames) :
    Kind[frames[i].n] = "assign" /\ frames[i].stage > 0 => Keyed(tables, frames[i].scope, Var[frames[i].n])

BoundCalls(tables, calls) ==
  \A c \in calls : Kind[c[1]] = "assign" => Keyed(tables, c[2], Var[c[1]])

PopulatedFor(pass, tables, frames, tree, calls) ==
  /\ Closed(calls) /\ BoundCalls(tables, calls)
  /\ pass = "populate" => AllBack(pass, frames, calls) /\ AllBound(tables, frames)
  /\ (pass # "populate" \/ frames = << >>) => <<tree, << >> >> \in calls

LEMMA PopulatedAs ==
  /\ EntriesOK => (PopulatedOK <=> PopulatedFor(phase, table, stk, root, populated))
  /\ EntriesOK' => (PopulatedOK' <=> PopulatedFor(phase', table', stk', root', populated'))
<1>1. ASSUME EntriesOK
      PROVE  PopulatedOK <=> PopulatedFor(phase, table, stk, root, populated)
  <2>1. \A scope, x : HasBinding(scope, x) <=> Keyed(table, scope, x)
    BY <1>1, KeyedFacts
  <2>2. ReturnedIn(populated) <=> AllBack(phase, stk, populated)
    BY ReturnedInIsAllBack
  <2> QED BY <2>1, <2>2 DEF PopulatedOK, PopulatedFor, AllBound, BoundCalls
<1>2. ASSUME EntriesOK'
      PROVE  PopulatedOK' <=> PopulatedFor(phase', table', stk', root', populated')
  <2>1. ASSUME NEW scope, NEW x PROVE HasBinding(scope, x)' <=> Keyed(table', scope, x)
    BY <1>2, KeyedFacts
  <2>2. ReturnedIn(populated)' <=> AllBack(phase', stk', populated')
    BY ReturnedInIsAllBack
  <2> QED BY <2>1, <2>2 DEF PopulatedOK, PopulatedFor, AllBound, BoundCalls
<1> QED BY <1>1, <1>2

\* The tables grow.
LEMMA KeyedGrows ==
  ASSUME NEW old, NEW tables, DOMAIN old \subseteq DOMAIN tables
  PROVE  /\ \A scope, x : Keyed(old, scope, x) => Keyed(tables, scope, x)
         /\ \A frames : AllBound(old, frames) => AllBound(tables, frames)
         /\ \A calls : BoundCalls(old, calls) => BoundCalls(tables, calls)
<1>1. \A scope, x : Keyed(old, scope, x) => Keyed(tables, scope, x)
  BY DEF Keyed
<1> QED BY <1>1 DEF AllBound, BoundCalls

\* The calls on the stack that are bound stay so.
LEMMA BoundCall ==
  ASSUME stk \in Seq(Frames), stk # << >>, nested \in Seq(Node),
         NEW k \in DOMAIN Kids[N], NEW v \in Int, NEW typed \in BOOLEAN, Call(k, v, typed),
         NEW tables, AllBound(tables, stk), Kind[N] = "assign" => Keyed(tables, Top.scope, Var[N])
  PROVE  AllBound(tables, stk')
<1> DEFINE L == Len(stk)
           caller == Later(Top.stage + 1, v)
           callee == Frame(Kids[N][k], typed, nested)
<1>1. L \in Nat /\ L > 0 /\ Top = stk[L] /\ N = Top.n
  BY TopFacts DEF Top, N
<1>2. /\ Len(stk') = L + 1 /\ stk'[L] = caller /\ stk'[L + 1] = callee
      /\ \A i \in 1..(L - 1) : stk'[i] = stk[i]
  BY CallFacts
<1>3. caller.n = N /\ caller.scope = Top.scope /\ callee.stage = 0
  BY LaterFacts, FrameFacts
<1> HIDE DEF L, caller, callee
<1>4. \A i \in 1..(L + 1) : i = L \/ i = L + 1 \/ (i \in 1..(L - 1) /\ i \in 1..L)
  BY <1>1
<1>5. ASSUME NEW i \in 1..(L + 1), Kind[stk'[i].n] = "assign", stk'[i].stage > 0
      PROVE  Keyed(tables, stk'[i].scope, Var[stk'[i].n])
  <2>1. CASE i = L
    BY <1>2, <1>3, <1>5, <2>1
  <2>2. CASE i = L + 1
    BY <1>2, <1>3, <1>5, <2>2
  <2>3. CASE i \in 1..(L - 1) /\ i \in 1..L
    BY <1>2, <1>5, <2>3 DEF AllBound, L
  <2> QED BY <1>4, <2>1, <2>2, <2>3
<1> QED BY <1>2, <1>5 DEF AllBound

LEMMA BoundReturn ==
  ASSUME stk \in Seq(Frames), stk # << >>, Return, NEW tables, AllBound(tables, stk)
  PROVE  AllBound(tables, stk')
<1>1. Len(stk) \in Nat /\ Len(stk') = Len(stk) - 1 /\ \A i \in 1..(Len(stk) - 1) : stk'[i] = stk[i]
  BY ReturnFacts, TopFacts
<1>2. \A i \in 1..Len(stk') : i \in 1..Len(stk) /\ stk'[i] = stk[i]
  BY <1>1
<1> QED BY <1>2 DEF AllBound

LEMMA BoundEnter ==
  ASSUME stk \in Seq(Frames), stk # << >>, NEW v \in Int, EnterScope(v), NEW tables, AllBound(tables, stk)
  PROVE  AllBound(tables, stk')
<1>1. /\ Len(stk) \in Nat /\ Len(stk') = Len(stk) /\ stk'[Len(stk)] = Later(1, v)
      /\ \A i \in 1..(Len(stk) - 1) : stk'[i] = stk[i]
  BY GotoFacts, TopFacts DEF EnterScope
<1>2. Kind[stk'[Len(stk)].n] # "assign"
  BY <1>1, LaterFacts DEF EnterScope, Running
<1>3. \A i \in 1..Len(stk) : i = Len(stk) \/ i \in 1..(Len(stk) - 1)
  BY <1>1
<1>4. \A i \in 1..Len(stk') : Kind[stk'[i].n] = "assign" => i \in 1..Len(stk) /\ stk'[i] = stk[i]
  BY <1>1, <1>2, <1>3
<1> QED BY <1>4 DEF AllBound

\* The call that returns last is the root's.
LEMMA RootReturn ==
  ASSUME stk \in Seq(Frames), stk # << >>, PathOK, Return, stk' = << >>
  PROVE  <<N, Top.scope>> = <<root, << >> >>
<1>1. Len(stk) \in Nat /\ Len(stk) > 0 /\ Len(stk') = Len(stk) - 1
  BY ReturnFacts, TopFacts
<1>2. Len(stk) = 1
  BY <1>1
<1>3. Top = stk[1]
  BY <1>2 DEF Top
<1> QED BY <1>3 DEF PathOK, N

LEMMA StillRunning ==
  ASSUME stk \in Seq(Frames), stk # << >>, nested \in Seq(Node)
  PROVE  /\ \A k \in DOMAIN Kids[N], v \in Int, typed \in BOOLEAN : Call(k, v, typed) => stk' # << >>
         /\ \A v \in Int : EnterScope(v) => stk' # << >>
<1>1. Len(stk) \in Nat /\ Len(stk) > 0
  BY TopFacts
<1>2. ASSUME NEW k \in DOMAIN Kids[N], NEW v \in Int, NEW typed \in BOOLEAN, Call(k, v, typed)
      PROVE  stk' # << >>
  <2>1. Len(stk') = Len(stk) + 1
    BY <1>2, CallFacts
  <2> QED BY <1>1, <2>1
<1>3. ASSUME NEW v \in Int, EnterScope(v) PROVE stk' # << >>
  <2>1. Len(stk') = Len(stk)
    BY <1>3, GotoFacts DEF EnterScope
  <2> QED BY <1>1, <2>1
<1> QED BY <1>2, <1>3

\* Every step of the first pass keeps its record.
LEMMA PopulateRecord ==
  ASSUME MachineOK, EntriesOK, EntriesOK', Advances, PopulatedOK, Populate
  PROVE  PopulatedOK'
<1>1. PopulateShape /\ phase = "populate" /\ phase' = "populate" /\ UNCHANGED root
  BY PopulateShapes DEF Populate, PopulateStep
<1>2. stk \in Seq(Frames) /\ nested \in Seq(Node) /\ PathOK /\ stk # << >>
  BY <1>1 DEF MachineOK, TypeOK, PopulateShape
<1>3. PopulatedFor(phase, table, stk, root, populated)
  BY PopulatedAs
<1>4. /\ Closed(populated) /\ AllBack(phase, stk, populated)
      /\ BoundCalls(table', populated) /\ AllBound(table', stk)
      /\ \A scope, x : Keyed(table, scope, x) => Keyed(table', scope, x)
  <2>1. DOMAIN table \subseteq DOMAIN table'
    BY DEF Advances
  <2> QED BY <1>1, <1>3, <2>1, KeyedGrows DEF PopulatedFor
<1> SUFFICES PopulatedFor(phase', table', stk', root', populated')
  BY PopulatedAs
<1>5. CASE EnterScope(0) /\ UNCHANGED populated
  <2>1. AllBack(phase, stk', populated) /\ AllBound(table', stk') /\ stk' # << >>
    BY <1>2, <1>4, <1>5, EnterBack, BoundEnter, StillRunning
  <2> QED BY <1>1, <1>4, <1>5, <2>1 DEF PopulatedFor
<1>6. CASE PopulateCall /\ UNCHANGED populated
  <2>1. PICK k \in DOMAIN Kids[N], v \in Int :
          Call(k, v, FALSE) /\ (Kind[N] = "assign" => Keyed(table', Top.scope, Var[N]))
    BY <1>6 DEF PopulateCall
  <2>2. FALSE \in BOOLEAN
    OBVIOUS
  <2>3. AllBack(phase, stk', populated)
    BY <1>2, <1>4, <2>1, <2>2, CallBack, Zenon
  <2>4. AllBound(table', stk')
    BY <1>2, <1>4, <2>1, <2>2, BoundCall, Zenon
  <2>5. stk' # << >>
    BY <1>2, <2>1, <2>2, StillRunning, Zenon
  <2> QED BY <1>1, <1>4, <1>6, <2>3, <2>4, <2>5 DEF PopulatedFor
<1>7. CASE /\ Return /\ Done
           /\ Inner(N, Top.scope) \subseteq Back(phase, Top, Top.stage)
           /\ Kind[N] = "assign" => Top.stage > 0
  <2>1. populated' = populated \cup {<<N, Top.scope>>}
    BY <1>7 DEF Done
  <2>2. Closed(populated')
    BY <1>2, <1>4, <1>7, <2>1, CloseStep
  <2>3. AllBack(phase, stk', populated')
    BY <1>2, <1>4, <1>7, <2>1, ReturnBack
  <2>4. AllBound(table', stk')
    BY <1>2, <1>4, <1>7, BoundReturn
  <2>5. Kind[N] = "assign" => Keyed(table', Top.scope, Var[N])
    <3>1. Len(stk) \in 1..Len(stk) /\ Top = stk[Len(stk)] /\ N = Top.n
      BY <1>2, TopFacts DEF Top, N
    <3> QED BY <1>4, <1>7, <3>1 DEF AllBound
  <2>6. BoundCalls(table', populated')
    <3>1. ASSUME NEW c \in populated', Kind[c[1]] = "assign"
          PROVE  Keyed(table', c[2], Var[c[1]])
      <4>1. CASE c \in populated
        BY <1>4, <3>1, <4>1 DEF BoundCalls
      <4>2. CASE c = <<N, Top.scope>>
        <5>1. c[1] = N /\ c[2] = Top.scope
          BY <4>2
        <5> QED BY <2>5, <3>1, <5>1
      <4> QED BY <2>1, <4>1, <4>2
    <3> QED BY <3>1 DEF BoundCalls
  <2>7. stk' = << >> => <<root, << >> >> \in populated'
    BY <1>2, <1>7, <2>1, RootReturn
  <2> QED BY <1>1, <2>2, <2>3, <2>4, <2>6, <2>7 DEF PopulatedFor
<1> QED BY <1>1, <1>5, <1>6, <1>7 DEF PopulateShape

-----------------------------------------------------------------------------
(***************************************************************************)
(* The second pass.                                                        *)
(***************************************************************************)
TypedIfBound(scope, x) == HasBinding(scope, x) => HasType(scope, x)

\* The type of the variable assigned last is the one that curr_ still holds.
TypedAs(scope, x) == HasBinding(scope, x) => LookupIn(scope, x, FALSE).type = curr

CheckShape ==
  \/ phase' = "stopped" /\ stk' = << >> /\ UNCHANGED checked
  \/ /\ phase' = "check" /\ stk # << >>
     /\ \/ EnterScope(curr) /\ UNCHANGED checked
        \/ /\ \E k \in DOMAIN Kids[N], v \in Int : Call(k, v, FALSE)
           /\ UNCHANGED checked
        \/ /\ Return
           /\ checked' = checked \cup {<<N, Top.scope>>}
           /\ Inner(N, Top.scope) \subseteq Back(phase, Top, Top.stage)
           /\ Kind[N] = "assign" =>
                /\ UNCHANGED <<curr, nested>>
                /\ \A scope, x : scope = Top.scope /\ x = Var[N] => TypedIfBound(scope, x)' /\ TypedAs(scope, x)'

\* An assignment that the second pass has accepted is typed.
LEMMA CheckTypes ==
  ASSUME MachineOK, EntriesOK, EntriesOK', Advances, phase = "check", stk # << >>, Kind[N] = "assign",
         ~IllTyped(Lookup(Var[N], FALSE)), GiveType(Lookup(Var[N], FALSE)), UNCHANGED curr,
         NEW scope, NEW x, scope = Top.scope, x = Var[N]
  PROVE  TypedIfBound(scope, x)' /\ TypedAs(scope, x)'
<1>1. nested = scope /\ scope \in Seq(Node) /\ Kind[N] # "block"
  BY ScopeOfTop
<1>2. PICK i, ty : i = Nearest(scope, x, FALSE) /\ ty = curr
  OBVIOUS
<1>3. Nearest(scope, x, FALSE)' = i
  BY <1>2, NearestStays
<1>4. ASSUME HasBinding(scope, x)' PROVE i # 0
  <2>1. HasBinding(scope, x)
    BY <1>4, BindingStays
  <2> QED BY <1>1, <1>2, <2>1, BindingFound
<1>5. ty \in ValueTypes
  BY <1>2 DEF IllTyped, MachineOK, TypeOK, TableTypes, ValueTypes
<1> DEFINE k == <<scope[i], x>>
<1>6. ASSUME i # 0 PROVE k \in DOMAIN table /\ Lookup(x, FALSE) = table[k]
  <2>1. Bound(scope[i], x)
    BY <1>1, <1>2, <1>6, NearestStops
  <2>2. k \in DOMAIN table
    BY <2>1, BoundFacts
  <2> QED BY <1>1, <1>2, <1>6, <2>2 DEF Lookup, LookupIn, At
<1>7. DOMAIN table' = DOMAIN table
  BY DEF Advances
<1>8. ASSUME i # 0 PROVE table'[k].type = ty
  <2>1. CASE table[k].type = Undet
    <3>1. PICK e : e = Entry(table[k].ptr, curr, FALSE)
      OBVIOUS
    <3>2. Set(x, e)
      BY <1>6, <1>8, <2>1, <3>1 DEF GiveType
    <3>3. Put(scope[i], x, e)
      BY <1>1, <1>2, <1>8, <3>2 DEF Set
    <3>4. table'[k] = e
      BY <3>3 DEF Put
    <3> QED BY <1>2, <3>1, <3>4 DEF Entry
  <2>2. CASE table[k].type # Undet
    <3>1. UNCHANGED table
      BY <1>6, <1>8, <2>2 DEF GiveType
    <3>2. table[k].type = curr
      BY <1>6, <1>8, <2>2 DEF IllTyped
    <3> QED BY <1>2, <3>1, <3>2
  <2> QED BY <2>1, <2>2
<1>9. ASSUME i # 0 PROVE LookupIn(scope, x, FALSE)' = table'[k]
  <2>1. LookupIn(scope, x, FALSE)' = At(scope[i], x)'
    BY <1>3, <1>9 DEF LookupIn
  <2>2. At(scope[i], x)' = table'[k]
    BY <1>6, <1>7, <1>9 DEF At
  <2> QED BY <2>1, <2>2
<1>10. ASSUME i # 0 PROVE HasType(scope, x)'
  BY <1>5, <1>8, <1>9, <1>10, Zenon DEF HasType
<1>11. ASSUME i # 0 PROVE (LookupIn(scope, x, FALSE).type = curr)'
  BY <1>2, <1>8, <1>9, <1>11, Zenon
<1> QED BY <1>4, <1>10, <1>11, Zenon DEF TypedIfBound, TypedAs

LEMMA CheckShapes ==
  ASSUME MachineOK, EntriesOK, EntriesOK', Advances, Check
  PROVE  CheckShape /\ phase = "check"
<1>1. /\ phase = "check"
      /\ CheckLeaf \/ CheckUnary \/ CheckBinary \/ CheckEquals \/ CheckAssign \/ CheckIf \/ CheckBlock
  BY DEF Check, CheckStep
<1> SUFFICES CheckShape
  BY <1>1
<1>2. stk # << >> /\ stk \in Seq(Frames) /\ curr \in Int
  <2>1. stk # << >>
    BY <1>1 DEF CheckLeaf, CheckUnary, CheckBinary, CheckEquals, CheckAssign, CheckIf, CheckBlock,
                EnterScope, NextStatement, LeaveScope, Running
  <2>2. stk \in Seq(Frames) /\ curr \in TableTypes
    BY DEF MachineOK, TypeOK
  <2> QED BY <2>1, <2>2, CurrTypes
<1>3. /\ Kids[N] \in Seq(Node) /\ (Kind[N] # "block" => DOMAIN Kids[N] = 1..Arity(Kind[N]))
      /\ Top.local \in Int /\ Top.stage \in Nat /\ 0 \in Int
  BY <1>2, KidFacts
<1>4. ASSUME Reject PROVE CheckShape
  BY <1>4 DEF Reject, CheckShape
<1>5. ASSUME NEW k \in DOMAIN Kids[N], NEW v \in Int, Call(k, v, FALSE), phase' = phase, UNCHANGED checked
      PROVE  CheckShape
  BY <1>1, <1>2, <1>5 DEF CheckShape
<1>6. ASSUME Checked, Kind[N] # "assign", Inner(N, Top.scope) \subseteq Back(phase, Top, Top.stage)
      PROVE  CheckShape
  BY <1>1, <1>2, <1>6 DEF Checked, CheckShape
<1>7. ASSUME Kind[N] \notin {"block", "assign", "if_stmt"}
      PROVE  /\ Checked => CheckShape
             /\ \A ty : Conclude(ty) => CheckShape
             /\ \A k \in 1..Arity(Kind[N]), v \in Int : CheckChild(k, v) => CheckShape
  <2>1. Inner(N, Top.scope) \subseteq Back(phase, Top, Top.stage)
    BY <1>2, <1>7, InnerFacts
  <2>2. Checked => CheckShape
    BY <1>6, <1>7, <2>1
  <2>3. \A ty : Conclude(ty) => Reject \/ Checked
    BY DEF Conclude
  <2>4. \A k \in 1..Arity(Kind[N]), v \in Int : CheckChild(k, v) => CheckShape
    BY <1>3, <1>5, <1>7 DEF CheckChild
  <2> QED BY <1>4, <2>2, <2>3, <2>4
<1>8. CASE CheckLeaf
  BY <1>7, <1>8 DEF CheckLeaf, Running, LeafKinds
<1>9. CASE CheckUnary
  <2>1. Kind[N] \in UnaryKinds
    BY <1>9 DEF CheckUnary, Running
  <2>2. Kind[N] \notin {"block", "assign", "if_stmt"} /\ 1 \in 1..Arity(Kind[N])
    BY <2>1, ArityFacts DEF UnaryKinds
  <2>3. CheckChild(1, 0) \/ \E ty : Conclude(ty)
    BY <1>9 DEF CheckUnary
  <2> QED BY <1>3, <1>7, <2>2, <2>3
<1>10. CASE CheckBinary
  <2>1. Kind[N] \in BinaryKinds
    BY <1>10 DEF CheckBinary, Running
  <2>2. Kind[N] \notin {"block", "assign", "if_stmt"} /\ 1 \in 1..Arity(Kind[N]) /\ 2 \in 1..Arity(Kind[N])
    BY <2>1, ArityFacts DEF BinaryKinds
  <2>3. CheckChild(1, 0) \/ CheckChild(2, curr) \/ \E ty : Conclude(ty)
    BY <1>10 DEF CheckBinary
  <2> QED BY <1>2, <1>3, <1>7, <2>2, <2>3
<1>11. CASE CheckEquals
  <2>1. Kind[N] = "comp_equals"
    BY <1>11 DEF CheckEquals, Running
  <2>2. Kind[N] \notin {"block", "assign", "if_stmt"} /\ 1 \in 1..Arity(Kind[N]) /\ 2 \in 1..Arity(Kind[N])
    BY <2>1, ArityFacts
  <2>3. CheckChild(1, 0) \/ CheckChild(2, curr) \/ \E ty : Conclude(ty)
    BY <1>11 DEF CheckEquals
  <2> QED BY <1>2, <1>3, <1>7, <2>2, <2>3
<1>12. CASE CheckAssign
  <2>1. Kind[N] = "assign"
    BY <1>12 DEF CheckAssign, Running
  <2>2. 1 \in DOMAIN Kids[N]
    BY <1>3, <2>1, ArityFacts
  <2>3. CASE CheckChild(1, 0)
    BY <1>3, <1>5, <2>2, <2>3 DEF CheckChild
  <2>4. CASE /\ Top.stage = 1 /\ ~IllTyped(Lookup(Var[N], FALSE))
             /\ GiveType(Lookup(Var[N], FALSE)) /\ Checked /\ UNCHANGED <<curr, nested>>
    <3>1. Inner(N, Top.scope) \subseteq Back(phase, Top, Top.stage)
      BY <1>2, <2>1, <2>4, InnerFacts
    <3>2. ASSUME NEW scope, NEW x, scope = Top.scope, x = Var[N]
          PROVE  TypedIfBound(scope, x)' /\ TypedAs(scope, x)'
      <4>1. UNCHANGED curr
        BY <2>4
      <4> QED BY <1>1, <1>2, <2>1, <2>4, <3>2, <4>1, CheckTypes, Zenon
    <3> QED BY <1>1, <1>2, <2>4, <3>1, <3>2 DEF CheckShape, Checked
  <2> QED BY <1>4, <1>12, <2>3, <2>4 DEF CheckAssign, Running
<1>13. CASE CheckIf
  <2>1. Kind[N] = "if_stmt" /\ Kind[N] # "assign"
    BY <1>13 DEF CheckIf, Running
  <2>2. 1 \in DOMAIN Kids[N] /\ 2 \in DOMAIN Kids[N]
    BY <1>3, <2>1, ArityFacts
  <2>3. CASE CheckChild(1, 0)
    BY <1>3, <1>5, <2>2, <2>3 DEF CheckChild
  <2>4. CASE Call(2, 0, FALSE) /\ UNCHANGED <<phase, checked>>
    BY <1>3, <1>5, <2>2, <2>4
  <2>5. CASE Top.stage = 2 /\ Checked
    <3>1. Inner(N, Top.scope) \subseteq Back(phase, Top, Top.stage)
      BY <1>1, <1>2, <2>1, <2>5, InnerFacts
    <3> QED BY <1>6, <2>1, <2>5, <3>1
  <2> QED BY <1>13, <2>3, <2>4, <2>5 DEF CheckIf, Running
<1>14. CASE CheckBlock
  <2>1. CASE EnterScope(curr) /\ UNCHANGED <<phase, checked>>
    BY <1>1, <1>2, <2>1 DEF CheckShape
  <2>2. CASE NextStatement /\ UNCHANGED <<phase, checked>>
    <3>1. Top.stage \in 1..Len(Kids[N]) /\ Call(Top.stage, Top.local, FALSE)
      BY <2>2 DEF NextStatement
    <3>2. Top.stage \in DOMAIN Kids[N]
      BY <1>3, <3>1
    <3> QED BY <1>3, <1>5, <2>2, <3>1, <3>2
  <2>3. CASE LeaveScope /\ Checked
    <3>1. Kind[N] = "block" /\ Kind[N] # "assign" /\ Top.stage = Len(Kids[N]) + 1
      BY <2>3 DEF LeaveScope, Running
    <3>2. Inner(N, Top.scope) \subseteq Back(phase, Top, Top.stage)
      BY <1>2, <3>1, InnerFacts
    <3> QED BY <1>6, <2>3, <3>1, <3>2
  <2> QED BY <1>14, <2>1, <2>2, <2>3 DEF CheckBlock
<1> QED BY <1>1, <1>8, <1>9, <1>10, <1>11, <1>12, <1>13, <1>14

\* What the second pass has typed stays typed.
LEMMA TypedStays ==
  ASSUME EntriesOK, EntriesOK', Advances, TypeOK, TypeOK', phase # "populate",
         NEW scope \in Seq(Node), NEW x, TypedIfBound(scope, x)
  PROVE  TypedIfBound(scope, x)'
<1>1. ASSUME HasBinding(scope, x)' PROVE HasType(scope, x)'
  <2>1. HasBinding(scope, x)
    BY <1>1, BindingStays
  <2>2. HasType(scope, x)
    BY <2>1 DEF TypedIfBound
  <2> QED BY <2>2, TypeStays
<1> QED BY <1>1 DEF TypedIfBound

LEMMA CheckedTypes ==
  ASSUME EntriesOK, EntriesOK', Advances, TypeOK, TypeOK', phase # "populate", CheckedOK,
         NEW c \in checked, Kind[c[1]] = "assign"
  PROVE  TypedIfBound(c[2], Var[c[1]])'
<1>1. c[2] \in Seq(Node)
  BY DEF TypeOK
<1>2. TypedIfBound(c[2], Var[c[1]])
  BY DEF CheckedOK, TypedIfBound
<1> QED BY <1>1, <1>2, TypedStays, Zenon

\* Every step of the second pass keeps its record.
LEMMA CheckRecord ==
  ASSUME MachineOK, TypeOK', EntriesOK, EntriesOK', Advances, CheckedOK, Check
  PROVE  CheckedOK'
<1>1. CheckShape /\ phase = "check" /\ UNCHANGED root
  BY CheckShapes DEF Check, CheckStep
<1>2. stk \in Seq(Frames) /\ nested \in Seq(Node) /\ PathOK /\ TypeOK
  BY DEF MachineOK, TypeOK
<1>3. Closed(checked) /\ AllBack(phase, stk, checked)
  BY <1>1, ReturnedInIsAllBack DEF CheckedOK
<1>4. ASSUME NEW c \in checked, Kind[c[1]] = "assign" PROVE TypedIfBound(c[2], Var[c[1]])'
  BY <1>1, <1>2, <1>4, CheckedTypes
<1>5. CASE phase' = "stopped" /\ UNCHANGED checked
  BY <1>3, <1>4, <1>5 DEF CheckedOK, Closed, TypedIfBound
<1>6. CASE phase' = "check" /\ stk # << >> /\ UNCHANGED checked /\ AllBack(phase, stk', checked) /\ stk' # << >>
  <2>1. ReturnedIn(checked)'
    BY <1>1, <1>6, ReturnedInIsAllBack
  <2> QED BY <1>3, <1>4, <1>6, <2>1 DEF CheckedOK, Closed, TypedIfBound
<1>7. CASE phase' = "check" /\ stk # << >> /\ UNCHANGED checked /\ EnterScope(curr)
  <2>1. curr \in Int
    BY <1>2, CurrTypes DEF TypeOK
  <2>2. AllBack(phase, stk', checked) /\ stk' # << >>
    BY <1>2, <1>3, <1>7, <2>1, EnterBack, StillRunning
  <2> QED BY <1>6, <1>7, <2>2
<1>8. CASE /\ phase' = "check" /\ stk # << >> /\ UNCHANGED checked
           /\ \E k \in DOMAIN Kids[N], v \in Int : Call(k, v, FALSE)
  <2>1. PICK k \in DOMAIN Kids[N], v \in Int : Call(k, v, FALSE)
    BY <1>8
  <2>2. FALSE \in BOOLEAN
    OBVIOUS
  <2>3. AllBack(phase, stk', checked)
    BY <1>2, <1>3, <1>8, <2>1, <2>2, CallBack, Zenon
  <2>4. stk' # << >>
    BY <1>2, <1>8, <2>1, <2>2, StillRunning, Zenon
  <2> QED BY <1>6, <1>8, <2>3, <2>4
<1>9. CASE /\ phase' = "check" /\ stk # << >> /\ Return
           /\ checked' = checked \cup {<<N, Top.scope>>}
           /\ Inner(N, Top.scope) \subseteq Back(phase, Top, Top.stage)
           /\ Kind[N] = "assign" =>
                \A scope, x : scope = Top.scope /\ x = Var[N] => TypedIfBound(scope, x)'
  <2>1. Closed(checked \cup {<<N, Top.scope>>})
    BY <1>2, <1>3, <1>9, CloseStep
  <2>2. Closed(checked)'
    BY <1>9, <2>1 DEF Closed
  <2>3. AllBack(phase, stk', checked')
    BY <1>2, <1>3, <1>9, ReturnBack
  <2>4. ReturnedIn(checked)'
    BY <1>1, <1>9, <2>3, ReturnedInIsAllBack
  <2>5. ASSUME NEW c \in checked', Kind[c[1]] = "assign"
        PROVE  TypedIfBound(c[2], Var[c[1]])'
    <3>1. CASE c \in checked
      BY <1>4, <2>5, <3>1
    <3>2. CASE c = <<N, Top.scope>>
      <4>1. c[1] = N /\ c[2] = Top.scope
        BY <3>2
      <4> QED BY <1>9, <2>5, <4>1
    <3> QED BY <1>9, <3>1, <3>2
  <2>6. stk' = << >> => <<root, << >> >> \in checked'
    BY <1>2, <1>9, RootReturn
  <2> QED BY <1>1, <1>9, <2>2, <2>4, <2>5, <2>6 DEF CheckedOK, TypedIfBound
<1> QED BY <1>1, <1>5, <1>7, <1>8, <1>9 DEF CheckShape

-----------------------------------------------------------------------------
(***************************************************************************)
(* After the two passes their records are fixed.                           *)
(***************************************************************************)
LEMMA PopulatedStays ==
  ASSUME EntriesOK, EntriesOK', Advances, PopulatedOK, UNCHANGED <<root, populated>>,
         phase' # "populate", phase # "populate" \/ stk = << >>
  PROVE  PopulatedOK'
<1>1. PopulatedFor(phase, table, stk, root, populated)
  BY PopulatedAs
<1>2. BoundCalls(table', populated)
  <2>1. DOMAIN table \subseteq DOMAIN table'
    BY DEF Advances
  <2> QED BY <1>1, <2>1, KeyedGrows DEF PopulatedFor
<1>3. PopulatedFor(phase', table', stk', root', populated')
  BY <1>1, <1>2 DEF PopulatedFor
<1> QED BY <1>3, PopulatedAs

LEMMA CheckedStays ==
  ASSUME EntriesOK, EntriesOK', Advances, TypeOK, TypeOK', CheckedOK, UNCHANGED <<root, checked>>,
         phase # "populate", phase' \in {"ready", "eval", "stopped"},
         phase \in {"ready", "eval"} \/ (phase = "check" /\ stk = << >>)
  PROVE  CheckedOK'
<1>1. Closed(checked) /\ <<root, << >> >> \in checked
  BY DEF CheckedOK
<1>2. ASSUME NEW c \in checked, Kind[c[1]] = "assign" PROVE TypedIfBound(c[2], Var[c[1]])'
  BY <1>2, CheckedTypes
<1> QED BY <1>1, <1>2 DEF CheckedOK, Closed, TypedIfBound

\* All calls of an evaluation that the interpreter itself visits are recorded.
AllRecorded(frames, calls) ==
  \A i \in 1..Len(frames) : ~frames[i].typed => <<frames[i].n, frames[i].scope>> \in calls

LEMMA RecordedCall ==
  ASSUME stk \in Seq(Frames), stk # << >>, nested \in Seq(Node),
         NEW k \in DOMAIN Kids[N], NEW v \in Int, NEW typed \in BOOLEAN, Call(k, v, typed),
         NEW calls, Closed(calls), AllRecorded(stk, calls),
         ~typed => ~Top.typed /\ <<Kid(k), nested>> \in Inner(N, Top.scope)
  PROVE  AllRecorded(stk', calls)
<1> DEFINE L == Len(stk)
           caller == Later(Top.stage + 1, v)
           callee == Frame(Kids[N][k], typed, nested)
<1>1. L \in Nat /\ L > 0 /\ L \in 1..L /\ Top = stk[L] /\ N = Top.n
  BY TopFacts DEF Top, N
<1>2. /\ Len(stk') = L + 1 /\ stk'[L] = caller /\ stk'[L + 1] = callee
      /\ \A i \in 1..(L - 1) : stk'[i] = stk[i]
  BY CallFacts
<1>3. /\ caller.n = N /\ caller.scope = Top.scope /\ caller.typed = Top.typed
      /\ callee.n = Kids[N][k] /\ callee.scope = nested /\ callee.typed = typed
  BY LaterFacts, FrameFacts
<1>4. ~Top.typed => <<N, Top.scope>> \in calls
  BY <1>1 DEF AllRecorded
<1> HIDE DEF L, caller, callee
<1>5. ~typed => <<Kids[N][k], nested>> \in calls
  <2>1. ASSUME <<N, Top.scope>> \in calls PROVE Inner(N, Top.scope) \subseteq calls
    <3>1. PICK c \in calls : c = <<N, Top.scope>>
      BY <2>1
    <3>2. c[1] = N /\ c[2] = Top.scope
      BY <3>1
    <3> QED BY <3>2 DEF Closed
  <2> QED BY <1>4, <2>1 DEF Kid
<1>6. \A i \in 1..(L + 1) : i = L \/ i = L + 1 \/ (i \in 1..(L - 1) /\ i \in 1..L)
  BY <1>1
<1>7. ASSUME NEW i \in 1..(L + 1), ~stk'[i].typed
      PROVE  <<stk'[i].n, stk'[i].scope>> \in calls
  <2>1. CASE i = L
    BY <1>2, <1>3, <1>4, <1>7, <2>1
  <2>2. CASE i = L + 1
    BY <1>2, <1>3, <1>5, <1>7, <2>2
  <2>3. CASE i \in 1..(L - 1) /\ i \in 1..L
    BY <1>2, <1>7, <2>3 DEF AllRecorded, L
  <2> QED BY <1>6, <2>1, <2>2, <2>3
<1> QED BY <1>2, <1>7 DEF AllRecorded

LEMMA RecordedEnter ==
  ASSUME stk \in Seq(Frames), stk # << >>, NEW v \in Int, EnterScope(v),
         NEW calls, AllRecorded(stk, calls)
  PROVE  AllRecorded(stk', calls)
<1> DEFINE L == Len(stk)
<1>1. L \in Nat /\ L > 0 /\ L \in 1..L /\ Top = stk[L] /\ N = Top.n
  BY TopFacts DEF Top, N
<1>2. Len(stk') = L /\ stk'[L] = Later(1, v) /\ \A i \in 1..(L - 1) : stk'[i] = stk[i]
  BY GotoFacts DEF EnterScope
<1>3. Later(1, v).n = Top.n /\ Later(1, v).scope = Top.scope /\ Later(1, v).typed = Top.typed
  BY <1>1, LaterFacts
<1> HIDE DEF L
<1>4. \A i \in 1..L : i \in 1..(L - 1) \/ i = L
  BY <1>1
<1>5. \A i \in 1..L : /\ stk'[i].n = stk[i].n /\ stk'[i].scope = stk[i].scope
                      /\ stk'[i].typed = stk[i].typed
  BY <1>1, <1>2, <1>3, <1>4
<1> QED BY <1>2, <1>5 DEF AllRecorded, L

LEMMA RecordedReturn ==
  ASSUME stk \in Seq(Frames), stk # << >>, Return, NEW calls, AllRecorded(stk, calls)
  PROVE  AllRecorded(stk', calls)
<1>1. Len(stk) \in Nat /\ Len(stk') = Len(stk) - 1 /\ \A i \in 1..(Len(stk) - 1) : stk'[i] = stk[i]
  BY ReturnFacts, TopFacts
<1>2. \A i \in 1..Len(stk') : i \in 1..Len(stk) /\ stk'[i] = stk[i]
  BY <1>1
<1> QED BY <1>2 DEF AllRecorded

LEMMA EvaluatedAs ==
  /\ EvaluatedOK <=>
       (phase = "eval" => AllRecorded(stk, populated) /\ AllRecorded(stk, checked))
  /\ EvaluatedOK' <=>
       (phase' = "eval" => AllRecorded(stk', populated') /\ AllRecorded(stk', checked'))
BY DEF EvaluatedOK, AllRecorded

LEMMA EvalRecord ==
  ASSUME MachineOK, PassesOK, Eval
  PROVE  EvaluatedOK'
<1>1. phase = "eval" /\ EvalShape /\ UNCHANGED <<populated, checked>>
  BY EvaluatorHolds, EvalShapes DEF Eval, EvalStep
<1>2. stk \in Seq(Frames) /\ nested \in Seq(Node)
  BY DEF MachineOK, TypeOK
<1>3. Closed(populated) /\ Closed(checked) /\ AllRecorded(stk, populated) /\ AllRecorded(stk, checked)
  BY <1>1, EvaluatedAs DEF PassesOK, PopulatedOK, CheckedOK
<1>4. CASE phase' # "eval"
  BY <1>4 DEF EvaluatedOK
<1>5. CASE stk # << >> /\ (Return \/ EnterScope(0) \/ EvalCall)
  <2>1. ASSUME NEW calls, Closed(calls), AllRecorded(stk, calls)
        PROVE  AllRecorded(stk', calls)
    <3>1. CASE Return
      BY <1>2, <1>5, <2>1, <3>1, RecordedReturn
    <3>2. CASE EnterScope(0)
      <4>1. 0 \in Int
        OBVIOUS
      <4> QED BY <1>2, <1>5, <2>1, <3>2, <4>1, RecordedEnter, Zenon
    <3>3. CASE EvalCall
      <4>1. PICK k \in DOMAIN Kids[N], v \in Int, typed \in BOOLEAN :
              /\ Call(k, v, typed)
              /\ ~typed => ~Top.typed /\ <<Kid(k), nested>> \in Inner(N, Top.scope)
        BY <3>3 DEF EvalCall
      <4> QED BY <1>2, <1>5, <2>1, <4>1, RecordedCall, Zenon
    <3> QED BY <1>5, <3>1, <3>2, <3>3
  <2>2. AllRecorded(stk', populated) /\ AllRecorded(stk', checked)
    BY <1>3, <2>1
  <2> QED BY <1>1, <2>2, EvaluatedAs
<1> QED BY <1>1, <1>4, <1>5 DEF EvalShape

\* From one pass to the next, and to and from an evaluation.
LEMMA BetweenRecord ==
  ASSUME MachineOK, MachineOK', EntriesOK, EntriesOK', Advances, PassesOK,
         StartCheck \/ EndCheck \/ Evaluate \/ EndEvaluate
  PROVE  PassesOK'
<1>1. /\ UNCHANGED <<root, populated, checked>> /\ phase' # "populate"
      /\ phase # "populate" \/ stk = << >>
  BY DEF StartCheck, EndCheck, Evaluate, EndEvaluate
<1>2. PopulatedOK'
  BY <1>1, PopulatedStays DEF PassesOK
<1>3. TypeOK /\ TypeOK'
  BY DEF MachineOK
<1>4. CASE StartCheck
  <2>1. checked' = {} /\ phase' = "check" /\ stk' = <<Frame(root, FALSE, << >>)>>
    BY <1>4 DEF StartCheck, PassesOK, CheckedOK
  <2>2. ReturnedIn(checked)'
    BY <2>1, StartBack, ReturnedInIsAllBack
  <2>3. stk' # << >>
    BY <2>1
  <2>4. CheckedOK'
    BY <2>1, <2>2, <2>3 DEF CheckedOK, Closed
  <2> QED BY <1>2, <2>1, <2>4 DEF PassesOK, EvaluatedOK
<1>5. CASE EndCheck \/ Evaluate \/ EndEvaluate
  <2>1. /\ phase # "populate" /\ phase' \in {"ready", "eval"}
        /\ phase \in {"ready", "eval"} \/ (phase = "check" /\ stk = << >>)
    BY <1>5 DEF EndCheck, Evaluate, EndEvaluate
  <2>2. CheckedOK'
    BY <1>1, <1>3, <2>1, CheckedStays DEF PassesOK
  <2>3. CASE phase' # "eval"
    BY <1>2, <2>2, <2>3 DEF PassesOK, EvaluatedOK
  <2>4. CASE Evaluate
    <3> DEFINE f == Frame(root, FALSE, << >>)
    <3>1. <<root, << >> >> \in populated /\ <<root, << >> >> \in checked
      BY <2>4 DEF Evaluate, PassesOK, PopulatedOK, CheckedOK
    <3>2. f.n = root /\ f.scope = << >> /\ stk' = <<f>>
      BY <2>4 DEF Frame, Evaluate
    <3> HIDE DEF f
    <3>3. \A i \in 1..Len(stk') : stk'[i] = f
      BY <3>2
    <3>4. AllRecorded(stk', populated') /\ AllRecorded(stk', checked')
      BY <1>1, <3>1, <3>2, <3>3 DEF AllRecorded
    <3>5. EvaluatedOK'
      BY <3>4, EvaluatedAs
    <3> QED BY <1>2, <2>2, <3>5 DEF PassesOK
  <2> QED BY <1>5, <2>3, <2>4 DEF EndCheck, EndEvaluate
<1> QED BY <1>4, <1>5

-----------------------------------------------------------------------------
(***************************************************************************)
(* The invariant, and what it was found for.                               *)
(***************************************************************************)
LEMMA InitPasses ==
  ASSUME Init
  PROVE  PassesOK
<1> DEFINE f == Frame(root, FALSE, << >>)
<1>1. /\ table = << >> /\ phase = "populate" /\ populated = {} /\ checked = {}
      /\ stk = <<f>>
  BY DEF Init
<1>2. f.stage = 0 /\ AllBack("populate", stk, populated)
  BY <1>1, StartBack DEF Frame
<1> HIDE DEF f
<1>3. stk # << >> /\ \A i \in 1..Len(stk) : stk[i] = f
  BY <1>1
<1>4. \A i \in 1..Len(stk) : ~(stk[i].stage > 0)
  BY <1>2, <1>3
<1>5. ReturnedIn(populated)
  BY <1>1, <1>2, ReturnedInIsAllBack
<1>6. PopulatedOK
  BY <1>1, <1>3, <1>4, <1>5 DEF PopulatedOK, Closed
<1>7. CheckedOK
  BY <1>1 DEF CheckedOK, Closed
<1> QED BY <1>1, <1>6, <1>7 DEF PassesOK, EvaluatedOK

LEMMA PassesInductive ==
  ASSUME MachineOK, MachineOK', TablesOK, TablesOK', PassesOK, [Next]_vars, Advances \/ UNCHANGED vars
  PROVE  PassesOK'
<1>1. EntriesOK /\ EntriesOK' /\ TypeOK /\ TypeOK' /\ PopulatedOK /\ CheckedOK
  BY DEF TablesOK, MachineOK, PassesOK
<1>2. CASE UNCHANGED vars
  <2>1. UNCHANGED <<table, phase, stk, root, populated, checked>>
    BY <1>2 DEF vars
  <2>2. PopulatedOK'
    <3>1. PopulatedFor(phase', table', stk', root', populated')
      BY <1>1, <2>1, PopulatedAs
    <3> QED BY <1>1, <3>1, PopulatedAs
  <2>3. ReturnedIn(checked)' <=> ReturnedIn(checked)
    BY <2>1, ReturnedInIsAllBack
  <2>4. ASSUME NEW scope, NEW x
        PROVE  /\ HasBinding(scope, x)' <=> HasBinding(scope, x)
               /\ HasType(scope, x)' <=> HasType(scope, x)
    <3>1. HasBinding(scope, x)' <=> HasBinding(scope, x)
      BY <1>1, <2>1, KeyedFacts
    <3>2. \A b : Bound(b, x)' <=> Bound(b, x)
      BY <2>1 DEF Bound, At
    <3>3. PICK i : i = Nearest(scope, x, FALSE)
      OBVIOUS
    <3>4. Nearest(scope, x, FALSE)' = i
      BY <3>2, <3>3, NearestSame, Zenon
    <3>5. HasType(scope, x)' <=> HasType(scope, x)
      BY <2>1, <3>3, <3>4 DEF HasType, LookupIn, At
    <3> QED BY <3>1, <3>5
  <2>5. CheckedOK'
    BY <1>1, <2>1, <2>3, <2>4 DEF CheckedOK, Closed
  <2>6. EvaluatedOK'
    BY <2>1 DEF PassesOK, EvaluatedOK
  <2> QED BY <2>2, <2>5, <2>6 DEF PassesOK
<1>3. CASE Advances /\ (StartCheck \/ EndCheck \/ Evaluate \/ EndEvaluate)
  BY <1>1, <1>3, BetweenRecord
<1>4. CASE Advances /\ Populate
  <2>1. PopulatedOK'
    BY <1>1, <1>4, PopulateRecord
  <2>2. phase = "populate" /\ phase' = "populate" /\ UNCHANGED checked
    BY <1>4 DEF Populate, PopulateStep
  <2>3. CheckedOK' /\ EvaluatedOK'
    BY <1>1, <2>2 DEF CheckedOK, EvaluatedOK, Closed
  <2> QED BY <2>1, <2>3 DEF PassesOK
<1>5. CASE Advances /\ Check
  <2>1. CheckedOK'
    BY <1>1, <1>5, CheckRecord
  <2>2. phase = "check" /\ phase' \in {"check", "stopped"} /\ UNCHANGED <<root, populated>>
    BY <1>1, <1>5, CheckShapes DEF CheckShape, Check, CheckStep
  <2>3. PopulatedOK'
    BY <1>1, <1>5, <2>2, PopulatedStays
  <2> QED BY <2>1, <2>2, <2>3 DEF PassesOK, EvaluatedOK
<1>6. CASE Advances /\ Eval
  <2>1. /\ phase = "eval" /\ phase' \in {"eval", "ready", "stopped"}
        /\ UNCHANGED <<root, populated, checked>>
    BY <1>6, EvaluatorHolds, EvalShapes DEF EvalShape, Eval, EvalStep
  <2>2. PopulatedOK'
    BY <1>1, <1>6, <2>1, PopulatedStays
  <2>3. CheckedOK'
    BY <1>1, <1>6, <2>1, CheckedStays
  <2>4. EvaluatedOK'
    BY <1>6, EvalRecord
  <2> QED BY <2>2, <2>3, <2>4 DEF PassesOK
<1> QED BY <1>2, <1>3, <1>4, <1>5, <1>6 DEF Next

(***************************************************************************)
(* The invariant of PcshInv holds in every reachable state: the stack, the *)
(* tables and what the passes have recorded of the tree agree.             *)
(***************************************************************************)
THEOREM Inductive == Spec => []IInv
<1>1. Init => IInv
  BY InitMachine, InitTables, InitPasses DEF IInv
<1>2. IInv /\ [Next]_vars => IInv'
  <2> SUFFICES ASSUME IInv, [Next]_vars PROVE IInv'
    OBVIOUS
  <2>1. MachineOK'
    BY MachineInductive DEF IInv
  <2>2. TablesOK' /\ (Advances \/ UNCHANGED vars)
    BY TablesInductive DEF IInv
  <2>3. PassesOK'
    BY <2>1, <2>2, PassesInductive DEF IInv
  <2> QED BY <2>1, <2>2, <2>3 DEF IInv
<1> QED BY <1>1, <1>2, PTL DEF Spec

(***************************************************************************)
(* Whatever tree, and however often it is evaluated, the interpreter finds *)
(* a type for the variable of every assignment it begins: its "Incomplete  *)
(* implementation for evaluate!" checks are not reached                    *)
(* (interpreter.cpp:317, 343).                                             *)
(***************************************************************************)
THEOREM AssignmentTyped == Spec => []AssignmentIsTyped
<1>1. ASSUME IInv, phase = "eval", Statement("assign", 0)
      PROVE  Lookup(Var[N], FALSE).type \in ValueTypes
  <2>1. MachineOK /\ stk \in Seq(Frames) /\ stk # << >> /\ Kind[N] = "assign" /\ ~Top.typed
    BY <1>1 DEF IInv, MachineOK, TypeOK, Statement, Running
  <2>2. Len(stk) \in 1..Len(stk) /\ Top = stk[Len(stk)] /\ N = Top.n
    BY <2>1, TopFacts DEF Top, N
  <2>3. <<N, Top.scope>> \in populated /\ <<N, Top.scope>> \in checked
    BY <1>1, <2>1, <2>2 DEF IInv, PassesOK, EvaluatedOK
  <2>4. PICK c : c = <<N, Top.scope>>
    OBVIOUS
  <2>5. c[1] = N /\ c[2] = Top.scope /\ c \in populated /\ c \in checked
    BY <2>3, <2>4
  <2>6. HasBinding(c[2], Var[c[1]])
    BY <1>1, <2>1, <2>5 DEF IInv, PassesOK, PopulatedOK
  <2>7. HasType(c[2], Var[c[1]])
    BY <1>1, <2>1, <2>5, <2>6 DEF IInv, PassesOK, CheckedOK
  <2>8. nested = Top.scope
    BY <2>1, ScopeOfTop
  <2> QED BY <2>5, <2>7, <2>8 DEF HasType, Lookup
<1>2. IInv => AssignmentIsTyped
  BY <1>1 DEF AssignmentIsTyped
<1> QED BY <1>2, Inductive, PTL

=============================================================================
