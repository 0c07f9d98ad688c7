--------------------------- MODULE PlainProofs ---------------------------
(***************************************************************************)
(* The types that the second pass gives are the ones that an evaluation    *)
(* assigns, in every script of PlainAssumption: PlainOK is inductive given *)
(* IInv, which PcshProofs proves.                                          *)
(***************************************************************************)
EXTENDS PcshProofs, PlainScripts

-----------------------------------------------------------------------------
(***************************************************************************)
(* PureOK: what is above an expression are expressions.                    *)
(***************************************************************************)
Pure(frames) ==
  \A i \in 1..Len(frames) :
    /\ Kind[frames[i].n] = "assign" => ~frames[i].typed
    /\ Kind[frames[i].n] \in PureKinds => \A j \in i..Len(frames) : Kind[frames[j].n] \in PureKinds

LEMMA PureAs ==
  /\ PureOK <=> (phase = "eval" => Pure(stk))
  /\ PureOK' <=> (phase' = "eval" => Pure(stk'))
BY DEF PureOK, Pure

\* The children of a call that are assignments are not called typed.
LEMMA PureKid ==
  ASSUME stk \in Seq(Frames), stk # << >>, Kind[N] = "assign" => ~Top.typed,
         NEW k \in DOMAIN Kids[N], NEW typed \in BOOLEAN, typed => CallsTyped(k)
  PROVE  /\ Kind[Kids[N][k]] = "assign" => ~typed
         /\ Kind[N] \in PureKinds => Kind[Kids[N][k]] \in PureKinds
<1>1. /\ N \in Node /\ Kind[N] \in NodeKinds
      /\ Kind[N] \in ExprKinds => Kind[Kids[N][k]] \in ExprKinds
  BY TopFacts, KidFacts
<1>2. Kind[Kids[N][k]] = "assign" => \/ Kind[N] \in {"block", "assign"}
                                     \/ Kind[N] = "if_stmt" /\ k = 2
  BY <1>1, PlainAssumption
<1>3. ASSUME Kind[Kids[N][k]] = "assign", typed PROVE FALSE
  <2>1. Kind[N] # "assign" \/ ~Top.typed
    OBVIOUS
  <2>2. Kind[N] # "block"
    BY <1>3 DEF CallsTyped, ExprKinds, LeafKinds, UnaryKinds, BinaryKinds
  <2> QED BY <1>2, <1>3, <2>1, <2>2 DEF CallsTyped, ExprKinds, LeafKinds, UnaryKinds, BinaryKinds
<1>4. ASSUME Kind[N] \in PureKinds PROVE Kind[Kids[N][k]] \in PureKinds
  <2>1. Kind[N] \in ExprKinds /\ Kind[N] # "assign" /\ Kind[N] # "block" /\ Kind[N] # "if_stmt"
    BY <1>4 DEF PureKinds, ExprKinds, LeafKinds, UnaryKinds, BinaryKinds
  <2> QED BY <1>1, <1>2, <2>1 DEF PureKinds
<1> QED BY <1>3, <1>4

LEMMA PureCall ==
  ASSUME stk \in Seq(Frames), stk # << >>, nested \in Seq(Node), Pure(stk),
         NEW k \in DOMAIN Kids[N], NEW v \in Int, NEW typed \in BOOLEAN, Call(k, v, typed),
         typed => CallsTyped(k)
  PROVE  Pure(stk')
<1> DEFINE L == Len(stk)
           kid == Kids[N][k]
<1>1. L \in Nat /\ L > 0 /\ L \in 1..L /\ Top = stk[L] /\ N = Top.n
  BY TopFacts DEF Top, N
<1>2. /\ Len(stk') = L + 1
      /\ stk'[L + 1].n = kid /\ stk'[L + 1].typed = typed
      /\ \A i \in 1..(L - 1) : stk'[i] = stk[i]
      /\ stk'[L].n = stk[L].n /\ stk'[L].typed = stk[L].typed
  BY <1>1, CallFacts, LaterFacts, FrameFacts
<1>3. Kind[stk[L].n] = "assign" => ~stk[L].typed
  BY <1>1 DEF Pure
<1>4. (Kind[kid] = "assign" => ~typed) /\ (Kind[N] \in PureKinds => Kind[kid] \in PureKinds)
  BY <1>1, <1>3, PureKid
<1> HIDE DEF L, kid
<1>5. \A i \in 1..(L + 1) : i = L + 1 \/ i \in 1..L
  BY <1>1
<1>6. \A i \in 1..L : stk'[i].n = stk[i].n /\ stk'[i].typed = stk[i].typed
  <2>1. \A i \in 1..L : i = L \/ i \in 1..(L - 1)
    BY <1>1
  <2> QED BY <1>2, <2>1
<1>7. ASSUME NEW i \in 1..L, Kind[stk[i].n] \in PureKinds, NEW j \in i..(L + 1)
      PROVE  Kind[stk'[j].n] \in PureKinds
  <2>1. \A m \in i..L : Kind[stk[m].n] \in PureKinds
    BY <1>7 DEF Pure, L
  <2>2. L \in i..L /\ (j = L + 1 \/ (j \in i..L /\ j \in 1..L))
    BY <1>1
  <2> QED BY <1>1, <1>2, <1>4, <1>6, <2>1, <2>2
<1>8. \A j \in (L + 1)..(L + 1) : j = L + 1
  BY <1>1
<1>9. ASSUME NEW i \in 1..(L + 1)
      PROVE  /\ Kind[stk'[i].n] = "assign" => ~stk'[i].typed
             /\ Kind[stk'[i].n] \in PureKinds => \A j \in i..(L + 1) : Kind[stk'[j].n] \in PureKinds
  <2>1. CASE i = L + 1
    BY <1>2, <1>4, <1>8, <2>1
  <2>2. CASE i \in 1..L
    <3>1. Kind[stk[i].n] = "assign" => ~stk[i].typed
      BY <2>2 DEF Pure, L
    <3> QED BY <1>6, <1>7, <2>2, <3>1
  <2> QED BY <1>5, <2>1, <2>2
<1> QED BY <1>2, <1>9 DEF Pure

LEMMA PureShorter ==
  ASSUME Pure(stk), Len(stk) \in Nat, Len(stk') \in Nat, Len(stk') <= Len(stk),
         \A i \in 1..Len(stk') : stk'[i].n = stk[i].n /\ stk'[i].typed = stk[i].typed
  PROVE  Pure(stk')
<1>1. \A i \in 1..Len(stk') : i \in 1..Len(stk)
  OBVIOUS
<1>2. \A i \in 1..Len(stk') : \A j \in i..Len(stk') : j \in 1..Len(stk') /\ j \in i..Len(stk)
  OBVIOUS
<1>3. ASSUME NEW i \in 1..Len(stk')
      PROVE  /\ Kind[stk'[i].n] = "assign" => ~stk'[i].typed
             /\ Kind[stk'[i].n] \in PureKinds => \A j \in i..Len(stk') : Kind[stk'[j].n] \in PureKinds
  <2>1. /\ Kind[stk[i].n] = "assign" => ~stk[i].typed
        /\ Kind[stk[i].n] \in PureKinds => \A j \in i..Len(stk) : Kind[stk[j].n] \in PureKinds
    BY <1>1 DEF Pure
  <2> QED BY <1>2, <2>1
<1> QED BY <1>3 DEF Pure

LEMMA PureReturn ==
  ASSUME stk \in Seq(Frames), stk # << >>, Pure(stk), Return
  PROVE  Pure(stk')
<1>1. Len(stk) \in Nat /\ Len(stk) > 0 /\ Len(stk') = Len(stk) - 1 /\ \A i \in 1..(Len(stk) - 1) : stk'[i] = stk[i]
  BY ReturnFacts, TopFacts
<1> QED BY <1>1, PureShorter

LEMMA PureEnter ==
  ASSUME stk \in Seq(Frames), stk # << >>, Pure(stk), NEW v \in Int, EnterScope(v)
  PROVE  Pure(stk')
<1>1. Len(stk) \in Nat /\ Len(stk) > 0 /\ Top = stk[Len(stk)] /\ N = Top.n
  BY TopFacts DEF Top, N
<1>2. /\ Len(stk') = Len(stk) /\ stk'[Len(stk)] = Later(1, v)
      /\ \A i \in 1..(Len(stk) - 1) : stk'[i] = stk[i]
  BY GotoFacts DEF EnterScope
<1>3. \A i \in 1..Len(stk) : i = Len(stk) \/ i \in 1..(Len(stk) - 1)
  BY <1>1
<1>4. \A i \in 1..Len(stk') : stk'[i].n = stk[i].n /\ stk'[i].typed = stk[i].typed
  BY <1>1, <1>2, <1>3, LaterFacts
<1> QED BY <1>1, <1>2, <1>4, PureShorter

LEMMA EvalPure ==
  ASSUME MachineOK, PureOK, Eval
  PROVE  PureOK'
<1>1. phase = "eval" /\ EvalShape /\ Pure(stk)
  BY EvaluatorHolds, EvalShapes, PureAs DEF Eval, EvalStep
<1>2. stk \in Seq(Frames) /\ nested \in Seq(Node) /\ 0 \in Int
  BY DEF MachineOK, TypeOK
<1>3. CASE phase' # "eval"
  BY <1>3, PureAs
<1>4. CASE stk # << >> /\ (Return \/ EnterScope(0) \/ EvalCall)
  BY <1>1, <1>2, <1>4, PureReturn, PureEnter, PureCall, PureAs DEF EvalCall
<1> QED BY <1>1, <1>3, <1>4 DEF EvalShape

LEMMA PureInductive ==
  ASSUME MachineOK, PureOK, [Next]_vars
  PROVE  PureOK'
<1>1. CASE UNCHANGED vars
  BY <1>1 DEF vars, PureOK
<1>2. CASE Populate \/ Check \/ StartCheck \/ EndCheck \/ EndEvaluate
  BY <1>2, NotEvaluating, PureAs
<1>3. CASE Evaluate
  <2> DEFINE f == Frame(root, FALSE, << >>)
  <2>1. f \in Frames /\ f.n = root /\ Kind[root] = "block"
    BY RootFacts, FrameFacts DEF Frames, Frame, MachineOK, TypeOK
  <2>2. stk' = <<f>>
    BY <1>3 DEF Evaluate
  <2> HIDE DEF f
  <2>3. Len(stk') = 1 /\ \A i \in 1..Len(stk') : stk'[i] = f
    BY <2>1, <2>2, OneElement, Zenon
  <2>4. "block" # "assign" /\ "block" \notin PureKinds
    BY DEF PureKinds, ExprKinds, LeafKinds, UnaryKinds, BinaryKinds
  <2>5. Pure(stk')
    BY <2>1, <2>3, <2>4 DEF Pure
  <2> QED BY <2>5, PureAs
<1>4. CASE Eval
  BY <1>4, EvalPure
<1> QED BY <1>1, <1>2, <1>3, <1>4 DEF Next

-----------------------------------------------------------------------------
(***************************************************************************)
(* What an assignment stores, and that it keeps the variable's type.       *)
(***************************************************************************)

\* No typed_interpreter runs an assignment.
LEMMA NoTypedAssign ==
  ASSUME PureOK, phase = "eval", stk \in Seq(Frames), EndTypedAssign
  PROVE  FALSE
<1>1. stk # << >> /\ Kind[N] = "assign" /\ Top.typed
  BY TypedFacts DEF EndTypedAssign, Running
<1>2. Len(stk) \in 1..Len(stk) /\ Top = stk[Len(stk)] /\ N = Top.n
  BY <1>1, TopFacts DEF Top, N
<1> QED BY <1>1, <1>2 DEF PureOK

\* The assignment on top of the stack, and its visitor.
LEMMA TopAssign ==
  ASSUME IInv, PlainOK, phase = "eval", stk # << >>, Kind[N] = "assign"
  PROVE  /\ ~Top.typed /\ nested = Top.scope /\ Top.scope \in Seq(Node)
         /\ HasBinding(Top.scope, Var[N]) /\ HasType(Top.scope, Var[N])
         /\ Top.stage > 0 => Visiting.ty = TypeIn(Top.scope, Var[N]) /\ Visiting.ty \in ValueTypes
<1>1. /\ MachineOK /\ EvaluatorOK /\ VisitsOK /\ LastOK /\ stk \in Seq(Frames)
      /\ Len(vis) = Cardinality(Owners) /\ Kind[N] # "block"
  BY EvaluatorHolds DEF IInv, TablesOK, EvaluatorOK, StackOK
<1>2. Len(stk) \in 1..Len(stk) /\ Top = stk[Len(stk)] /\ N = Top.n
  BY <1>1, TopFacts DEF Top, N
<1>3. ~Top.typed
  BY <1>2 DEF PlainOK, PureOK
<1>4. nested = Top.scope /\ Top.scope \in Seq(Node)
  BY <1>1, ScopeOfTop
<1>5. HasBinding(Top.scope, Var[N]) /\ HasType(Top.scope, Var[N])
  <2>1. PICK c : c = <<N, Top.scope>>
    OBVIOUS
  <2>2. c \in populated /\ c \in checked /\ c[1] = N /\ c[2] = Top.scope
    BY <1>2, <1>3, <2>1 DEF IInv, PassesOK, EvaluatedOK
  <2> QED BY <2>2 DEF IInv, PassesOK, PopulatedOK, CheckedOK
<1>6. ASSUME Top.stage > 0
      PROVE  Visiting.ty = TypeIn(Top.scope, Var[N]) /\ Visiting.ty \in ValueTypes
  <2>1. Len(stk) \in Owners
    BY <1>2, <1>3, <1>6 DEF Owners, Owns
  <2>2. Rank(Len(stk)) = Len(vis)
    BY <1>1, <2>1, RankFacts
  <2>3. Visiting.ty = TypeIn(Top.scope, Var[N])
    BY <1>2, <2>1, <2>2 DEF PlainOK, AssignVisitsOK, Visiting
  <2> QED BY <1>1, <1>3, <1>6, <2>3, AssignmentFacts
<1> QED BY <1>3, <1>4, <1>5, <1>6

\* The constant that it stores is of the class of that type, shared or new.
LEMMA EndAssignFacts ==
  ASSUME IInv, PlainOK, EndAssign, phase = "eval", phase' = "eval"
  PROVE  /\ stk # << >> /\ Kind[N] = "assign" /\ Top.stage = 1
         /\ NewValue.kind = ClassOf(TypeIn(Top.scope, Var[N]))
         /\ Set(Var[N], Entry(NewValue, TypeIn(Top.scope, Var[N]), TRUE))
         /\ Lookup(Var[N], FALSE).type = TypeIn(Top.scope, Var[N])
         /\ last'.ptr = NewValue
         /\ last'.id = IF Cascading THEN last.id ELSE last.id + 1
<1>1. stk # << >> /\ Kind[N] = "assign" /\ Kind[N] # "block" /\ Top.stage = 1 /\ stk \in Seq(Frames)
  BY DEF EndAssign, Statement, Running, IInv, MachineOK, TypeOK
<1>2. Len(stk) \in 1..Len(stk) /\ Top = stk[Len(stk)] /\ N = Top.n
  BY <1>1, TopFacts DEF Top, N
<1>3. Visiting.ty = TypeIn(Top.scope, Var[N]) /\ Visiting.ty \in ValueTypes /\ nested = Top.scope
  BY <1>1, TopAssign
<1>4. ~Undefined
  BY DEF Undefined, Unwind
<1>5. /\ Set(Var[N], Entry(NewValue, Visiting.ty, TRUE))
      /\ last' = IF Cascading THEN last ELSE [id |-> last.id + 1, ptr |-> NewValue]
  BY <1>4 DEF EndAssign, NewEntry
<1>6. NewValue.kind = ClassOf(Visiting.ty)
  <2>1. CASE Cascading
    BY <1>1, <1>2, <1>3, <2>1 DEF PlainOK, SharedOK, Cascading, NewValue
  <2>2. CASE ~Cascading
    BY <1>3, <2>2 DEF NewValue, NewConstant, ClassOf, Const, ValueTypes, IntType, FloatType, StringType
  <2> QED BY <2>1, <2>2
<1>7. Lookup(Var[N], FALSE).type = TypeIn(Top.scope, Var[N])
  BY <1>3 DEF Lookup, TypeIn
<1>8. last'.ptr = NewValue /\ last'.id = IF Cascading THEN last.id ELSE last.id + 1
  BY <1>5 DEF NewValue
<1> QED BY <1>1, <1>3, <1>5, <1>6, <1>7, <1>8

LEMMA EvalKeepsTypes ==
  ASSUME IInv, PlainOK, Eval
  PROVE  KeepsTypes
<1>1. phase = "eval" /\ EvalShape /\ stk \in Seq(Frames) /\ nested \in Seq(Node)
  BY EvaluatorHolds, EvalShapes DEF Eval, EvalStep, IInv, MachineOK, TypeOK
<1>2. CASE UNCHANGED table
  BY <1>2 DEF KeepsTypes
<1>3. CASE EndTypedAssign
  BY <1>1, <1>3, NoTypedAssign DEF PlainOK
<1>4. CASE EndAssign /\ phase' = "eval"
  <2>1. PICK ty, e, x : /\ ty = TypeIn(Top.scope, Var[N]) /\ x = Var[N]
                        /\ e = Entry(NewValue, TypeIn(Top.scope, Var[N]), TRUE)
    OBVIOUS
  <2>2. Set(x, e) /\ Lookup(x, FALSE).type = ty /\ e.type = ty
    BY <1>1, <1>4, <2>1, EndAssignFacts DEF Entry
  <2>3. UNCHANGED table \/ \E k : Replaces(k, e) /\ table[k] = Lookup(x, FALSE)
    BY <1>1, <2>2, SetFacts
  <2>4. ASSUME NEW k, Replaces(k, e), table[k] = Lookup(x, FALSE) PROVE KeepsTypes
    BY <2>2, <2>4 DEF Replaces, KeepsTypes
  <2> QED BY <1>2, <2>3, <2>4
<1> QED BY <1>1, <1>2, <1>3, <1>4 DEF EvalShape

LEMMA TypesKept ==
  ASSUME IInv, PlainOK, [Next]_vars
  PROVE  KeepsTypes
<1>1. CASE UNCHANGED vars \/ StartCheck \/ EndCheck \/ Evaluate \/ EndEvaluate
  BY <1>1 DEF vars, StartCheck, EndCheck, Evaluate, EndEvaluate, KeepsTypes
<1>2. CASE Populate
  BY <1>2, PopulateEntries DEF IInv, TablesOK
<1>3. CASE Check
  BY <1>3, CheckEntries DEF IInv, TablesOK
<1>4. CASE Eval
  BY <1>4, EvalKeepsTypes
<1> QED BY <1>1, <1>2, <1>3, <1>4 DEF Next

\* A variable that has a type has it after the step.
LEMMA TypeSame ==
  ASSUME EntriesOK, EntriesOK', Advances, KeepsTypes, phase # "populate",
         NEW scope \in Seq(Node), NEW x, HasType(scope, x)
  PROVE  TypeIn(scope, x)' = TypeIn(scope, x)
<1>1. PICK i : i = Nearest(scope, x, FALSE)
  OBVIOUS
<1>2. Nearest(scope, x, FALSE)' = i
  BY <1>1, NearestStays
<1> DEFINE k == <<scope[i], x>>
<1>3. LookupIn(scope, x, FALSE).type \in ValueTypes
  BY DEF HasType
<1>4. i # 0
  <2>1. Nearest(scope, x, FALSE) = 0 => LookupIn(scope, x, FALSE) = Absent
    BY DEF LookupIn
  <2>2. Absent.type \notin ValueTypes
    BY DEF Absent, Entry, ValueTypes, Undet, IntType, FloatType, StringType
  <2> QED BY <1>1, <1>3, <2>1, <2>2, Zenon
<1>5. k \in DOMAIN table
  <2>1. Bound(scope[i], x)
    BY <1>1, <1>4, NearestStops
  <2> QED BY <2>1, BoundFacts
<1>6. DOMAIN table' = DOMAIN table
  BY DEF Advances
<1>7. LookupIn(scope, x, FALSE) = table[k]
  BY <1>1, <1>4, <1>5 DEF LookupIn, At
<1>8. table[k].type # Undet
  <2>1. table[k].type \in ValueTypes
    BY <1>3, <1>7, Zenon
  <2> QED BY <2>1 DEF ValueTypes, Undet, IntType, FloatType, StringType
<1>9. table'[k].type = table[k].type
  BY <1>5, <1>8 DEF KeepsTypes
<1>10. LookupIn(scope, x, FALSE)' = table'[k]
  <2>1. LookupIn(scope, x, FALSE)' = At(scope[i], x)'
    BY <1>2, <1>4 DEF LookupIn
  <2>2. At(scope[i], x)' = table'[k]
    BY <1>5, <1>6 DEF At
  <2> QED BY <2>1, <2>2
<1>11. TypeIn(scope, x)' = table'[k].type /\ TypeIn(scope, x) = table[k].type
  BY <1>7, <1>10, Zenon DEF TypeIn
<1> QED BY <1>9, <1>11, Zenon

-----------------------------------------------------------------------------
(***************************************************************************)
(* AssignVisitsOK: an assignment's visitor is pushed with the type that    *)
(* its variable has, and both stay.                                        *)
(***************************************************************************)

LEMMA EvalAssignVisits ==
  ASSUME IInv, IInv', PlainOK, Advances, KeepsTypes, Eval
  PROVE  AssignVisitsOK'
<1>1. VisitShape /\ EvaluatorOK /\ phase = "eval"
  BY EvalVisitors DEF IInv
<1>2. stk \in Seq(Frames) /\ EntriesOK /\ EntriesOK' /\ VisitsOK
  BY DEF IInv, MachineOK, TypeOK, TablesOK
<1>3. CASE phase' # "eval"
  BY <1>3 DEF AssignVisitsOK
<1>4. CASE TopOnly /\ (KeepsVisitors \/ (\E v \in Visitors : Adds(v)) \/ DropsVisitor)
  <2>1. PICK w : w = [i \in 1..Len(stk) |-> IF Kind[stk[i].n] = "assign"
                                               THEN {TypeIn(stk[i].scope, Var[stk[i].n])}
                                               ELSE TypesOf(stk[i])]
    OBVIOUS
  <2>2. /\ Len(stk) \in Nat /\ Owners \subseteq 1..Len(stk) /\ Owners' \subseteq 1..Len(stk)
        /\ \A i \in Owners' : stk'[i].n = stk[i].n /\ stk'[i].scope = stk[i].scope
    <3>1. Len(stk) \in Nat
      BY <1>2
    <3> QED BY <1>4, <3>1, Zenon DEF TopOnly
  <2>3. \A i \in Owners : vis[Rank(i)].ty \in w[i]
    <3>1. ASSUME NEW i \in Owners, Kind[stk[i].n] = "assign" PROVE vis[Rank(i)].ty \in w[i]
      BY <1>1, <2>1, <2>2, <3>1 DEF PlainOK, AssignVisitsOK
    <3>2. ASSUME NEW i \in Owners, Kind[stk[i].n] # "assign" PROVE vis[Rank(i)].ty \in w[i]
      BY <1>1, <1>2, <2>1, <2>2, <3>2 DEF VisitsOK
    <3> QED BY <3>1, <3>2
  <2>4. ASSUME NEW v, Adds(v) PROVE v.ty \in w[Len(stk)]
    <3>1. Len(stk) \in Owners' /\ v.ty \in TypesOf(Top) /\ Top = stk[Len(stk)] /\ N = Top.n
      BY <2>4 DEF Adds, Top, N
    <3>2. Len(stk) \in 1..Len(stk) /\ stk # << >>
      BY <1>2, <2>2, <3>1
    <3>3. CASE Kind[N] = "assign"
      <4>1. v.ty = LookupIn(nested, Var[N], FALSE).type
        BY <2>4, <3>3 DEF Adds, Lookup
      <4>2. nested = Top.scope
        BY <1>1, <3>2, <3>3, ScopeOfTop DEF IInv
      <4>3. v.ty = TypeIn(stk[Len(stk)].scope, Var[stk[Len(stk)].n])
        BY <3>1, <4>1, <4>2 DEF TypeIn
      <4> QED BY <2>1, <3>1, <3>2, <3>3, <4>3
    <3>4. CASE Kind[N] # "assign"
      BY <2>1, <3>1, <3>2, <3>4
    <3> QED BY <3>3, <3>4
  <2>5. \A i \in Owners' : vis'[Rank(i)'].ty \in w[i]
    BY <1>1, <1>4, <2>3, <2>4, VisitorsStep
  <2>6. ASSUME NEW i \in Owners', Kind[stk'[i].n] = "assign", phase' = "eval"
        PROVE  vis'[Rank(i)'].ty = TypeIn(stk[i].scope, Var[stk[i].n])'
    <3>1. PICK scope, x : scope = stk[i].scope /\ x = Var[stk[i].n]
      OBVIOUS
    <3>2. stk'[i].scope = scope /\ Var[stk'[i].n] = x /\ i \in 1..Len(stk)
      BY <2>2, <3>1
    <3>3. vis'[Rank(i)'].ty = TypeIn(scope, x)
      BY <2>1, <2>2, <2>5, <2>6, <3>1, <3>2
    <3>4. scope \in Seq(Node) /\ HasType(scope, x)
      <4>1. stk[i] \in Frames
        BY <1>2, <3>2
      <4>2. ~stk[i].typed
        BY <1>1, <2>2, <2>6, <3>2 DEF PlainOK, PureOK
      <4>3. PICK c : c = <<stk[i].n, stk[i].scope>>
        OBVIOUS
      <4>4. c \in populated /\ c \in checked /\ c[1] = stk[i].n /\ c[2] = scope
        BY <1>1, <3>1, <3>2, <4>2, <4>3 DEF IInv, PassesOK, EvaluatedOK
      <4>5. Kind[c[1]] = "assign" /\ Var[c[1]] = x
        BY <2>2, <2>6, <3>1, <4>4
      <4> QED BY <3>1, <4>1, <4>4, <4>5 DEF IInv, PassesOK, PopulatedOK, CheckedOK, Frames
    <3>5. TypeIn(scope, x)' = TypeIn(scope, x)
      BY <1>1, <1>2, <3>4, TypeSame
    <3> QED BY <3>2, <3>3, <3>5
  <2> QED BY <2>6 DEF AssignVisitsOK
<1> QED BY <1>1, <1>3, <1>4 DEF VisitShape

LEMMA AssignVisitsInductive ==
  ASSUME IInv, IInv', PlainOK, Advances, KeepsTypes, Next
  PROVE  AssignVisitsOK'
<1>1. CASE Populate \/ Check \/ StartCheck \/ EndCheck \/ EndEvaluate
  BY <1>1, NotEvaluating DEF AssignVisitsOK
<1>2. CASE Evaluate
  <2>1. Owners' = {}
    <3>1. root' \in Root /\ nested' = << >> /\ stk' = <<Frame(root, FALSE, << >>)>> /\ UNCHANGED root
      BY <1>2 DEF Evaluate, IInv, MachineOK, TypeOK, IdleOK, PathOK
    <3> QED BY <3>1, FirstCall
  <2> QED BY <2>1 DEF AssignVisitsOK
<1>3. CASE Eval
  BY <1>3, EvalAssignVisits
<1> QED BY <1>1, <1>2, <1>3 DEF Next

-----------------------------------------------------------------------------
(***************************************************************************)
(* CascadesOK.                                                             *)
(***************************************************************************)

\* The variable of an assignment that the second pass has seen is typed.
LEMMA CheckedTyped ==
  ASSUME IInv, NEW c \in checked, Kind[c[1]] = "assign", HasBinding(c[2], Var[c[1]])
  PROVE  c[2] \in Seq(Node) /\ HasType(c[2], Var[c[1]])
BY DEF IInv, MachineOK, TypeOK, PassesOK, CheckedOK

\* So is the inner one of a cascade.
LEMMA CascadeTyped ==
  ASSUME IInv, NEW c \in checked, Cascade(c[1]), HasBinding(c[2], Var[Kids[c[1]][1]])
  PROVE  HasType(c[2], Var[Kids[c[1]][1]])
<1>1. PICK d : d = <<Kids[c[1]][1], c[2]>>
  OBVIOUS
<1>2. d \in Inner(c[1], c[2])
  BY <1>1 DEF Inner, Cascade
<1>3. d \in checked /\ d[1] = Kids[c[1]][1] /\ d[2] = c[2] /\ Kind[d[1]] = "assign"
  BY <1>1, <1>2 DEF IInv, PassesOK, CheckedOK, Closed, Cascade
<1> QED BY <1>3, CheckedTyped

OneType(scope, n) ==
  Cascade(n) /\ HasBinding(scope, Var[n]) /\ HasBinding(scope, Var[Kids[n][1]]) =>
    TypeIn(scope, Var[n]) = TypeIn(scope, Var[Kids[n][1]])

\* A cascade that the second pass has seen is of one type, and stays so.
LEMMA CascadeStays ==
  ASSUME IInv, IInv', PlainOK, Advances, KeepsTypes, NEW c \in checked
  PROVE  OneType(c[2], c[1])'
<1> SUFFICES ASSUME Cascade(c[1]), HasBinding(c[2], Var[c[1]])',
                    HasBinding(c[2], Var[Kids[c[1]][1]])'
             PROVE  TypeIn(c[2], Var[c[1]])' = TypeIn(c[2], Var[Kids[c[1]][1]])'
  BY DEF OneType, Cascade
<1>1. phase # "populate" /\ EntriesOK /\ EntriesOK'
  BY DEF IInv, PassesOK, CheckedOK, TablesOK
<1>2. PICK scope, x, y : scope = c[2] /\ x = Var[c[1]] /\ y = Var[Kids[c[1]][1]]
  OBVIOUS
<1>3. HasBinding(scope, x) /\ HasBinding(scope, y)
  BY <1>1, <1>2, BindingStays
<1>4. scope \in Seq(Node) /\ HasType(scope, x) /\ HasType(scope, y)
  BY <1>2, <1>3, CheckedTyped, CascadeTyped DEF Cascade
<1>5. TypeIn(scope, x) = TypeIn(scope, y)
  BY <1>2, <1>3 DEF PlainOK, CascadesOK
<1>6. TypeIn(scope, x)' = TypeIn(scope, x) /\ TypeIn(scope, y)' = TypeIn(scope, y)
  BY <1>1, <1>4, TypeSame
<1> QED BY <1>2, <1>5, <1>6

\* A step of the second pass that leaves an assignment.
LEMMA CheckedCascade ==
  ASSUME IInv, IInv', PlainOK, Advances, KeepsTypes, phase = "check", stk # << >>,
         Return, checked' = checked \cup {<<N, Top.scope>>},
         Inner(N, Top.scope) \subseteq Back(phase, Top, Top.stage),
         Kind[N] = "assign" =>
                /\ UNCHANGED <<curr, nested>>
                /\ \A scope, x : scope = Top.scope /\ x = Var[N] => TypedIfBound(scope, x)' /\ TypedAs(scope, x)',
         NEW n, NEW scope, n = N, scope = Top.scope
  PROVE  OneType(scope, n)'
<1> SUFFICES ASSUME Cascade(n), HasBinding(scope, Var[n])', HasBinding(scope, Var[Kids[n][1]])'
             PROVE  TypeIn(scope, Var[n])' = TypeIn(scope, Var[Kids[n][1]])'
  BY DEF OneType, Cascade
<1>1. EntriesOK /\ EntriesOK' /\ stk \in Seq(Frames) /\ Kind[N] = "assign" /\ Kind[N] # "block"
  BY DEF IInv, TablesOK, MachineOK, TypeOK, Cascade
<1>2. /\ Len(stk) \in 1..Len(stk) /\ Top = stk[Len(stk)] /\ N = Top.n /\ Top.stage \in Nat
      /\ ~(Len(stk) < Len(stk))
  BY <1>1, TopFacts, KidFacts DEF Top, N
<1>3. nested = scope /\ scope \in Seq(Node)
  BY <1>1, ScopeOfTop DEF IInv
<1>4. PICK x, y, d, ty : x = Var[n] /\ y = Var[Kids[n][1]] /\ d = <<Kids[n][1], scope>> /\ ty = curr
  OBVIOUS
<1>5. HasBinding(scope, y)
  BY <1>1, <1>4, BindingStays
<1>6. d \in checked
  <2>1. d \in Inner(N, Top.scope)
    BY <1>1, <1>4 DEF Inner
  <2>2. ReturnedIn(checked)
    BY DEF IInv, PassesOK, CheckedOK
  <2>3. AllBack(phase, stk, checked)
    BY <2>2, ReturnedInIsAllBack
  <2>4. Back(phase, Top, Top.stage) \subseteq checked
    BY <1>2, <2>3 DEF AllBack
  <2> QED BY <2>1, <2>4
<1>7. HasType(scope, y)
  <2>1. d[1] = Kids[n][1] /\ d[2] = scope /\ Kind[d[1]] = "assign"
    BY <1>4 DEF Cascade
  <2> QED BY <1>4, <1>5, <1>6, <2>1, CheckedTyped
<1>8. Top.stage = 1
  <2>1. <<Kids[N][1], Top.scope>> \in Back(phase, Top, Top.stage)
    BY <1>1 DEF Inner
  <2> QED BY <1>1, <1>2, <2>1 DEF Back
<1>9. ty = TypeIn(scope, y)
  BY <1>3, <1>4, <1>5, <1>8 DEF PlainOK, CascadesOK, Kid
<1>10. TypeIn(scope, y)' = ty
  BY <1>1, <1>3, <1>7, <1>9, TypeSame
<1>11. TypedAs(scope, x)' /\ curr' = ty
  BY <1>1, <1>4
<1>12. TypeIn(scope, x)' = ty
  BY <1>4, <1>11 DEF TypedAs, TypeIn
<1> QED BY <1>4, <1>10, <1>12

\* What the caller then finds in curr_.
LEMMA CheckedCurr ==
  ASSUME IInv, IInv', phase = "check", phase' = "check", stk # << >>, stk' # << >>, Return,
         Kind[N] = "assign" =>
                /\ UNCHANGED <<curr, nested>>
                /\ \A scope, x : scope = Top.scope /\ x = Var[N] => TypedIfBound(scope, x)' /\ TypedAs(scope, x)'
  PROVE  (Cascade(N) /\ Top.stage = 1 /\ HasBinding(nested, Var[Kid(1)]) =>
            curr = TypeIn(nested, Var[Kid(1)]))'
<1>1. stk \in Seq(Frames) /\ stk' \in Seq(Frames) /\ PathOK
  BY DEF IInv, MachineOK, TypeOK
<1>2. /\ Len(stk) \in Nat /\ Len(stk) > 0 /\ Top = stk[Len(stk)] /\ N = Top.n
      /\ Len(stk') = Len(stk) - 1 /\ \A i \in 1..(Len(stk) - 1) : stk'[i] = stk[i]
  BY <1>1, TopFacts, ReturnFacts DEF Top, N
<1>3. Len(stk) - 1 > 0
  BY <1>1, <1>2
<1>4. PICK g : g = stk[Len(stk) - 1]
  OBVIOUS
<1>5. Top' = g /\ N' = g.n /\ Kid(1)' = Kids[g.n][1]
  BY <1>2, <1>3, <1>4 DEF Top, N, Kid
<1>6. Calls(g, Top)
  <2>1. Len(stk) \in 2..Len(stk)
    BY <1>2, <1>3
  <2> QED BY <1>1, <1>2, <1>4, <2>1 DEF PathOK
<1> SUFFICES ASSUME Cascade(g.n), g.stage = 1, HasBinding(nested, Var[Kid(1)])'
             PROVE  curr' = TypeIn(nested, Var[Kid(1)])'
  BY <1>5 DEF Cascade
<1>7. N = Kids[g.n][1] /\ Top.scope = g.scope /\ Kind[N] = "assign"
  BY <1>2, <1>6 DEF Calls, Called, Inside, Cascade
<1>8. PICK scope, x : scope = Top.scope /\ x = Var[N]
  OBVIOUS
<1>9. nested' = scope /\ Var[Kid(1)'] = x
  <2>1. nested = Top.scope
    BY <1>7, ScopeOfTop DEF IInv
  <2> QED BY <1>5, <1>7, <1>8, <2>1
<1>10. TypedAs(scope, x)'
  BY <1>7, <1>8
<1>11. HasBinding(scope, x)'
  BY <1>9
<1>12. curr' = TypeIn(scope, x)'
  BY <1>10, <1>11 DEF TypedAs, TypeIn
<1> QED BY <1>9, <1>12

CurrOK ==
  phase = "check" /\ stk # << >> =>
    (Cascade(N) /\ Top.stage = 1 /\ HasBinding(nested, Var[Kid(1)]) =>
       curr = TypeIn(nested, Var[Kid(1)]))

LEMMA CheckCurr ==
  ASSUME IInv, IInv', Advances, Check
  PROVE  CurrOK'
<1>1. CheckShape /\ phase = "check" /\ stk \in Seq(Frames) /\ nested \in Seq(Node)
  BY CheckShapes DEF IInv, MachineOK, TypeOK, TablesOK
<1>2. CASE phase' = "stopped"
  BY <1>2 DEF CurrOK
<1>3. ASSUME stk # << >>, NEW f, Len(stk') > 0, stk'[Len(stk')] = f, f.stage = 0 \/ Kind[f.n] = "block"
      PROVE  CurrOK'
  <2>1. Top' = f /\ N' = f.n
    BY <1>3 DEF Top, N
  <2> QED BY <1>3, <2>1 DEF CurrOK, Cascade
<1>4. CASE stk # << >> /\ EnterScope(curr)
  <2>1. Len(stk) \in Nat /\ Len(stk) > 0 /\ curr \in Int
    BY <1>1, <1>4, TopFacts, CurrTypes DEF IInv, MachineOK, TypeOK
  <2>2. Len(stk') = Len(stk) /\ stk'[Len(stk)] = Later(1, curr) /\ Kind[N] = "block"
    BY <1>1, <1>4, <2>1, GotoFacts DEF EnterScope, Running
  <2> QED BY <1>3, <1>4, <2>1, <2>2, LaterFacts
<1>5. ASSUME stk # << >>, NEW k \in DOMAIN Kids[N], NEW v \in Int, Call(k, v, FALSE)
      PROVE  CurrOK'
  <2>1. PICK f : f = Frame(Kids[N][k], FALSE, nested)
    OBVIOUS
  <2>2. Len(stk) \in Nat /\ Len(stk') = Len(stk) + 1 /\ stk'[Len(stk) + 1] = f
    BY <1>1, <1>5, <2>1, TopFacts, CallFacts
  <2>3. Len(stk') > 0 /\ stk'[Len(stk')] = f /\ f.stage = 0
    BY <2>1, <2>2 DEF Frame
  <2> QED BY <1>3, <1>5, <2>3
<1>6. ASSUME stk # << >>, phase' = "check", Return,
             Kind[N] = "assign" =>
               /\ UNCHANGED <<curr, nested>>
               /\ \A scope, x : scope = Top.scope /\ x = Var[N] => TypedIfBound(scope, x)' /\ TypedAs(scope, x)'
      PROVE  CurrOK'
  <2>1. CASE stk' = << >>
    BY <2>1 DEF CurrOK
  <2>2. CASE stk' # << >>
    BY <1>1, <1>6, <2>2, CheckedCurr DEF CurrOK
  <2> QED BY <2>1, <2>2
<1> QED BY <1>1, <1>2, <1>4, <1>5, <1>6 DEF CheckShape

LEMMA CascadesAs ==
  /\ CascadesOK <=> (\A c \in checked : OneType(c[2], c[1])) /\ CurrOK
  /\ CascadesOK' <=> (\A c \in checked' : OneType(c[2], c[1])') /\ CurrOK'
BY DEF CascadesOK, OneType, CurrOK

LEMMA CascadesInductive ==
  ASSUME IInv, IInv', PlainOK, Advances, KeepsTypes, Next
  PROVE  CascadesOK'
<1>1. \A c \in checked : OneType(c[2], c[1])'
  BY CascadeStays
<1>2. CASE Check
  <2>1. CheckShape /\ phase = "check" /\ CurrOK'
    BY <1>2, CheckShapes, CheckCurr DEF IInv, TablesOK
  <2>2. CASE UNCHANGED checked
    BY <1>1, <2>1, <2>2, CascadesAs
  <2>3. CASE ~UNCHANGED checked
    <3>1. /\ stk # << >> /\ Return /\ checked' = checked \cup {<<N, Top.scope>>}
          /\ Inner(N, Top.scope) \subseteq Back(phase, Top, Top.stage)
          /\ Kind[N] = "assign" =>
               /\ UNCHANGED <<curr, nested>>
               /\ \A scope, x : scope = Top.scope /\ x = Var[N] => TypedIfBound(scope, x)' /\ TypedAs(scope, x)'
      BY <2>1, <2>3 DEF CheckShape
    <3>2. PICK n, scope : n = N /\ scope = Top.scope
      OBVIOUS
    <3>3. OneType(scope, n)'
      BY <2>1, <3>1, <3>2, CheckedCascade
    <3>4. ASSUME NEW c \in checked' PROVE OneType(c[2], c[1])'
      <4>1. c \in checked \/ c = <<n, scope>>
        BY <3>1, <3>2, <3>4
      <4>2. CASE c \in checked
        BY <1>1, <4>2
      <4>3. CASE c = <<n, scope>>
        BY <3>3, <4>3 DEF OneType, Cascade
      <4> QED BY <4>1, <4>2, <4>3
    <3> QED BY <2>1, <3>4, CascadesAs
  <2> QED BY <2>2, <2>3
<1>3. CASE StartCheck
  <2>1. root \in Root /\ stk' = <<Frame(root, FALSE, << >>)>> /\ UNCHANGED checked
    BY <1>3 DEF StartCheck, IInv, MachineOK, TypeOK
  <2>2. CurrOK'
    <3>1. Top' = Frame(root, FALSE, << >>)
      BY <2>1 DEF Top
    <3>2. Top'.stage = 0
      BY <3>1 DEF Frame
    <3> QED BY <3>2 DEF CurrOK
  <2> QED BY <1>1, <2>1, <2>2, CascadesAs
<1>4. CASE Populate \/ EndCheck \/ Evaluate \/ Eval \/ EndEvaluate
  <2>1. UNCHANGED checked /\ phase' # "check"
    <3>1. CASE Eval
      <4>1. phase' \in {"eval", "ready", "stopped"}
        BY <3>1, EvaluatorHolds, EvalShapes DEF IInv, EvalShape, Eval, EvalStep
      <4> QED BY <3>1, <4>1 DEF Eval, EvalStep
    <3>2. CASE Populate \/ EndCheck \/ Evaluate \/ EndEvaluate
      BY <3>2, PopulateShapes DEF IInv, TablesOK, Populate, EndCheck, Evaluate, EndEvaluate
    <3> QED BY <1>4, <3>1, <3>2
  <2> QED BY <1>1, <2>1, CascadesAs DEF CurrOK
<1> QED BY <1>2, <1>3, <1>4 DEF Next

-----------------------------------------------------------------------------
(***************************************************************************)
(* SharedOK, in two parts: what lies on the stack, and its top.            *)
(***************************************************************************)
Steady(frames, id) ==
  \A i \in 1..Len(frames) :
    Kind[frames[i].n] = "assign" /\ frames[i].stage = 1 /\ Kind[Kids[frames[i].n][1]] # "assign" =>
      id = frames[i].local

TopShares ==
  phase = "eval" /\ stk # << >> =>
    (Kind[N] = "assign" /\ Top.stage = 1 /\ last.id # Top.local =>
       last.ptr.kind = ClassOf(TypeIn(Top.scope, Var[N])))

LEMMA SharedParts ==
  ASSUME stk \in Seq(Frames)
  PROVE  SharedOK => (phase = "eval" => Steady(stk, last.id)) /\ TopShares
<1>1. ASSUME stk # << >> PROVE Len(stk) \in 1..Len(stk) /\ Top = stk[Len(stk)] /\ N = Top.n
  BY <1>1, TopFacts DEF Top, N
<1>2. SharedOK /\ phase = "eval" => Steady(stk, last.id)
  BY DEF SharedOK, Steady
<1>3. ASSUME SharedOK, phase = "eval", stk # << >>, Kind[N] = "assign", Top.stage = 1, last.id # Top.local
      PROVE  last.ptr.kind = ClassOf(TypeIn(Top.scope, Var[N]))
  BY <1>1, <1>3 DEF SharedOK
<1> QED BY <1>2, <1>3 DEF TopShares

LEMMA SharedWhole ==
  ASSUME stk' \in Seq(Frames), phase' = "eval" => Steady(stk', last'.id), TopShares'
  PROVE  SharedOK'
<1> SUFFICES ASSUME phase' = "eval", NEW i \in 1..Len(stk'), Kind[stk'[i].n] = "assign", stk'[i].stage = 1
             PROVE  /\ Kind[Kids[stk'[i].n][1]] # "assign" => last'.id = stk'[i].local
                    /\ i = Len(stk') /\ last'.id # stk'[i].local =>
                         last'.ptr.kind = ClassOf(TypeIn(stk[i].scope, Var[stk[i].n])')
  BY DEF SharedOK
<1>1. Kind[Kids[stk'[i].n][1]] # "assign" => last'.id = stk'[i].local
  BY DEF Steady
<1>2. ASSUME i = Len(stk'), last'.id # stk'[i].local
      PROVE  last'.ptr.kind = ClassOf(TypeIn(stk[i].scope, Var[stk[i].n])')
  <2>1. stk' # << >> /\ Top' = stk'[i] /\ N' = stk'[i].n
    BY <1>2 DEF Top, N
  <2>2. last'.ptr.kind = ClassOf(TypeIn(Top.scope, Var[N])')
    BY <1>2, <2>1 DEF TopShares
  <2>3. TypeIn(Top.scope, Var[N])' = TypeIn(stk[i].scope, Var[stk[i].n])'
    BY <2>1
  <2> QED BY <2>2, <2>3
<1> QED BY <1>1, <1>2

\* Frames that stay where they were.
LEMMA SteadyBelow ==
  ASSUME NEW frames, NEW rest, NEW id, Len(frames) \in Nat, Len(rest) \in Nat, Steady(frames, id),
         Len(rest) <= Len(frames) + 1,
         \A i \in 1..Len(rest) :
            \/ i \in 1..Len(frames) /\ rest[i] = frames[i]
            \/ rest[i].stage = 0 \/ Kind[rest[i].n] # "assign" \/ rest[i].local = id
  PROVE  Steady(rest, id)
BY DEF Steady

\* An assignment that ends is not under an expression.
LEMMA EndAssignBelow ==
  ASSUME StackOK, Pure(stk), phase = "eval", stk # << >>, Kind[N] = "assign",
         NEW i \in 1..(Len(stk) - 1), Kind[stk[i].n] = "assign", stk[i].stage = 1
  PROVE  Kind[Kids[stk[i].n][1]] = "assign"
<1>1. /\ stk \in Seq(Frames) /\ Len(stk) \in Nat /\ Len(stk) \in (i + 1)..Len(stk)
      /\ Top = stk[Len(stk)] /\ N = Top.n /\ i \in 1..Len(stk)
      /\ i + 1 \in 2..Len(stk) /\ i + 1 \in 1..Len(stk) /\ (i + 1) - 1 = i
  <2>1. stk \in Seq(Frames)
    BY DEF StackOK
  <2>2. Len(stk) \in Nat
    BY <2>1
  <2> QED BY <2>1, <2>2 DEF Top, N
<1>2. Calls(stk[i], stk[i + 1])
  BY <1>1 DEF StackOK, PathOK
<1>3. stk[i + 1].n = Kids[stk[i].n][1]
  BY <1>2 DEF Calls, Called
<1>4. stk[i] \in Frames
  BY <1>1
<1>5. Kind[Kids[stk[i].n][1]] \in ExprKinds
  BY <1>2, <1>3, <1>4, TreeAssumption DEF Calls, Called, Frames, ExprKinds
<1>6. ASSUME Kind[stk[i + 1].n] \in PureKinds PROVE FALSE
  <2>1. Kind[stk[Len(stk)].n] \in PureKinds
    BY <1>1, <1>6 DEF Pure
  <2> QED BY <1>1, <2>1 DEF PureKinds
<1> QED BY <1>3, <1>5, <1>6 DEF PureKinds

\* What an evaluation's step does to the stack of the assignments.
LEMMA EvalSteady ==
  ASSUME IInv, IInv', PlainOK, Eval, phase' = "eval"
  PROVE  Steady(stk', last'.id)
<1>1. /\ stk \in Seq(Frames) /\ stk' \in Seq(Frames) /\ nested \in Seq(Node)
      /\ StackOK /\ EvalShape /\ phase = "eval" /\ last.id \in Int /\ last'.id \in Nat
  BY EvaluatorHolds, EvalShapes DEF Eval, EvalStep, EvaluatorOK, IInv, MachineOK, TypeOK
<1>2. Steady(stk, last.id) /\ Pure(stk)
  BY <1>1, SharedParts, PureAs DEF PlainOK
<1>3. Len(stk) \in Nat /\ Len(stk') \in Nat
  BY <1>1
<1>4. stk # << >>
  BY <1>1 DEF EvalShape
<1>5. Len(stk) > 0 /\ Top = stk[Len(stk)] /\ N = Top.n /\ Len(stk) \in 1..Len(stk)
  BY <1>1, <1>4, TopFacts DEF Top, N
<1>6. Kind[N] = "assign" => ~Top.typed
  BY <1>2, <1>5 DEF Pure
<1>7. ASSUME EnterScope(0), UNCHANGED last PROVE Steady(stk', last'.id)
  <2>1. /\ Len(stk') = Len(stk) /\ stk'[Len(stk)] = Later(1, 0) /\ Kind[N] = "block"
        /\ \A i \in 1..(Len(stk) - 1) : stk'[i] = stk[i]
    BY <1>1, <1>4, <1>7, GotoFacts DEF EnterScope, Running
  <2>2. Kind[stk'[Len(stk)].n] = "block"
    BY <2>1, LaterFacts
  <2>3. \A i \in 1..Len(stk') : i = Len(stk) \/ i \in 1..(Len(stk) - 1)
    BY <1>3, <2>1
  <2>4. \A i \in 1..Len(stk') : (i \in 1..Len(stk) /\ stk'[i] = stk[i]) \/ Kind[stk'[i].n] # "assign"
    BY <2>1, <2>2, <2>3
  <2> QED BY <1>2, <1>3, <1>7, <2>1, <2>4, SteadyBelow
<1>8. ASSUME NEW k \in DOMAIN Kids[N], NEW v \in Int, NEW typed \in BOOLEAN, Call(k, v, typed),
             Kind[N] = "assign" /\ ~Top.typed => v = last.id, UNCHANGED last
      PROVE  Steady(stk', last'.id)
  <2>1. /\ Len(stk') = Len(stk) + 1
        /\ stk'[Len(stk)].n = N /\ stk'[Len(stk)].local = v
        /\ stk'[Len(stk) + 1].stage = 0
        /\ \A i \in 1..(Len(stk) - 1) : stk'[i] = stk[i]
    BY <1>1, <1>4, <1>8, CallFacts, LaterFacts, FrameFacts
  <2>2. \A i \in 1..Len(stk') : i = Len(stk) + 1 \/ i = Len(stk) \/ i \in 1..(Len(stk) - 1)
    BY <1>3, <2>1
  <2>3. \A i \in 1..Len(stk') : \/ i \in 1..Len(stk) /\ stk'[i] = stk[i]
                                \/ stk'[i].stage = 0
                                \/ Kind[stk'[i].n] # "assign" \/ stk'[i].local = last'.id
    BY <1>6, <1>8, <2>1, <2>2
  <2> QED BY <1>2, <1>3, <1>8, <2>1, <2>3, SteadyBelow
<1>9. ASSUME Return PROVE Len(stk') = Len(stk) - 1 /\ \A i \in 1..Len(stk') : i \in 1..Len(stk) /\ stk'[i] = stk[i]
  BY <1>1, <1>3, <1>4, <1>9, ReturnFacts
<1>10. ASSUME Return, UNCHANGED last PROVE Steady(stk', last'.id)
  BY <1>2, <1>3, <1>9, <1>10, SteadyBelow
<1>11. ASSUME EndAssign, Return PROVE Steady(stk', last'.id)
  <2>1. Kind[N] = "assign"
    BY <1>11 DEF EndAssign, Statement, Running
  <2>2. \A i \in 1..Len(stk') : i \in 1..(Len(stk) - 1) /\ stk'[i] = stk[i]
    BY <1>3, <1>9, <1>11
  <2>3. \A i \in 1..Len(stk') : Kind[stk'[i].n] = "assign" /\ stk'[i].stage = 1 =>
                                  Kind[Kids[stk'[i].n][1]] = "assign"
    BY <1>1, <1>2, <1>4, <2>1, <2>2, EndAssignBelow
  <2> QED BY <2>3 DEF Steady
<1>12. CASE EndTypedAssign
  BY <1>1, <1>12, NoTypedAssign DEF PlainOK
<1> QED BY <1>1, <1>7, <1>8, <1>10, <1>11, <1>12 DEF EvalShape, EvalCall

\* What the call that then runs finds in last_assign_.
LEMMA EvalTopShares ==
  ASSUME IInv, IInv', PlainOK, Advances, KeepsTypes, Eval
  PROVE  TopShares'
<1>1. /\ stk \in Seq(Frames) /\ stk' \in Seq(Frames) /\ nested \in Seq(Node) /\ PathOK
      /\ EntriesOK /\ EntriesOK' /\ EvalShape /\ phase = "eval"
  BY EvaluatorHolds, EvalShapes DEF Eval, EvalStep, IInv, MachineOK, TypeOK, TablesOK
<1>2. Steady(stk, last.id) /\ Pure(stk)
  BY <1>1, SharedParts, PureAs DEF PlainOK
<1> SUFFICES ASSUME phase' = "eval", stk' # << >>, Kind[N'] = "assign", Top'.stage = 1, last'.id # Top'.local
             PROVE  last'.ptr.kind = ClassOf(TypeIn(Top.scope, Var[N])')
  BY DEF TopShares
<1>3. /\ stk # << >> /\ Len(stk) \in Nat /\ Len(stk) > 0 /\ Top = stk[Len(stk)] /\ N = Top.n
      /\ Len(stk) \in 1..Len(stk)
  <2>1. stk # << >>
    BY <1>1 DEF EvalShape
  <2> QED BY <1>1, <2>1, TopFacts DEF Top, N
<1>4. Kind[N] = "assign" => ~Top.typed
  BY <1>2, <1>3 DEF Pure
<1>5. ~EnterScope(0)
  <2> SUFFICES ASSUME EnterScope(0) PROVE FALSE
    OBVIOUS
  <2>1. Len(stk') = Len(stk) /\ stk'[Len(stk)] = Later(1, 0) /\ Kind[N] = "block"
    BY <1>1, <1>3, GotoFacts DEF EnterScope, Running
  <2>2. Top' = Later(1, 0)
    BY <2>1 DEF Top
  <2>3. N' = N
    BY <2>2, LaterFacts DEF N
  <2> QED BY <2>1, <2>3
<1>6. ~EvalCall
  <2> SUFFICES ASSUME NEW k \in DOMAIN Kids[N], NEW v \in Int, NEW typed \in BOOLEAN, Call(k, v, typed)
               PROVE  FALSE
    BY DEF EvalCall
  <2>1. Len(stk') = Len(stk) + 1 /\ stk'[Len(stk) + 1].stage = 0
    BY <1>1, <1>3, CallFacts, FrameFacts
  <2>2. Top' = stk'[Len(stk) + 1]
    BY <2>1 DEF Top
  <2> QED BY <2>1, <2>2
<1>7. Return
  BY <1>1, <1>5, <1>6 DEF EvalShape
<1>8. PICK g, f : g = stk[Len(stk) - 1] /\ f = Top
  OBVIOUS
<1>9. /\ Len(stk) \in 2..Len(stk) /\ Len(stk) - 1 \in 1..(Len(stk) - 1) /\ Len(stk) - 1 \in 1..Len(stk)
      /\ Top' = g /\ N' = g.n
  <2>1. Len(stk') = Len(stk) - 1 /\ Len(stk') > 0 /\ \A i \in 1..(Len(stk) - 1) : stk'[i] = stk[i]
    BY <1>1, <1>3, <1>7, ReturnFacts
  <2>2. Len(stk) - 1 \in 1..(Len(stk) - 1)
    BY <1>3, <2>1
  <2> QED BY <1>3, <1>8, <2>1, <2>2 DEF Top, N
<1>10. Calls(g, f)
  BY <1>1, <1>3, <1>8, <1>9 DEF PathOK
<1>11. Kind[g.n] = "assign" /\ g.stage = 1 /\ f.n = Kids[g.n][1] /\ f.scope = g.scope
  BY <1>1, <1>9, <1>10 DEF Calls, Called, Inside
<1>12. CASE Kind[N] # "assign"
  <2>1. UNCHANGED last
    BY <1>1, <1>5, <1>6, <1>12 DEF EvalShape, EndTypedAssign, EndAssign, Statement, Running
  <2>2. last.id = g.local
    BY <1>2, <1>3, <1>8, <1>9, <1>11, <1>12 DEF Steady
  <2> QED BY <1>9, <2>1, <2>2
<1>13. CASE Kind[N] = "assign"
  <2>1. EndAssign
    BY <1>1, <1>4, <1>5, <1>6, <1>13, NoTypedAssign DEF EvalShape, PlainOK
  <2>2. last'.ptr.kind = ClassOf(TypeIn(Top.scope, Var[N]))
    BY <1>1, <2>1, EndAssignFacts
  <2>3. PICK scope, x, y, c : /\ scope = g.scope /\ x = Var[g.n] /\ y = Var[f.n]
                              /\ c = <<g.n, g.scope>>
    OBVIOUS
  <2>4. last'.ptr.kind = ClassOf(TypeIn(scope, y))
    BY <1>3, <1>8, <1>11, <2>2, <2>3
  <2>5. ~g.typed
    BY <1>2, <1>8, <1>9, <1>11 DEF Pure
  <2>6. c \in populated /\ c \in checked /\ c[1] = g.n /\ c[2] = scope
    BY <1>1, <1>8, <1>9, <2>3, <2>5 DEF IInv, PassesOK, EvaluatedOK
  <2>7. HasBinding(scope, x) /\ scope \in Seq(Node) /\ HasType(scope, x)
    BY <1>11, <2>3, <2>6, CheckedTyped DEF IInv, PassesOK, PopulatedOK
  <2>8. HasBinding(scope, y)
    BY <1>3, <1>8, <1>11, <1>13, <2>3, TopAssign, <1>1
  <2>9. TypeIn(scope, x) = TypeIn(scope, y)
    BY <1>3, <1>8, <1>11, <1>13, <2>3, <2>6, <2>7, <2>8 DEF PlainOK, CascadesOK, Cascade
  <2>10. TypeIn(scope, x)' = TypeIn(scope, x)
    BY <1>1, <2>7, TypeSame
  <2>11. TypeIn(Top.scope, Var[N])' = TypeIn(scope, x)'
    BY <1>9, <2>3
  <2> QED BY <2>4, <2>9, <2>10, <2>11
<1> QED BY <1>12, <1>13

LEMMA SharedInductive ==
  ASSUME IInv, IInv', PlainOK, Advances, KeepsTypes, Next
  PROVE  SharedOK'
<1>1. CASE Populate \/ Check \/ StartCheck \/ EndCheck \/ EndEvaluate
  BY <1>1, NotEvaluating DEF SharedOK
<1>2. CASE Evaluate
  <2>1. PICK f : f = Frame(root, FALSE, << >>)
    OBVIOUS
  <2>2. f.n = root /\ Kind[root] = "block"
    BY <2>1, RootFacts DEF Frame, IInv, MachineOK, TypeOK
  <2>3. stk' = <<f>>
    BY <1>2, <2>1 DEF Evaluate
  <2>4. \A i \in 1..Len(stk') : stk'[i] = f
    BY <2>3, OneElement, Zenon
  <2> QED BY <2>2, <2>4 DEF SharedOK
<1>3. CASE Eval
  BY <1>3, EvalSteady, EvalTopShares, SharedWhole DEF IInv, MachineOK, TypeOK
<1> QED BY <1>1, <1>2, <1>3 DEF Next

-----------------------------------------------------------------------------
(***************************************************************************)
(* KindMatchesType, and the whole invariant.                               *)
(***************************************************************************)

\* A pass that rejects the tree leaves its tables alone.
LEMMA RejectKeeps ==
  ASSUME Check, phase' # "check"
  PROVE  UNCHANGED table
<1>1. /\ Reject => UNCHANGED table
      /\ Checked => phase' = phase
      /\ \A k, v : CheckChild(k, v) => phase' = phase
      /\ \A ty : Conclude(ty) => UNCHANGED table
  BY DEF Reject, Checked, CheckChild, Conclude
<1> QED BY <1>1 DEF Check, CheckStep, CheckLeaf, CheckUnary, CheckBinary, CheckEquals,
                    CheckAssign, CheckIf, CheckBlock

LEMMA MatchesInductive ==
  ASSUME IInv, IInv', PlainOK, Advances, Next
  PROVE  KindMatchesType'
<1>1. CASE UNCHANGED table
  BY <1>1 DEF PlainOK, KindMatchesType
<1>2. CASE phase' \in {"populate", "check"}
  BY <1>2 DEF IInv, TablesOK, EntriesOK, KindMatchesType
<1>3. CASE StartCheck \/ EndCheck \/ Evaluate \/ EndEvaluate
  BY <1>1, <1>3 DEF StartCheck, EndCheck, Evaluate, EndEvaluate
<1>4. CASE Populate
  BY <1>2, <1>4, PopulateShapes DEF IInv, TablesOK
<1>5. CASE Check
  BY <1>1, <1>2, <1>5, RejectKeeps
<1>6. CASE Eval
  <2>1. phase = "eval" /\ EvalShape /\ stk \in Seq(Frames) /\ nested \in Seq(Node)
    BY <1>6, EvaluatorHolds, EvalShapes DEF Eval, EvalStep, IInv, MachineOK, TypeOK
  <2>2. CASE EndTypedAssign
    BY <2>1, <2>2, NoTypedAssign DEF PlainOK
  <2>3. CASE EndAssign /\ phase' = "eval"
    <3>1. PICK ty, e, x : /\ ty = TypeIn(Top.scope, Var[N]) /\ x = Var[N]
                          /\ e = Entry(NewValue, TypeIn(Top.scope, Var[N]), TRUE)
      OBVIOUS
    <3>2. Set(x, e) /\ e.ptr.kind = ClassOf(e.type)
      BY <2>1, <2>3, <3>1, EndAssignFacts DEF Entry
    <3>3. UNCHANGED table \/ \E k : Replaces(k, e)
      BY <2>1, <3>2, SetFacts
    <3>4. ASSUME NEW k, Replaces(k, e) PROVE KindMatchesType'
      BY <3>2, <3>4 DEF Replaces, PlainOK, KindMatchesType
    <3> QED BY <1>1, <3>3, <3>4
  <2> QED BY <1>1, <2>1, <2>2, <2>3 DEF EvalShape
<1> QED BY <1>3, <1>4, <1>5, <1>6 DEF Next

LEMMA Stutter ==
  ASSUME PlainOK, UNCHANGED vars
  PROVE  PlainOK'
<1>1. UNCHANGED <<table, nested, phase, stk, curr, checked, vis, last>>
  BY DEF vars
<1>2. ASSUME NEW scope, NEW x
      PROVE  /\ HasBinding(scope, x)' <=> HasBinding(scope, x)
             /\ TypeIn(scope, x)' = TypeIn(scope, x)
  <2>1. \A b : (Bound(b, x)' <=> Bound(b, x)) /\ At(b, x)' = At(b, x)
    BY <1>1 DEF Bound, At
  <2>2. PICK i : i = Nearest(scope, x, FALSE)
    OBVIOUS
  <2>3. Nearest(scope, x, FALSE)' = i
    BY <2>1, <2>2, NearestSame, Zenon
  <2>4. TypeIn(scope, x)' = TypeIn(scope, x)
    BY <2>1, <2>2, <2>3 DEF TypeIn, LookupIn
  <2>5. HasBinding(scope, x)' <=> HasBinding(scope, x)
    BY <2>1 DEF HasBinding
  <2> QED BY <2>4, <2>5
<1>3. PureOK'
  BY <1>1 DEF PlainOK, PureOK
<1>4. AssignVisitsOK'
  <2>1. Owners' = Owners /\ \A i : Rank(i)' = Rank(i)
    BY <1>1 DEF Owners, Owns, Rank
  <2> QED BY <1>1, <1>2, <2>1 DEF PlainOK, AssignVisitsOK
<1>5. CascadesOK'
  <2>1. Top' = Top /\ N' = N /\ Kid(1)' = Kid(1)
    BY <1>1 DEF Top, N, Kid
  <2> QED BY <1>1, <1>2, <2>1 DEF PlainOK, CascadesOK, Cascade
<1>6. SharedOK'
  BY <1>1, <1>2 DEF PlainOK, SharedOK
<1>7. KindMatchesType'
  BY <1>1 DEF PlainOK, KindMatchesType
<1> QED BY <1>3, <1>4, <1>5, <1>6, <1>7 DEF PlainOK

LEMMA InitPlain ==
  ASSUME Init
  PROVE  PlainOK
BY DEF Init, PlainOK, PureOK, AssignVisitsOK, CascadesOK, SharedOK, KindMatchesType

LEMMA PlainInductive ==
  ASSUME IInv, IInv', PlainOK, [Next]_vars
  PROVE  PlainOK' /\ KeepsTypes
<1>1. KeepsTypes
  BY TypesKept
<1>2. Advances \/ UNCHANGED vars
  BY TablesInductive DEF IInv
<1>3. CASE UNCHANGED vars
  BY <1>1, <1>3, Stutter
<1>4. CASE Advances /\ Next
  <2>1. PureOK'
    BY PureInductive DEF IInv, PlainOK
  <2>2. AssignVisitsOK' /\ CascadesOK' /\ SharedOK' /\ KindMatchesType'
    BY <1>1, <1>4, AssignVisitsInductive, CascadesInductive, SharedInductive, MatchesInductive
  <2> QED BY <1>1, <2>1, <2>2 DEF PlainOK
<1> QED BY <1>2, <1>3, <1>4

(***************************************************************************)
(* The invariant of PlainScripts holds in every reachable state: what an   *)
(* assignment computes, shares and stores is of the type that the second   *)
(* pass gave its variable.                                                 *)
(***************************************************************************)
THEOREM Plain == Spec => []PlainInv
<1>1. Init => PlainOK
  BY InitPlain
<1>2. IInv /\ IInv' /\ PlainOK /\ [Next]_vars => PlainOK'
  BY PlainInductive
<1>3. IInv /\ PlainOK => PlainInv
  BY DEF PlainInv
<1> QED BY <1>1, <1>2, <1>3, Inductive, PTL DEF Spec

(***************************************************************************)
(* query (operations.cpp:68-77) may cast: the node of an evaluated entry   *)
(* is of the class that the entry's type names, cascades, shared           *)
(* constants, nested blocks and any number of evaluations included.        *)
(***************************************************************************)
THEOREM KindMatches == Spec => []KindMatchesType
<1>1. PlainInv => KindMatchesType
  BY DEF PlainInv, PlainOK
<1> QED BY <1>1, Plain, PTL

(***************************************************************************)
(* A variable keeps the type that it was first given                       *)
(* (type_checker.cpp:137-152, interpreter.cpp:314-352): no pass and no     *)
(* evaluation changes it.                                                  *)
(***************************************************************************)
THEOREM TypesNeverChanged == Spec => TypesNeverChange
<1> DEFINE A == \A k \in DOMAIN table : table[k].type # Undet => table'[k].type = table[k].type
<1>1. IInv /\ PlainOK /\ [Next]_vars => [A]_vars
  BY TypesKept DEF KeepsTypes
<1>2. PlainInv => IInv /\ PlainOK
  BY DEF PlainInv
<1> QED BY <1>1, <1>2, Plain, PTL DEF Spec, TypesNeverChange

=============================================================================
