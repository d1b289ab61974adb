--------------------------- MODULE LedgerTxProofs ---------------------------
(***************************************************************************)
(* BooksFollowRows and PrincipalInBooks for every set of overlapping       *)
(* sessions, whatever they pay, reverse and accrue.                        *)
(***************************************************************************)
EXTENDS LedgerTx, CommonLemmas

\* The rows and the copies of the sessions have their types, and a session in
\* flight is where its operation takes it.
Places == Open \cup {"start", "rejected", "failed", "done"}
LoanRow == [interest : Int, principal : Int, status : {Loan0.status, "paid_off"}]
PaymentRow == [num : Nat, interest : Int, principal : Int, status : {"posted", "reversed"}]
AccrualRow == [day : Nat, amount : Nat]
TypeInv ==
    /\ loan \in LoanRow
    /\ books \in [interest : Int, principal : Int]
    /\ payments \subseteq PaymentRow /\ IsFiniteSet(payments)
    /\ accruals \subseteq AccrualRow /\ IsFiniteSet(accruals)
    /\ reversals \subseteq Nat /\ IsFiniteSet(reversals)
    /\ entries \in Nat
    /\ pc \in [Sessions -> Places]
    /\ seen \in [Sessions -> LoanRow]
    /\ num \in [Sessions -> Nat]
    /\ overlap \in BOOLEAN

\* A key is the key of one row, committed or inserted and not committed yet.
Inserted == {s \in Sessions : pc[s] \in {"flush", "commit"}}
KeysInv ==
    /\ \A p, q \in payments : p.num = q.num => p = q
    /\ \A r, q \in accruals : r.day = q.day => r = q
    /\ \A s \in Inserted : ~KeyCommitted(s)
    /\ \A s, t \in Inserted : s # t /\ SameTable(s, t) => num[s] # num[t]

\* Without a reversal entry the payment is as it was at the start.
TargetInv == reversals = {} => Paid(Target) \in payments

\* While the books follow the rows, they are moved by whole rows.
BooksInv == ReversedOnce => BooksFollowRows

\* A session between the reading of the loan and its end.
Reading == {s \in Sessions : pc[s] \in Open \ {"loan"} /\ Op[s] # "accrue"}
PrincipalInv ==
    overlap \/ /\ \A s, t \in Reading : s = t
               /\ \A s \in Reading : seen[s].principal = loan.principal
               /\ loan.principal = books.principal

\* A single reversal is entered once.
ReverserInv ==
    reversals = {} \/ \E n \in reversals, s \in Sessions :
                           reversals = {n} /\ Op[s] = "reverse" /\ pc[s] = "done"

Inv == TypeInv /\ KeysInv /\ TargetInv /\ BooksInv /\ PrincipalInv

\* What the rows R hold in column b.
Total(R, b) == SumFunction([r \in R |-> r[b]])
Posted == {p \in payments : p.status = "posted"}

LEMMA TotalsOfRows ==
    /\ \A b : PostedPayments(b) = Total(Posted, b)
    /\ Accrued = Total(accruals, "amount")
  BY DEF PostedPayments, Accrued, Total, Posted

LEMMA TotalIsInt ==
    ASSUME NEW R, IsFiniteSet(R), NEW b, \A r \in R : r[b] \in Int
    PROVE  Total(R, b) \in Int
  <1> DEFINE f == [r \in R |-> r[b]]
  <1>1. Summable(f)
    BY DEF Summable
  <1>2. SumFunction(f) \in Int
    BY <1>1, SumIsInt
  <1> QED BY <1>2 DEF Total

\* A row more adds its amount.
LEMMA TotalOfOneMore ==
    ASSUME NEW R, IsFiniteSet(R), NEW b, \A r \in R : r[b] \in Int,
           NEW x, x \notin R, x[b] \in Int
    PROVE  Total(R \cup {x}, b) = Total(R, b) + x[b] /\ Total(R, b) \in Int
  <1> DEFINE f == [r \in R \cup {x} |-> r[b]]
             g == [r \in R |-> r[b]]
  <1>1. Summable(f)
    <2>1. IsFiniteSet(R \cup {x})
      BY FS_AddElement
    <2> QED BY <2>1 DEF Summable
  <1>2. x \in DOMAIN f /\ DOMAIN g = DOMAIN f \ {x} /\ \A y \in DOMAIN g : g[y] = f[y]
    OBVIOUS
  <1>3. f[x] = x[b]
    OBVIOUS
  <1>4. SumFunction(f) = Total(R \cup {x}, b) /\ SumFunction(g) = Total(R, b)
    BY DEF Total
  <1> HIDE DEF f, g
  <1>5. SumFunction(f) = f[x] + SumFunction(g)
    BY <1>1, <1>2, SumWithout
  <1>6. Total(R, b) \in Int
    BY TotalIsInt
  <1> QED BY <1>3, <1>4, <1>5, <1>6

(***************************************************************************)
(* What a session does to the loan, by its operation.                      *)
(***************************************************************************)
LEMMA AppliedTypes ==
    ASSUME TypeInv, NEW s \in Sessions
    PROVE  Applied(s) \in [interest : Int, principal : Int]
  <1>1. Amount[s] \in Int /\ seen[s].interest \in Int /\ seen[s].principal \in Int
    BY SessionsAssumption DEF TypeInv, LoanRow
  <1>2. SmallerOf(Amount[s], seen[s].interest) \in Int
    BY <1>1 DEF SmallerOf
  <1>3. SmallerOf(Amount[s] - SmallerOf(Amount[s], seen[s].interest), seen[s].principal) \in Int
    BY <1>1, <1>2 DEF SmallerOf
  <1> QED BY <1>2, <1>3 DEF Applied

LEMMA EffectTypes ==
    ASSUME TypeInv, NEW s \in Sessions
    PROVE  /\ Effect(s) \in [interest : Int, principal : Int]
           /\ Op[s] \in {"pay", "payoff"} =>
                /\ Effect(s).interest = -Applied(s).interest
                /\ Effect(s).principal = -Applied(s).principal
           /\ Op[s] = "reverse" => Effect(s) = Target
           /\ Op[s] = "accrue" => Effect(s).interest = Amount[s] /\ Effect(s).principal = 0
  <1>1. Op[s] \in Operations /\ Amount[s] \in Nat /\ Target \in [interest : Nat, principal : Nat]
    BY SessionsAssumption
  <1>2. CASE Op[s] \in {"pay", "payoff"}
    <2>1. Effect(s) = [interest |-> -Applied(s).interest, principal |-> -Applied(s).principal]
      BY <1>2 DEF Effect
    <2> QED BY <1>2, <2>1, AppliedTypes
  <1>3. CASE Op[s] = "reverse"
    BY <1>1, <1>3 DEF Effect
  <1>4. CASE Op[s] = "accrue"
    BY <1>1, <1>4 DEF Effect
  <1> QED BY <1>1, <1>2, <1>3, <1>4 DEF Operations

LEMMA KeyTypes ==
    ASSUME TypeInv, NEW s \in Sessions
    PROVE  NextKey(s) \in Nat
  <1>1. Op[s] \in Operations /\ AccrualDay[s] \in Nat
    BY SessionsAssumption
  <1>2. Cardinality(payments) \in Nat /\ entries \in Nat
    BY FS_CardinalityType DEF TypeInv
  <1>3. CASE Op[s] \in {"pay", "payoff"}
    BY <1>2, <1>3 DEF NextKey
  <1>4. CASE Op[s] = "reverse"
    BY <1>2, <1>4 DEF NextKey
  <1>5. CASE Op[s] = "accrue"
    BY <1>1, <1>5 DEF NextKey
  <1> QED BY <1>1, <1>3, <1>4, <1>5 DEF Operations

LEMMA KeysCommitted ==
    ASSUME NEW s \in Sessions
    PROVE  /\ Op[s] \in {"pay", "payoff"} =>
                KeyCommitted(s) = (\E p \in payments : p.num = num[s])
           /\ Op[s] = "reverse" => KeyCommitted(s) = (num[s] \in reversals)
           /\ Op[s] = "accrue" => KeyCommitted(s) = (\E r \in accruals : r.day = num[s])
  BY DEF KeyCommitted, AccruedOn

-----------------------------------------------------------------------------
LEMMA InitHolds == Init => Inv /\ ReverserInv
  <1> SUFFICES ASSUME Init PROVE Inv /\ ReverserInv
    OBVIOUS
  <1>0. /\ Target \in [interest : Nat, principal : Nat]
        /\ Loan0 \in [interest : Nat, principal : Nat, status : STRING]
    BY SessionsAssumption
  <1>1. Paid(Target) \in PaymentRow
    BY <1>0 DEF Paid, PaymentRow
  <1>2. IsFiniteSet(payments) /\ IsFiniteSet(accruals) /\ IsFiniteSet(reversals)
    BY FS_Singleton, FS_EmptySet DEF Init
  <1>3. TypeInv
    <2>1. loan \in LoanRow /\ books \in [interest : Int, principal : Int]
      BY <1>0 DEF Init, LoanRow
    <2>2. /\ payments \subseteq PaymentRow /\ accruals \subseteq AccrualRow
          /\ reversals \subseteq Nat /\ entries \in Nat /\ overlap \in BOOLEAN
      BY <1>1 DEF Init
    <2>3. pc \in [Sessions -> Places] /\ num \in [Sessions -> Nat]
      <3>1. pc = [s \in Sessions |-> "start"] /\ num = [s \in Sessions |-> 0]
        BY DEF Init
      <3>2. "start" \in Places /\ 0 \in Nat
        BY DEF Places
      <3> QED BY <3>1, <3>2
    <2>4. seen \in [Sessions -> LoanRow]
      BY <1>0 DEF Init, LoanRow
    <2> QED BY <1>2, <2>1, <2>2, <2>3, <2>4 DEF TypeInv
  <1>4. KeysInv
    BY DEF Init, KeysInv, Inserted
  <1>5. BooksFollowRows
    <2>1. ASSUME NEW b \in {"interest", "principal"}
          PROVE  PostedPayments(b) = Target[b]
      <3> DEFINE f == [p \in Posted |-> p[b]]
      <3>1. Posted = {Paid(Target)}
        BY DEF Init, Posted, Paid
      <3>2. Paid(Target)[b] = Target[b] /\ Target[b] \in Int
        BY <1>0 DEF Paid
      <3>3. DOMAIN f = {Paid(Target)} /\ f[Paid(Target)] = Target[b]
        BY <3>1, <3>2
      <3>4. PostedPayments(b) = SumFunction(f)
        BY DEF PostedPayments, Posted
      <3> HIDE DEF f
      <3>5. SumFunction(f) = Target[b]
        BY <3>2, <3>3, SumOfOne
      <3> QED BY <3>4, <3>5
    <2>2. Accrued = 0
      <3>1. DOMAIN [r \in accruals |-> r.amount] = {}
        BY DEF Init
      <3> QED BY <3>1, SumOfNone DEF Accrued
    <2>3. PostedPayments("interest") = Target.interest /\ PostedPayments("principal") = Target.principal
      BY <2>1
    <2> QED BY <1>0, <2>2, <2>3 DEF Init, BooksFollowRows
  <1>6. TargetInv /\ BooksInv /\ ReverserInv
    BY <1>5 DEF Init, TargetInv, BooksInv, ReverserInv
  <1>7. PrincipalInv
    BY DEF Init, PrincipalInv, Reading, Open
  <1> QED BY <1>3, <1>4, <1>6, <1>7 DEF Inv

(***************************************************************************)
(* The steps that commit nothing.                                          *)
(***************************************************************************)
\* The other sessions stay where they are.
OthersStay(s) ==
    \A t \in Sessions \ {s} : pc'[t] = pc[t] /\ seen'[t] = seen[t] /\ num'[t] = num[t]

LEMMA Goes ==
    ASSUME TypeInv, NEW s \in Sessions, NEW place \in Places, Goto(s, place)
    PROVE  /\ pc' \in [Sessions -> Places]
           /\ seen' \in [Sessions -> LoanRow]
           /\ num' \in [Sessions -> Nat]
           /\ pc'[s] = place /\ OthersStay(s)
           /\ place \in Open => seen'[s] = seen[s] /\ num'[s] = num[s]
  <1>0. Loan0 \in LoanRow
    BY SessionsAssumption DEF LoanRow
  <1>1. pc' \in [Sessions -> Places] /\ pc'[s] = place /\ \A t \in Sessions \ {s} : pc'[t] = pc[t]
    BY DEF Goto, TypeInv
  <1>2. CASE place \in Open
    BY <1>1, <1>2 DEF Goto, TypeInv, OthersStay
  <1>3. CASE place \notin Open
    <2>1. seen' = [seen EXCEPT ![s] = Loan0] /\ num' = [num EXCEPT ![s] = 0]
      BY <1>3 DEF Goto
    <2>2. seen' \in [Sessions -> LoanRow] /\ \A t \in Sessions \ {s} : seen'[t] = seen[t]
      BY <1>0, <2>1 DEF TypeInv
    <2>3. num' \in [Sessions -> Nat] /\ \A t \in Sessions \ {s} : num'[t] = num[t]
      BY <2>1 DEF TypeInv
    <2> QED BY <1>1, <1>3, <2>2, <2>3 DEF OthersStay
  <1> QED BY <1>2, <1>3

\* What a session has to see to when it moves alone and commits nothing.
LEMMA MovesAlone ==
    ASSUME Inv, NEW s \in Sessions, UNCHANGED committed, OthersStay(s), pc[s] # "done",
           pc' \in [Sessions -> Places], seen' \in [Sessions -> LoanRow],
           num' \in [Sessions -> Nat], overlap' \in BOOLEAN, overlap => overlap',
           s \in Inserted' =>
             ~KeyCommitted(s)' /\ \A t \in Inserted \ {s} : SameTable(s, t) => num[t] # num'[s],
           s \in Reading' /\ ~overlap' =>
             Reading \subseteq {s} /\ seen'[s].principal = loan.principal
    PROVE  Inv' /\ (ReverserInv => ReverserInv')
  <1>0. TypeInv /\ KeysInv /\ TargetInv /\ BooksInv /\ PrincipalInv
    BY DEF Inv
  <1>c. /\ loan' = loan /\ books' = books /\ payments' = payments /\ reversals' = reversals
        /\ entries' = entries /\ accruals' = accruals
    BY DEF committed
  <1>1. TypeInv'
    BY <1>0, <1>c DEF TypeInv
  <1>2. KeysInv'
    <2>1. ASSUME NEW t \in Sessions \ {s} PROVE KeyCommitted(t)' = KeyCommitted(t)
      BY <1>c DEF OthersStay, KeyCommitted, AccruedOn
    <2>2. \A t \in Sessions \ {s} : t \in Inserted' <=> t \in Inserted
      BY DEF Inserted, OthersStay
    <2>3. \A t \in Inserted' : ~KeyCommitted(t)'
      <3> TAKE t \in Inserted'
      <3>1. CASE t = s
        BY <3>1
      <3>2. CASE t # s
        <4>1. t \in Inserted /\ t \in Sessions \ {s}
          BY <2>2, <3>2 DEF Inserted
        <4> QED BY <1>0, <2>1, <4>1 DEF KeysInv
      <3> QED BY <3>1, <3>2
    <2>4. \A t, u \in Inserted' : t # u /\ SameTable(t, u) => num'[t] # num'[u]
      <3> SUFFICES ASSUME NEW t \in Inserted', NEW u \in Inserted', t # u, SameTable(t, u)
                   PROVE  num'[t] # num'[u]
        OBVIOUS
      <3>1. t \in Sessions /\ u \in Sessions /\ SameTable(u, t)
        BY DEF Inserted, SameTable
      <3>2. CASE t # s /\ u # s
        BY <1>0, <2>2, <3>1, <3>2 DEF KeysInv, OthersStay
      <3>3. CASE t = s
        BY <2>2, <3>1, <3>3 DEF OthersStay
      <3>4. CASE u = s
        BY <2>2, <3>1, <3>4 DEF OthersStay
      <3> QED BY <3>2, <3>3, <3>4
    <2>5. /\ \A p, q \in payments' : p.num = q.num => p = q
          /\ \A r, q \in accruals' : r.day = q.day => r = q
      BY <1>0, <1>c DEF KeysInv
    <2> QED BY <2>3, <2>4, <2>5 DEF KeysInv
  <1>3. TargetInv' /\ BooksInv'
    BY <1>0, <1>c DEF TargetInv, BooksInv, ReversedOnce, BooksFollowRows, PostedPayments, Accrued
  <1>4. PrincipalInv'
    <2>1. \A t \in Sessions \ {s} : t \in Reading' <=> t \in Reading
      BY DEF Reading, OthersStay
    <2>2. Reading \subseteq Sessions /\ Reading' \subseteq Sessions
      BY DEF Reading
    <2>3. CASE ~overlap' /\ s \in Reading'
      <3>1. \A t \in Reading' : t = s
        BY <2>1, <2>2, <2>3
      <3> QED BY <1>0, <1>c, <2>3, <3>1 DEF PrincipalInv
    <2>4. CASE ~overlap' /\ s \notin Reading'
      <3>1. \A t \in Reading' : t \in Reading /\ t \in Sessions \ {s}
        BY <2>1, <2>2, <2>4
      <3> QED BY <1>0, <1>c, <2>4, <3>1 DEF PrincipalInv, OthersStay
    <2> QED BY <2>3, <2>4 DEF PrincipalInv
  <1>5. ReverserInv => ReverserInv'
    <2> SUFFICES ASSUME ReverserInv, reversals # {} PROVE ReverserInv'
      BY <1>c DEF ReverserInv
    <2>1. PICK n \in reversals, t \in Sessions :
                 reversals = {n} /\ Op[t] = "reverse" /\ pc[t] = "done"
      BY DEF ReverserInv
    <2>2. pc'[t] = "done"
      BY <2>1 DEF OthersStay
    <2> QED BY <1>c, <2>1, <2>2 DEF ReverserInv
  <1> QED BY <1>1, <1>2, <1>3, <1>4, <1>5 DEF Inv

\* A session that leaves the flight, or waits to read the loan.
LEMMA GoesOut ==
    ASSUME Inv, NEW s \in Sessions, NEW place \in {"loan", "rejected", "failed", "done"},
           Goto(s, place), UNCHANGED committed, pc[s] # "done",
           overlap' \in BOOLEAN, overlap => overlap'
    PROVE  Inv' /\ (ReverserInv => ReverserInv')
  <1>0. TypeInv /\ place \in Places
    BY DEF Inv, Places, Open
  <1>1. /\ pc' \in [Sessions -> Places] /\ seen' \in [Sessions -> LoanRow]
        /\ num' \in [Sessions -> Nat] /\ pc'[s] = place /\ OthersStay(s)
    BY <1>0, Goes
  <1>2. s \notin Inserted' /\ s \notin Reading'
    BY <1>1 DEF Inserted, Reading, Open
  <1> QED BY <1>1, <1>2, MovesAlone

LEMMA ReadPaymentKeeps ==
    ASSUME Inv, NEW s \in Sessions, ReadPayment(s)
    PROVE  Inv' /\ (ReverserInv => ReverserInv')
  <1>1. PICK place \in {"loan", "rejected"} : Goto(s, place)
    BY DEF ReadPayment
  <1>2. UNCHANGED committed /\ overlap' = overlap /\ pc[s] # "done" /\ overlap \in BOOLEAN
    BY DEF ReadPayment, Inv, TypeInv
  <1> QED BY <1>1, <1>2, GoesOut

LEMMA ReadLoanKeeps ==
    ASSUME Inv, NEW s \in Sessions, ReadLoan(s)
    PROVE  Inv' /\ (ReverserInv => ReverserInv')
  <1>0. /\ UNCHANGED committed /\ pc[s] \in {"loan", "start"}
        /\ overlap' = (overlap \/ (Op[s] # "accrue" /\ PrincipalWriters \ {s} # {}))
    BY DEF ReadLoan
  <1>1. overlap' \in BOOLEAN /\ (overlap => overlap')
    BY <1>0 DEF Inv, TypeInv
  <1>2. CASE ~Accepted(s)
    <2>1. Goto(s, "rejected")
      BY <1>2 DEF ReadLoan
    <2> QED BY <1>0, <1>1, <2>1, GoesOut
  <1>3. CASE Accepted(s)
    <2>1. PICK place \in {"entries", "number"} : pc' = [pc EXCEPT ![s] = place]
      BY <1>3 DEF ReadLoan
    <2>2. seen' = [seen EXCEPT ![s] = loan] /\ num' = num
      BY <1>3 DEF ReadLoan
    <2>3. TypeInv
      BY DEF Inv
    <2>4. pc' \in [Sessions -> Places] /\ pc'[s] = place /\ \A t \in Sessions \ {s} : pc'[t] = pc[t]
      BY <2>1, <2>3 DEF TypeInv, Places, Open
    <2>5. /\ seen' \in [Sessions -> LoanRow] /\ seen'[s] = loan
          /\ \A t \in Sessions \ {s} : seen'[t] = seen[t]
      BY <2>2, <2>3 DEF TypeInv
    <2>6. num' \in [Sessions -> Nat] /\ OthersStay(s)
      BY <2>2, <2>3, <2>4, <2>5 DEF TypeInv, OthersStay
    <2>7. s \notin Inserted'
      BY <2>4 DEF Inserted
    <2>8. ASSUME s \in Reading', ~overlap' PROVE Reading \subseteq {s}
      <3>1. Op[s] # "accrue" /\ PrincipalWriters \subseteq {s}
        BY <1>0, <2>8 DEF Reading
      <3>2. Reading \subseteq PrincipalWriters
        BY DEF Reading, PrincipalWriters
      <3> QED BY <3>1, <3>2
    <2> QED BY <1>0, <1>1, <2>4, <2>5, <2>6, <2>7, <2>8, MovesAlone
  <1> QED BY <1>2, <1>3

\* A session in flight that goes on keeps what it has read.
LEMMA GoesOn ==
    ASSUME Inv, NEW s \in Sessions, NEW place \in Open \ {"loan"}, pc[s] \in Open \ {"loan"},
           pc' = [pc EXCEPT ![s] = place], seen' = seen, num' \in [Sessions -> Nat],
           \A t \in Sessions \ {s} : num'[t] = num[t],
           UNCHANGED <<committed, overlap>>,
           place \in {"flush", "commit"} =>
             /\ num'[s] = num[s] /\ ~KeyCommitted(s)
             /\ \A t \in Inserted \ {s} : SameTable(s, t) => num[t] # num[s]
    PROVE  Inv' /\ (ReverserInv => ReverserInv')
  <1>0. TypeInv /\ PrincipalInv
    BY DEF Inv
  <1>1. /\ pc' \in [Sessions -> Places] /\ pc'[s] = place
        /\ \A t \in Sessions \ {s} : pc'[t] = pc[t]
    BY <1>0 DEF TypeInv, Places
  <1>2. seen' \in [Sessions -> LoanRow] /\ OthersStay(s) /\ overlap' \in BOOLEAN
    BY <1>0, <1>1 DEF TypeInv, OthersStay
  <1>3. ASSUME s \in Inserted'
        PROVE  ~KeyCommitted(s)' /\ \A t \in Inserted \ {s} : SameTable(s, t) => num[t] # num'[s]
    <2>1. place \in {"flush", "commit"}
      BY <1>1, <1>3 DEF Inserted
    <2>2. KeyCommitted(s)' = KeyCommitted(s)
      BY <2>1 DEF KeyCommitted, AccruedOn, committed
    <2> QED BY <2>1, <2>2
  <1>4. ASSUME s \in Reading', ~overlap'
        PROVE  Reading \subseteq {s} /\ seen'[s].principal = loan.principal
    <2>1. s \in Reading /\ ~overlap
      BY <1>4 DEF Reading
    <2> QED BY <1>0, <2>1 DEF PrincipalInv
  <1>5. pc[s] # "done" /\ UNCHANGED committed /\ (overlap => overlap')
    BY DEF Open
  <1> QED BY <1>1, <1>2, <1>3, <1>4, <1>5, MovesAlone

LEMMA ReadEntriesKeeps ==
    ASSUME Inv, NEW s \in Sessions, ReadEntries(s)
    PROVE  Inv' /\ (ReverserInv => ReverserInv')
  <1>0. UNCHANGED <<committed, overlap>> /\ pc[s] = "entries" /\ TypeInv
    BY DEF ReadEntries, Inv
  <1>1. CASE TargetPosted
    <2>1. Goto(s, "number")
      BY <1>1 DEF ReadEntries
    <2>2. pc' = [pc EXCEPT ![s] = "number"] /\ seen' = seen /\ num' = num
      BY <2>1 DEF Goto, Open
    <2>3. num' \in [Sessions -> Nat] /\ \A t \in Sessions \ {s} : num'[t] = num[t]
      BY <1>0, <2>2 DEF TypeInv
    <2>4. pc[s] \in Open \ {"loan"} /\ "number" \in Open \ {"loan"}
      BY <1>0 DEF Open
    <2> QED BY <1>0, <2>2, <2>3, <2>4, GoesOn
  <1>2. CASE ~TargetPosted
    <2>1. Goto(s, "rejected")
      BY <1>2 DEF ReadEntries
    <2>2. overlap' \in BOOLEAN /\ (overlap => overlap') /\ pc[s] # "done" /\ UNCHANGED committed
      BY <1>0 DEF TypeInv
    <2> QED BY <2>1, <2>2, GoesOut
  <1> QED BY <1>1, <1>2

LEMMA DrawNumberKeeps ==
    ASSUME Inv, NEW s \in Sessions, DrawNumber(s)
    PROVE  Inv' /\ (ReverserInv => ReverserInv')
  <1>0. UNCHANGED <<committed, overlap>> /\ pc[s] = "number" /\ TypeInv
    BY DEF DrawNumber, Inv
  <1>1. CASE Op[s] = "accrue" /\ AccruedOn(AccrualDay[s])
    <2>1. Goto(s, "done")
      BY <1>1 DEF DrawNumber
    <2>2. overlap' \in BOOLEAN /\ (overlap => overlap') /\ pc[s] # "done" /\ UNCHANGED committed
      BY <1>0 DEF TypeInv
    <2> QED BY <2>1, <2>2, GoesOut
  <1>2. CASE ~(Op[s] = "accrue" /\ AccruedOn(AccrualDay[s]))
    <2>1. num' = [num EXCEPT ![s] = NextKey(s)] /\ pc' = [pc EXCEPT ![s] = "insert"] /\ seen' = seen
      BY <1>2 DEF DrawNumber
    <2>2. num' \in [Sessions -> Nat] /\ \A t \in Sessions \ {s} : num'[t] = num[t]
      BY <1>0, <2>1, KeyTypes DEF TypeInv
    <2>3. pc[s] \in Open \ {"loan"} /\ "insert" \in Open \ {"loan"}
      BY <1>0 DEF Open
    <2> QED BY <1>0, <2>1, <2>2, <2>3, GoesOn
  <1> QED BY <1>1, <1>2

LEMMA InsertKeeps ==
    ASSUME Inv, NEW s \in Sessions, Insert(s)
    PROVE  Inv' /\ (ReverserInv => ReverserInv')
  <1>0. UNCHANGED <<committed, overlap>> /\ pc[s] = "insert" /\ TypeInv
    BY DEF Insert, Inv
  <1>1. CASE KeyCommitted(s)
    <2>1. Goto(s, "failed")
      BY <1>1 DEF Insert
    <2>2. overlap' \in BOOLEAN /\ (overlap => overlap') /\ pc[s] # "done" /\ UNCHANGED committed
      BY <1>0 DEF TypeInv
    <2> QED BY <2>1, <2>2, GoesOut
  <1>2. CASE ~KeyCommitted(s)
    <2>1. Goto(s, "flush")
      BY <1>2 DEF Insert
    <2>2. pc' = [pc EXCEPT ![s] = "flush"] /\ seen' = seen /\ num' = num
      BY <2>1 DEF Goto, Open
    <2>3. num' \in [Sessions -> Nat] /\ \A t \in Sessions : num'[t] = num[t]
      BY <1>0, <2>2 DEF TypeInv
    <2>4. \A t \in Inserted \ {s} : SameTable(s, t) => num[t] # num[s]
      BY DEF Insert, Inserted
    <2>5. pc[s] \in Open \ {"loan"} /\ "flush" \in Open \ {"loan"}
      BY <1>0 DEF Open
    <2> QED BY <1>0, <1>2, <2>2, <2>3, <2>4, <2>5, GoesOn
  <1> QED BY <1>1, <1>2

LEMMA FlushKeeps ==
    ASSUME Inv, NEW s \in Sessions, Flush(s)
    PROVE  Inv' /\ (ReverserInv => ReverserInv')
  <1>0. UNCHANGED <<committed, overlap>> /\ pc[s] = "flush" /\ TypeInv /\ KeysInv
    BY DEF Flush, Inv
  <1>1. pc' = [pc EXCEPT ![s] = "commit"] /\ seen' = seen /\ num' = num
    BY DEF Flush, Goto, Open
  <1>2. num' \in [Sessions -> Nat] /\ \A t \in Sessions : num'[t] = num[t]
    BY <1>0, <1>1 DEF TypeInv
  <1>3. s \in Inserted /\ \A t, u : SameTable(t, u) => SameTable(u, t)
    BY <1>0 DEF Inserted, SameTable
  <1>4. ~KeyCommitted(s) /\ \A t \in Inserted \ {s} : SameTable(s, t) => num[t] # num[s]
    BY <1>0, <1>3 DEF KeysInv
  <1>5. pc[s] \in Open \ {"loan"} /\ "commit" \in Open \ {"loan"}
    BY <1>0 DEF Open
  <1> QED BY <1>0, <1>1, <1>2, <1>4, <1>5, GoesOn

LEMMA FailKeeps ==
    ASSUME Inv, NEW s \in Sessions, Fail(s)
    PROVE  Inv' /\ (ReverserInv => ReverserInv')
  <1>1. Goto(s, "failed") /\ UNCHANGED <<committed, overlap>> /\ pc[s] # "done"
    BY DEF Fail, Open
  <1>2. overlap' \in BOOLEAN /\ (overlap => overlap') /\ UNCHANGED committed
    BY <1>1 DEF Inv, TypeInv
  <1> QED BY <1>1, <1>2, GoesOut

(***************************************************************************)
(* The step that commits: what it adds to the rows, by operation.          *)
(***************************************************************************)
PaidNow(s) == [num |-> num[s], interest |-> Applied(s).interest,
               principal |-> Applied(s).principal, status |-> "posted"]
Reversed(p) == IF p.num = 1 THEN [p EXCEPT !.status = "reversed"] ELSE p
AccruedNow(s) == [day |-> num[s], amount |-> Amount[s]]

LEMMA CommitsByOperation ==
    ASSUME NEW s \in Sessions, Commit(s)
    PROVE  /\ Op[s] \in {"pay", "payoff"} =>
                /\ payments' = payments \cup {PaidNow(s)}
                /\ UNCHANGED <<reversals, accruals>>
           /\ Op[s] = "reverse" =>
                /\ payments' = {Reversed(p) : p \in payments}
                /\ reversals' = reversals \cup {num[s]} /\ accruals' = accruals
           /\ Op[s] = "accrue" =>
                /\ UNCHANGED <<payments, reversals>>
                /\ accruals' = accruals \cup {AccruedNow(s)}
  BY DEF Commit, PaidNow, Reversed, AccruedNow

\* The rows have unique keys, and those are the ones of the table and of the
\* session that commits.
RowsOf(s) ==
    /\ payments' \subseteq PaymentRow /\ IsFiniteSet(payments')
    /\ accruals' \subseteq AccrualRow /\ IsFiniteSet(accruals')
    /\ reversals' \subseteq Nat /\ IsFiniteSet(reversals')
    /\ \A p, q \in payments' : p.num = q.num => p = q
    /\ \A r, q \in accruals' : r.day = q.day => r = q
    /\ \A p \in payments' :
         (Op[s] \in {"pay", "payoff"} /\ p.num = num[s]) \/ \E q \in payments : q.num = p.num
    /\ \A r \in accruals' : (Op[s] = "accrue" /\ r.day = num[s]) \/ r \in accruals
    /\ \A n \in reversals' : (Op[s] = "reverse" /\ n = num[s]) \/ n \in reversals

LEMMA PaymentRows ==
    ASSUME Inv, NEW s \in Sessions, Commit(s), Op[s] \in {"pay", "payoff"}
    PROVE  /\ PaidNow(s) \in PaymentRow /\ PaidNow(s) \notin payments
           /\ RowsOf(s)
  <1>0. TypeInv /\ KeysInv /\ s \in Inserted
    BY DEF Inv, Commit, Inserted
  <1>1. \A p \in payments : p.num # num[s]
    BY <1>0, KeysCommitted DEF KeysInv
  <1>2. PaidNow(s) \in PaymentRow /\ PaidNow(s).num = num[s]
    BY <1>0, AppliedTypes DEF PaidNow, PaymentRow, TypeInv
  <1>3. payments' = payments \cup {PaidNow(s)} /\ reversals' = reversals /\ accruals' = accruals
    BY CommitsByOperation
  <1> DEFINE x == PaidNow(s)
  <1> HIDE DEF x
  <1>4. payments' = payments \cup {x} /\ x \in PaymentRow /\ x.num = num[s]
    BY <1>2, <1>3 DEF x
  <1>5. IsFiniteSet(payments') /\ payments' \subseteq PaymentRow
    BY <1>0, <1>4, FS_AddElement DEF TypeInv
  <1>6. \A p, q \in payments' : p.num = q.num => p = q
    BY <1>0, <1>1, <1>4 DEF KeysInv
  <1>7. \A p \in payments' : p.num = num[s] \/ \E q \in payments : q.num = p.num
    BY <1>4
  <1>8. x \notin payments
    BY <1>1, <1>4
  <1> QED BY <1>0, <1>3, <1>4, <1>5, <1>6, <1>7, <1>8 DEF RowsOf, TypeInv, KeysInv, x

LEMMA ReversalRows ==
    ASSUME Inv, NEW s \in Sessions, Commit(s), Op[s] = "reverse"
    PROVE  RowsOf(s) /\ num[s] \notin reversals
  <1>0. TypeInv /\ KeysInv /\ s \in Inserted
    BY DEF Inv, Commit, Inserted
  <1>1. num[s] \notin reversals /\ num[s] \in Nat
    BY <1>0, KeysCommitted DEF KeysInv, TypeInv
  <1>2. /\ payments' = {Reversed(p) : p \in payments}
        /\ reversals' = reversals \cup {num[s]} /\ accruals' = accruals
    BY CommitsByOperation
  <1>3. \A p \in payments : Reversed(p) \in PaymentRow /\ Reversed(p).num = p.num
    BY <1>0 DEF Reversed, PaymentRow, TypeInv
  <1>4. IsFiniteSet(payments')
    <2> DEFINE f == [p \in payments |-> Reversed(p)]
    <2>1. f \in Surjection(payments, payments')
      BY <1>2 DEF Surjection
    <2> HIDE DEF f
    <2> QED BY <1>0, <2>1, FS_Surjection DEF TypeInv
  <1>5. payments' \subseteq PaymentRow
    BY <1>2, <1>3
  <1>6. \A p, q \in payments' : p.num = q.num => p = q
    BY <1>0, <1>2, <1>3 DEF KeysInv
  <1>7. \A p \in payments' : \E q \in payments : q.num = p.num
    BY <1>2, <1>3
  <1>8. reversals' \subseteq Nat /\ IsFiniteSet(reversals')
    BY <1>0, <1>1, <1>2, FS_AddElement DEF TypeInv
  <1>9. \A n \in reversals' : n = num[s] \/ n \in reversals
    BY <1>2
  <1> QED BY <1>0, <1>1, <1>2, <1>4, <1>5, <1>6, <1>7, <1>8, <1>9 DEF RowsOf, TypeInv, KeysInv

LEMMA AccrualRows ==
    ASSUME Inv, NEW s \in Sessions, Commit(s), Op[s] = "accrue"
    PROVE  RowsOf(s) /\ AccruedNow(s) \notin accruals
  <1>0. TypeInv /\ KeysInv /\ s \in Inserted
    BY DEF Inv, Commit, Inserted
  <1>1. \A r \in accruals : r.day # num[s]
    BY <1>0, KeysCommitted DEF KeysInv
  <1> DEFINE x == AccruedNow(s)
  <1>2. x \in AccrualRow /\ x.day = num[s]
    BY <1>0, SessionsAssumption DEF AccruedNow, AccrualRow, TypeInv
  <1>3. accruals' = accruals \cup {x} /\ payments' = payments /\ reversals' = reversals
    BY CommitsByOperation
  <1> HIDE DEF x
  <1>4. IsFiniteSet(accruals') /\ accruals' \subseteq AccrualRow
    BY <1>0, <1>2, <1>3, FS_AddElement DEF TypeInv
  <1>5. \A r, q \in accruals' : r.day = q.day => r = q
    BY <1>0, <1>1, <1>2, <1>3 DEF KeysInv
  <1>6. x \notin accruals /\ \A r \in accruals' : r.day = num[s] \/ r \in accruals
    BY <1>1, <1>2, <1>3
  <1> QED BY <1>0, <1>3, <1>4, <1>5, <1>6 DEF RowsOf, TypeInv, KeysInv, x

LEMMA RowsKept ==
    ASSUME Inv, NEW s \in Sessions, Commit(s)
    PROVE  RowsOf(s)
  <1>1. Op[s] \in Operations
    BY SessionsAssumption
  <1> QED BY <1>1, PaymentRows, ReversalRows, AccrualRows DEF Operations

\* The posted payments and the accruals in total, after a commit of each kind.
LEMMA PaymentTotals ==
    ASSUME Inv, NEW s \in Sessions, Commit(s), Op[s] \in {"pay", "payoff"},
           NEW b \in {"interest", "principal"}
    PROVE  /\ PostedPayments(b)' = PostedPayments(b) - Effect(s)[b] /\ PostedPayments(b) \in Int
           /\ Accrued' = Accrued
  <1>0. TypeInv /\ payments' = payments \cup {PaidNow(s)} /\ accruals' = accruals
    BY CommitsByOperation DEF Inv
  <1> DEFINE x == PaidNow(s)
  <1>1. x \in PaymentRow /\ x \notin payments /\ x.status = "posted"
    BY PaymentRows DEF PaidNow
  <1>2. x[b] = Applied(s)[b] /\ Applied(s)[b] \in Int /\ Effect(s)[b] = -Applied(s)[b]
    BY <1>0, AppliedTypes, EffectTypes DEF PaidNow
  <1> HIDE DEF x
  <1>3. Posted' = Posted \cup {x} /\ x \notin Posted
    BY <1>0, <1>1 DEF Posted, x
  <1>4. IsFiniteSet(Posted) /\ \A p \in Posted : p[b] \in Int
    <2>1. Posted \subseteq payments /\ payments \subseteq PaymentRow /\ IsFiniteSet(payments)
      BY <1>0 DEF Posted, TypeInv
    <2> QED BY <2>1, FS_Subset DEF PaymentRow
  <1>5. Total(Posted \cup {x}, b) = Total(Posted, b) + x[b] /\ Total(Posted, b) \in Int
    BY <1>2, <1>3, <1>4, TotalOfOneMore
  <1>6. PostedPayments(b)' = Total(Posted \cup {x}, b)
    BY <1>3 DEF PostedPayments, Total, Posted
  <1>7. PostedPayments(b) = Total(Posted, b)
    BY TotalsOfRows
  <1>8. Accrued' = Accrued
    BY <1>0 DEF Accrued
  <1> QED BY <1>2, <1>5, <1>6, <1>7, <1>8

LEMMA ReversalTotals ==
    ASSUME Inv, NEW s \in Sessions, Commit(s), Op[s] = "reverse", Paid(Target) \in payments,
           NEW b \in {"interest", "principal"}
    PROVE  /\ PostedPayments(b)' = PostedPayments(b) - Effect(s)[b] /\ PostedPayments(b)' \in Int
           /\ Accrued' = Accrued
  <1>0. TypeInv /\ KeysInv /\ accruals' = accruals /\ payments' = {Reversed(p) : p \in payments}
    BY CommitsByOperation DEF Inv
  <1> DEFINE x == Paid(Target)
  <1>1. /\ x.num = 1 /\ x.status = "posted" /\ x[b] = Target[b] /\ Effect(s) = Target
        /\ Target[b] \in Int
    BY <1>0, EffectTypes, SessionsAssumption DEF Paid
  <1> HIDE DEF x
  <1>x. x \in payments
    BY DEF x
  <1>2. \A p \in payments : p.num = 1 => p = x
    BY <1>0, <1>1, <1>x DEF KeysInv
  <1>3. \A p \in payments : IF p = x THEN Reversed(p).status = "reversed" ELSE Reversed(p) = p
    BY <1>0, <1>1, <1>2 DEF Reversed, TypeInv, PaymentRow
  <1>4. Posted = Posted' \cup {x} /\ x \notin Posted'
    <2>1. ASSUME NEW p \in Posted' PROVE p \in Posted /\ p # x
      <3>1. PICK q \in payments : p = Reversed(q) /\ p.status = "posted"
        BY <1>0 DEF Posted
      <3>2. q # x
        BY <1>3, <3>1
      <3> QED BY <1>3, <3>1, <3>2 DEF Posted
    <2>2. ASSUME NEW p \in Posted, p # x PROVE p \in Posted'
      <3>1. p \in payments /\ Reversed(p) = p /\ p.status = "posted"
        BY <1>3, <2>2 DEF Posted
      <3> QED BY <1>0, <3>1 DEF Posted
    <2>3. x \in Posted
      BY <1>1, <1>x DEF Posted
    <2> QED BY <2>1, <2>2, <2>3
  <1>5. IsFiniteSet(Posted') /\ \A p \in Posted' : p[b] \in Int
    <2>1. /\ Posted \subseteq payments /\ payments \subseteq PaymentRow /\ IsFiniteSet(payments)
          /\ Posted' \subseteq Posted
      BY <1>0, <1>4 DEF Posted, TypeInv
    <2> QED BY <2>1, FS_Subset DEF PaymentRow
  <1> DEFINE R == Posted'
  <1>6. PostedPayments(b)' = Total(R, b)
    BY DEF PostedPayments, Total, Posted
  <1>7. PostedPayments(b) = Total(R \cup {x}, b)
    BY <1>4, TotalsOfRows
  <1>8. IsFiniteSet(R) /\ (\A p \in R : p[b] \in Int) /\ x \notin R
    BY <1>4, <1>5
  <1> HIDE DEF R
  <1>9. Total(R \cup {x}, b) = Total(R, b) + x[b] /\ Total(R, b) \in Int
    BY <1>1, <1>8, TotalOfOneMore
  <1>10. Accrued' = Accrued
    BY <1>0 DEF Accrued
  <1> QED BY <1>1, <1>6, <1>7, <1>9, <1>10

LEMMA AccrualTotals ==
    ASSUME Inv, NEW s \in Sessions, Commit(s), Op[s] = "accrue"
    PROVE  /\ \A b : PostedPayments(b)' = PostedPayments(b)
           /\ Accrued' = Accrued + Amount[s] /\ Accrued \in Int
  <1>0. TypeInv /\ accruals' = accruals \cup {AccruedNow(s)} /\ payments' = payments
    BY CommitsByOperation DEF Inv
  <1> DEFINE x == AccruedNow(s)
  <1>1. x \notin accruals /\ x["amount"] = Amount[s] /\ Amount[s] \in Int
    BY AccrualRows, SessionsAssumption DEF AccruedNow
  <1> HIDE DEF x
  <1>2. IsFiniteSet(accruals) /\ \A r \in accruals : r["amount"] \in Int
    BY <1>0 DEF TypeInv, AccrualRow
  <1>3. Total(accruals \cup {x}, "amount") = Total(accruals, "amount") + x["amount"]
        /\ Total(accruals, "amount") \in Int
    BY <1>1, <1>2, TotalOfOneMore
  <1>4. Accrued' = Total(accruals \cup {x}, "amount")
    BY <1>0 DEF Accrued, Total, x
  <1>5. \A b : PostedPayments(b)' = PostedPayments(b)
    BY <1>0 DEF PostedPayments
  <1> QED BY <1>1, <1>3, <1>4, <1>5, TotalsOfRows

\* A commit moves the books by what it adds to the rows.
LEMMA BooksFollowCommit ==
    ASSUME Inv, NEW s \in Sessions, Commit(s), BooksFollowRows,
           Op[s] = "reverse" => Paid(Target) \in payments
    PROVE  BooksFollowRows'
  <1>0. TypeInv /\ RowsOf(s)
    BY RowsKept DEF Inv
  <1> DEFINE e == Effect(s)
  <1>1. e.interest \in Int /\ e.principal \in Int /\ books.interest \in Int /\ books.principal \in Int
    BY <1>0, EffectTypes DEF TypeInv
  <1>2. books'.interest = books.interest + e.interest /\ books'.principal = books.principal + e.principal
    BY DEF Commit
  <1>3. /\ Loan0.interest \in Int /\ Loan0.principal \in Int
        /\ Target.interest \in Int /\ Target.principal \in Int /\ Op[s] \in Operations
    BY SessionsAssumption
  <1>4. /\ books.interest + PostedPayments("interest") = Loan0.interest + Target.interest + Accrued
        /\ books.principal + PostedPayments("principal") = Loan0.principal + Target.principal
    BY DEF BooksFollowRows
  <1>i. Accrued \in Int /\ PostedPayments("interest") \in Int /\ PostedPayments("principal") \in Int
    <2>1. Posted \subseteq payments /\ payments \subseteq PaymentRow /\ IsFiniteSet(payments)
      BY <1>0 DEF Posted, TypeInv
    <2>2. /\ IsFiniteSet(Posted)
          /\ \A p \in Posted : p["interest"] \in Int /\ p["principal"] \in Int
      BY <2>1, FS_Subset DEF PaymentRow
    <2>3. Total(Posted, "interest") \in Int /\ Total(Posted, "principal") \in Int
      BY <2>2, TotalIsInt
    <2>4. IsFiniteSet(accruals) /\ \A r \in accruals : r["amount"] \in Int
      BY <1>0 DEF TypeInv, AccrualRow
    <2>5. Total(accruals, "amount") \in Int
      BY <2>4, TotalIsInt
    <2> QED BY <2>3, <2>5, TotalsOfRows
  <1>5. CASE Op[s] # "accrue"
    <2>1. /\ PostedPayments("interest")' = PostedPayments("interest") - e["interest"]
          /\ PostedPayments("principal")' = PostedPayments("principal") - e["principal"]
          /\ Accrued' = Accrued
      BY <1>3, <1>5, PaymentTotals, ReversalTotals DEF Operations
    <2> QED BY <1>0, <1>1, <1>2, <1>3, <1>4, <1>i, <2>1 DEF BooksFollowRows, RowsOf
  <1>6. CASE Op[s] = "accrue"
    <2>1. /\ PostedPayments("interest")' = PostedPayments("interest")
          /\ PostedPayments("principal")' = PostedPayments("principal")
          /\ Accrued' = Accrued + Amount[s]
      BY <1>6, AccrualTotals
    <2>2. e.interest = Amount[s] /\ e.principal = 0
      BY <1>0, <1>6, EffectTypes
    <2> QED BY <1>0, <1>1, <1>2, <1>3, <1>4, <1>i, <2>1, <2>2 DEF BooksFollowRows, RowsOf
  <1> QED BY <1>5, <1>6

\* The reversals only grow, and by a number of their own.
LEMMA CommitBooks ==
    ASSUME Inv, NEW s \in Sessions, Commit(s)
    PROVE  TargetInv' /\ BooksInv'
  <1>0. TypeInv /\ TargetInv /\ BooksInv /\ Op[s] \in Operations
    BY SessionsAssumption DEF Inv
  <1>1. CASE Op[s] = "reverse"
    <2>1. num[s] \notin reversals /\ reversals' = reversals \cup {num[s]} /\ IsFiniteSet(reversals)
      BY <1>0, <1>1, ReversalRows, CommitsByOperation DEF TypeInv
    <2>2. Cardinality(reversals') = Cardinality(reversals) + 1 /\ Cardinality(reversals) \in Nat
      <3> DEFINE n == num[s]
      <3>1. n \notin reversals /\ reversals' = reversals \cup {n}
        BY <2>1
      <3> HIDE DEF n
      <3>2. Cardinality(reversals \cup {n}) = Cardinality(reversals) + 1
        BY <2>1, <3>1, FS_AddElement
      <3> QED BY <2>1, <3>1, <3>2, FS_CardinalityType
    <2>3. ASSUME ReversedOnce' PROVE BooksFollowRows'
      <3>1. Cardinality(reversals') <= 1
        BY <2>3 DEF ReversedOnce
      <3>2. Cardinality(reversals) = 0
        BY <2>2, <3>1
      <3>3. reversals = {}
        BY <2>1, <3>2, FS_EmptySet
      <3>4. ReversedOnce
        BY <3>2 DEF ReversedOnce
      <3> QED BY <1>0, <3>3, <3>4, BooksFollowCommit DEF TargetInv, BooksInv
    <2>4. reversals' # {}
      BY <2>1
    <2> QED BY <2>3, <2>4 DEF TargetInv, BooksInv
  <1>2. CASE Op[s] # "reverse"
    <2>1. reversals' = reversals /\ payments \subseteq payments'
      BY <1>0, <1>2, CommitsByOperation DEF Operations
    <2>2. ReversedOnce' => ReversedOnce
      BY <2>1 DEF ReversedOnce
    <2> QED BY <1>0, <1>2, <2>1, <2>2, BooksFollowCommit DEF TargetInv, BooksInv
  <1> QED BY <1>1, <1>2

LEMMA CommitTypes ==
    ASSUME Inv, NEW s \in Sessions, Commit(s)
    PROVE  /\ TypeInv' /\ OthersStay(s) /\ pc'[s] = "done"
           /\ loan'.principal = IF Effect(s).principal = 0 THEN loan.principal
                                ELSE seen[s].principal + Effect(s).principal
  <1>0. TypeInv /\ Goto(s, "done") /\ "done" \in Places /\ RowsOf(s)
    BY RowsKept DEF Inv, Commit, Places
  <1>1. /\ pc' \in [Sessions -> Places] /\ seen' \in [Sessions -> LoanRow]
        /\ num' \in [Sessions -> Nat] /\ pc'[s] = "done" /\ OthersStay(s)
    BY <1>0, Goes
  <1>2. /\ Effect(s).interest \in Int /\ Effect(s).principal \in Int
        /\ seen[s].interest \in Int /\ seen[s].principal \in Int /\ loan \in LoanRow
    BY <1>0, EffectTypes DEF TypeInv, LoanRow
  <1> DEFINE i == IF Effect(s).interest = 0 THEN loan.interest ELSE seen[s].interest + Effect(s).interest
             p == IF Effect(s).principal = 0 THEN loan.principal
                  ELSE seen[s].principal + Effect(s).principal
             st == IF Op[s] = "payoff" THEN "paid_off" ELSE loan.status
  <1>3. i \in Int /\ p \in Int /\ st \in {Loan0.status, "paid_off"}
    BY <1>2 DEF LoanRow
  <1>4. loan' = [loan EXCEPT !.interest = i, !.principal = p, !.status = st]
    BY <1>2 DEF Commit, WrittenLoan, LoanRow
  <1> HIDE DEF i, p, st
  <1>5. loan' \in LoanRow /\ loan'.principal = p
    BY <1>2, <1>3, <1>4 DEF LoanRow
  <1>6. books' \in [interest : Int, principal : Int]
    <2>1. books.interest + Effect(s).interest \in Int /\ books.principal + Effect(s).principal \in Int
      BY <1>0, <1>2 DEF TypeInv
    <2> QED BY <2>1 DEF Commit
  <1>7. entries' \in Nat /\ overlap' \in BOOLEAN
    BY <1>0 DEF Commit, TypeInv
  <1>8. TypeInv'
    BY <1>0, <1>1, <1>5, <1>6, <1>7 DEF TypeInv, RowsOf
  <1> QED BY <1>1, <1>5, <1>8 DEF p

LEMMA CommitKeys ==
    ASSUME Inv, NEW s \in Sessions, Commit(s)
    PROVE  KeysInv'
  <1>0. /\ TypeInv /\ KeysInv /\ s \in Inserted /\ RowsOf(s) /\ OthersStay(s) /\ pc'[s] = "done"
        /\ \A t \in Sessions : Op[t] \in Operations
    BY RowsKept, CommitTypes, SessionsAssumption DEF Inv, Commit, Inserted
  <1>1. \A t \in Inserted' : t \in Inserted /\ t # s /\ t \in Sessions /\ num'[t] = num[t]
    BY <1>0 DEF Inserted, OthersStay
  <1>2. ASSUME NEW t \in Inserted' PROVE ~KeyCommitted(t)'
    <2>1. /\ t \in Inserted /\ t # s /\ t \in Sessions /\ num'[t] = num[t]
          /\ ~KeyCommitted(t) /\ (SameTable(s, t) => num[s] # num[t])
      BY <1>0, <1>1 DEF KeysInv
    <2>2. CASE Op[t] \in {"pay", "payoff"}
      <3>1. \A p \in payments : p.num # num[t]
        BY <2>1, <2>2, KeysCommitted
      <3>2. Op[s] \in {"pay", "payoff"} => num[s] # num[t]
        BY <2>1, <2>2 DEF SameTable
      <3>3. \A p \in payments' : p.num # num'[t]
        BY <1>0, <2>1, <3>1, <3>2 DEF RowsOf
      <3> QED BY <2>2, <3>3 DEF KeyCommitted
    <2>3. CASE Op[t] = "reverse"
      <3>1. num[t] \notin reversals
        BY <2>1, <2>3, KeysCommitted
      <3>2. Op[s] = "reverse" => num[s] # num[t]
        BY <2>1, <2>3 DEF SameTable
      <3>3. num'[t] \notin reversals'
        BY <1>0, <2>1, <3>1, <3>2 DEF RowsOf
      <3> QED BY <2>3, <3>3 DEF KeyCommitted
    <2>4. CASE Op[t] = "accrue"
      <3>1. \A r \in accruals : r.day # num[t]
        BY <2>1, <2>4, KeysCommitted
      <3>2. Op[s] = "accrue" => num[s] # num[t]
        BY <2>1, <2>4 DEF SameTable
      <3>3. \A r \in accruals' : r.day # num'[t]
        BY <1>0, <2>1, <3>1, <3>2 DEF RowsOf
      <3> QED BY <2>4, <3>3 DEF KeyCommitted, AccruedOn
    <2> QED BY <1>0, <2>1, <2>2, <2>3, <2>4 DEF Operations
  <1>3. \A t, u \in Inserted' : t # u /\ SameTable(t, u) => num'[t] # num'[u]
    BY <1>0, <1>1 DEF KeysInv
  <1> QED BY <1>0, <1>2, <1>3 DEF KeysInv, RowsOf

\* Alone among those that write the principal, a session writes what the books
\* hold; an accrual does not write it.
LEMMA CommitPrincipal ==
    ASSUME Inv, NEW s \in Sessions, Commit(s)
    PROVE  PrincipalInv'
  <1>0. /\ TypeInv /\ PrincipalInv /\ OthersStay(s) /\ pc'[s] = "done" /\ pc[s] = "commit"
        /\ overlap' = overlap
    BY CommitTypes DEF Inv, Commit
  <1>1. SUFFICES ASSUME ~overlap PROVE PrincipalInv'
    BY <1>0 DEF PrincipalInv
  <1>2. /\ \A t, u \in Reading : t = u
        /\ \A t \in Reading : seen[t].principal = loan.principal
        /\ loan.principal = books.principal
    BY <1>0, <1>1 DEF PrincipalInv
  <1>3. \A t \in Reading' : t \in Reading /\ t # s /\ t \in Sessions /\ seen'[t] = seen[t]
    BY <1>0 DEF Reading, Open, OthersStay
  <1>4. /\ loan'.principal = IF Effect(s).principal = 0 THEN loan.principal
                             ELSE seen[s].principal + Effect(s).principal
        /\ books'.principal = books.principal + Effect(s).principal
        /\ Effect(s).principal \in Int /\ books.principal \in Int
    BY <1>0, CommitTypes, EffectTypes DEF Commit, TypeInv
  <1>5. CASE Op[s] # "accrue"
    <2>1. s \in Reading
      BY <1>0, <1>5 DEF Reading, Open
    <2>2. Reading' = {}
      BY <1>2, <1>3, <2>1
    <2>3. seen[s].principal = loan.principal
      BY <1>2, <2>1
    <2>4. loan'.principal = books'.principal
      BY <1>2, <1>4, <2>3
    <2> QED BY <2>2, <2>4 DEF PrincipalInv
  <1>6. CASE Op[s] = "accrue"
    <2>1. Effect(s).principal = 0
      BY <1>0, <1>6, EffectTypes
    <2>2. loan'.principal = loan.principal /\ books'.principal = books.principal
      BY <1>4, <2>1
    <2> QED BY <1>2, <1>3, <2>2 DEF PrincipalInv
  <1> QED BY <1>5, <1>6

LEMMA CommitKeeps == ASSUME Inv, NEW s \in Sessions, Commit(s) PROVE Inv'
  BY CommitBooks, CommitTypes, CommitKeys, CommitPrincipal DEF Inv

LEMMA NextKeeps == ASSUME Inv, [Next]_vars PROVE Inv'
  <1>1. CASE UNCHANGED vars
    BY <1>1 DEF vars, committed, Inv, TypeInv, KeysInv, TargetInv, BooksInv, PrincipalInv,
                Inserted, Reading, KeyCommitted, AccruedOn, ReversedOnce, BooksFollowRows,
                PostedPayments, Accrued
  <1>2. CASE Next
    <2>1. PICK s \in Sessions : Step(s) \/ Fail(s)
      BY <1>2 DEF Next
    <2> QED BY <2>1, ReadPaymentKeeps, ReadLoanKeeps, ReadEntriesKeeps, DrawNumberKeeps,
               InsertKeeps, FlushKeeps, CommitKeeps, FailKeeps DEF Step
  <1> QED BY <1>1, <1>2

LEMMA AlwaysInv == Spec => []Inv
  <1>1. Init => Inv
    BY InitHolds
  <1>2. Inv /\ [Next]_vars => Inv'
    BY NextKeeps
  <1> QED BY <1>1, <1>2, PTL DEF Spec

-----------------------------------------------------------------------------
\* However many sessions overlap and whatever becomes of them, the principal of
\* the loan is that of the books until two that write the principal overlap.
THEOREM PrincipalStays == Spec => []PrincipalInBooks
  <1>1. Inv => PrincipalInBooks
    BY DEF Inv, PrincipalInv, PrincipalInBooks
  <1> QED BY <1>1, AlwaysInv, PTL

\* The books follow the rows for as long as the payment has been reversed once
\* at most, whatever else overlaps: the keys keep a payment and a day from
\* counting twice, but a second reversal entry has a number of its own.
THEOREM BooksFollowWhileReversedOnce == Spec => [](ReversedOnce => BooksFollowRows)
  <1>1. Inv => (ReversedOnce => BooksFollowRows)
    BY DEF Inv, BooksInv
  <1> QED BY <1>1, AlwaysInv, PTL

\* One reversal among the sessions, as in the run, is entered once.
LEMMA OneReverser ==
    ASSUME \A s, t \in Sessions : Op[s] = "reverse" /\ Op[t] = "reverse" => s = t
    PROVE  Inv /\ ReverserInv /\ [Next]_vars => ReverserInv'
  <1> SUFFICES ASSUME Inv, ReverserInv, [Next]_vars PROVE ReverserInv'
    OBVIOUS
  <1>1. CASE UNCHANGED vars
    BY <1>1 DEF vars, committed, ReverserInv
  <1>2. ASSUME NEW s \in Sessions, Commit(s) PROVE ReverserInv'
    <2>1. OthersStay(s) /\ pc'[s] = "done" /\ pc[s] = "commit" /\ Op[s] \in Operations
      BY <1>2, CommitTypes, SessionsAssumption DEF Commit
    <2>2. CASE Op[s] = "reverse"
      <3>1. reversals = {}
        BY <2>1, <2>2 DEF ReverserInv
      <3>2. reversals' = {num[s]}
        BY <1>2, <2>2, <3>1, CommitsByOperation
      <3> QED BY <2>1, <2>2, <3>2 DEF ReverserInv
    <2>3. CASE Op[s] # "reverse"
      <3>1. reversals' = reversals
        BY <1>2, <2>1, <2>3, CommitsByOperation DEF Operations
      <3> QED BY <2>1, <3>1 DEF ReverserInv, OthersStay
    <2> QED BY <2>2, <2>3
  <1>3. CASE Next
    <2>1. PICK s \in Sessions : Step(s) \/ Fail(s)
      BY <1>3 DEF Next
    <2> QED BY <1>2, <2>1, ReadPaymentKeeps, ReadLoanKeeps, ReadEntriesKeeps, DrawNumberKeeps,
               InsertKeeps, FlushKeeps, FailKeeps DEF Step
  <1> QED BY <1>1, <1>3

\* With one reversal among the sessions the books follow the rows always.
THEOREM BooksFollow ==
    ASSUME \A s, t \in Sessions : Op[s] = "reverse" /\ Op[t] = "reverse" => s = t
    PROVE  Spec => []BooksFollowRows
  <1>1. Init => Inv /\ ReverserInv
    BY InitHolds
  <1>2. Inv /\ ReverserInv /\ [Next]_vars => Inv' /\ ReverserInv'
    BY NextKeeps, OneReverser
  <1>3. Inv /\ ReverserInv => BooksFollowRows
    <2> SUFFICES ASSUME Inv, ReverserInv PROVE BooksFollowRows
      OBVIOUS
    <2>1. ReversedOnce
      <3>1. CASE reversals = {}
        BY <3>1, FS_EmptySet DEF ReversedOnce
      <3>2. CASE reversals # {}
        <4>1. PICK n \in reversals : reversals = {n}
          BY <3>2 DEF ReverserInv
        <4>2. Cardinality({n}) = 1
          BY FS_Singleton
        <4>3. Cardinality(reversals) = 1
          BY <4>1, <4>2
        <4> QED BY <4>3 DEF ReversedOnce
      <3> QED BY <3>1, <3>2
    <2> QED BY <2>1 DEF Inv, BooksInv
  <1> QED BY <1>1, <1>2, <1>3, PTL DEF Spec

=============================================================================
