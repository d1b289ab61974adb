--------------------------- MODULE OwnershipProofs ---------------------------
(***************************************************************************)
(* Who owns a loan and what that does to the books and reports, for any    *)
(* funds, shares, amounts and lengths of behaviour: the rows implement the *)
(* timeline, alone, under two writers and among the portfolios; the books  *)
(* of the funds that own a loan add up to the loan row, and the parts of a *)
(* report to its total.                                                    *)
(***************************************************************************)
EXTENDS AllocationLocking, Portfolios, FundLedger, SplitCall, ReportCall, CommonLemmas

(***************************************************************************)
(* AllocationHistory: every day has one accepted set of owners.            *)
(***************************************************************************)
(* Rows after an update: an old row that started before the effective date  *)
(* and ends no later than it, or a new row without an end.                  *)
LEMMA RowsAfter ==
  ASSUME NEW new, NEW eff, UpdateAllocations(new, eff), NEW r
  PROVE  r \in rows' <=>
           \/ \E old \in rows : old.from < eff /\ r = EndedAt(old, eff)
           \/ \E f \in DOMAIN new : r = Row(f, new[f], eff)
BY DEF UpdateAllocations, KeptBefore

LEMMA EndedRow ==
  ASSUME NEW old \in Rows, NEW eff \in Days, old.from < eff
  PROVE  /\ EndedAt(old, eff) \in Rows
         /\ EndedAt(old, eff).fund = old.fund /\ EndedAt(old, eff).pct = old.pct
         /\ EndedAt(old, eff).from = old.from
         /\ \A d \in Days : d >= eff => ~OpenAt(EndedAt(old, eff), d)
         /\ \A d \in Days : d < eff => (OpenAt(EndedAt(old, eff), d) <=> OpenAt(old, d))
<1>0. /\ MaxDay \in Nat /\ NoEnd \notin Int /\ Whole \in Nat
      /\ eff \in Int /\ old.from \in Int
  BY AllocationAssumption, WholeAssumption DEF Rows, Days
<1>1. CASE OpenAt(old, eff)
  <2>1. EndedAt(old, eff) =
          [fund |-> old.fund, pct |-> old.pct, from |-> old.from, to |-> eff]
    BY <1>1 DEF EndedAt, Rows
  <2>2. \A d \in Days : d < eff => OpenAt(old, d)
    BY <1>0, <1>1 DEF OpenAt, Rows, Days
  <2>. QED
    BY <1>0, <2>1, <2>2 DEF Rows, OpenAt, Days
<1>2. CASE ~OpenAt(old, eff)
  <2>1. EndedAt(old, eff) = old
    BY <1>2 DEF EndedAt
  <2>2. \A d \in Days : d >= eff => ~OpenAt(old, d)
    BY <1>0, <1>2 DEF OpenAt, Rows, Days
  <2>. QED
    BY <2>1, <2>2
<1>. QED
  BY <1>1, <1>2

LEMMA NewRow ==
  ASSUME NEW new \in Requests, NEW eff \in Days, NEW f \in DOMAIN new
  PROVE  /\ Row(f, new[f], eff) \in Rows
         /\ \A d : OpenAt(Row(f, new[f], eff), d)
  BY AllocationAssumption, WholeAssumption DEF Row, Rows, OpenAt

(* Every step keeps the rows well formed.                                   *)
LEMMA TypeNext == TypeOK /\ [Next]_rows => TypeOK'
<1>. SUFFICES ASSUME TypeOK, [Next]_rows, NEW r \in rows' PROVE r \in Rows
  BY DEF TypeOK, Rows, OpenAt
<1>1. ASSUME NEW new \in Requests, NEW eff \in Days, UpdateAllocations(new, eff)
      PROVE  r \in Rows
  <2>1. CASE \E old \in rows : old.from < eff /\ r = EndedAt(old, eff)
    BY <2>1, EndedRow DEF TypeOK
  <2>2. CASE \E f \in DOMAIN new : r = Row(f, new[f], eff)
    BY <2>2, NewRow
  <2>. QED
    BY <1>1, <2>1, <2>2, RowsAfter
<1>2. CASE UNCHANGED rows
  BY <1>2 DEF TypeOK
<1>. QED
  BY <1>1, <1>2 DEF Next

LEMMA InitType == Init => TypeOK
<1>. SUFFICES ASSUME NEW from \in Days, rows = {Row(LeadFund, Whole, from)}
              PROVE  TypeOK
  BY DEF Init
<1>. QED
  BY AllocationAssumption, WholeAssumption DEF TypeOK, Rows, Row, OpenAt

(* No sequence of updates, in whatever order they are dated, stores a row    *)
(* that ends before it starts.                                               *)
THEOREM TypeCorrect == Spec => []TypeOK
  BY InitType, TypeNext, PTL DEF Spec

-----------------------------------------------------------------------------
(* The heart of the refinement: what an update does to the owners of a day. *)
LEMMA OwnersAfter ==
  ASSUME TypeOK, NEW new \in Requests, NEW eff \in Days,
         UpdateAllocations(new, eff), NEW d \in Days
  PROVE  Owners(d)' = IF d >= eff THEN Pairs(new) ELSE Owners(d)
<1>0. d \in Int /\ eff \in Int
  BY AllocationAssumption, WholeAssumption DEF Days
<1>1. CASE d >= eff
  <2>1. ASSUME NEW r \in ActiveOn(d)' PROVE <<r.fund, r.pct>> \in Pairs(new)
    <3>1. r \in rows' /\ OpenAt(r, d)
      BY <2>1 DEF ActiveOn, OpenAt
    <3>2. ~ \E old \in rows : old.from < eff /\ r = EndedAt(old, eff)
      BY <1>1, <3>1, EndedRow DEF TypeOK
    <3>3. PICK f \in DOMAIN new : r = Row(f, new[f], eff)
      BY <3>1, <3>2, RowsAfter
    <3>. QED
      BY <3>3 DEF Row, Pairs
  <2>2. ASSUME NEW f \in DOMAIN new PROVE <<f, new[f]>> \in Owners(d)'
    <3>1. Row(f, new[f], eff) \in rows' /\ OpenAt(Row(f, new[f], eff), d)
      BY RowsAfter, NewRow
    <3>2. Row(f, new[f], eff) \in ActiveOn(d)'
      BY <1>0, <1>1, <3>1 DEF ActiveOn, Row, OpenAt
    <3>. QED
      BY <3>2 DEF Owners, Row
  <2>3. Owners(d)' \subseteq Pairs(new)
    BY <2>1 DEF Owners
  <2>4. Pairs(new) \subseteq Owners(d)'
    BY <2>2 DEF Pairs
  <2>. QED
    BY <1>1, <2>3, <2>4
<1>2. CASE ~(d >= eff)
  <2>0. d < eff
    BY <1>0, <1>2
  <2>1. ASSUME NEW r \in ActiveOn(d)' PROVE <<r.fund, r.pct>> \in Owners(d)
    <3>1. r \in rows' /\ r.from <= d /\ OpenAt(r, d)
      BY <2>1 DEF ActiveOn, OpenAt
    <3>2. ~ \E f \in DOMAIN new : r = Row(f, new[f], eff)
      BY <1>0, <2>0, <3>1 DEF Row
    <3>3. PICK old \in rows : old.from < eff /\ r = EndedAt(old, eff)
      BY <3>1, <3>2, RowsAfter
    <3>4. old \in ActiveOn(d) /\ old.fund = r.fund /\ old.pct = r.pct
      BY <2>0, <3>1, <3>3, EndedRow DEF ActiveOn, TypeOK
    <3>. QED
      BY <3>4 DEF Owners
  <2>2. ASSUME NEW old \in ActiveOn(d) PROVE <<old.fund, old.pct>> \in Owners(d)'
    <3>1. old \in rows /\ old.from <= d /\ OpenAt(old, d) /\ old.from < eff
      BY <1>0, <2>0, <2>2, AllocationAssumption, WholeAssumption DEF ActiveOn, TypeOK, Rows, Days
    <3>2. EndedAt(old, eff) \in rows'
      BY <3>1, RowsAfter
    <3>3. /\ EndedAt(old, eff) \in ActiveOn(d)'
          /\ EndedAt(old, eff).fund = old.fund /\ EndedAt(old, eff).pct = old.pct
      BY <2>0, <3>1, <3>2, EndedRow DEF ActiveOn, TypeOK, OpenAt
    <3>. QED
      BY <3>3 DEF Owners
  <2>3. Owners(d)' \subseteq Owners(d)
    BY <2>1 DEF Owners
  <2>4. Owners(d) \subseteq Owners(d)'
    BY <2>2 DEF Owners
  <2>. QED
    BY <1>2, <2>3, <2>4
<1>. QED
  BY <1>1, <1>2

(* An accepted set names at least one owner.                                *)
LEMMA PairsNonEmpty ==
  ASSUME NEW new \in Requests
  PROVE  Pairs(new) # {}
BY AllocationAssumption, WholeAssumption DEF Pairs

LEMMA OneSetNext == TypeOK /\ OneSetAtATime /\ [Next]_rows => OneSetAtATime'
<1>. SUFFICES ASSUME TypeOK, OneSetAtATime, [Next]_rows PROVE OneSetAtATime'
  OBVIOUS
<1>1. ASSUME NEW new \in Requests, NEW eff \in Days, UpdateAllocations(new, eff)
      PROVE  OneSetAtATime'
  <2>. SUFFICES ASSUME NEW d \in Days
                PROVE  /\ \/ Owners(d)' = {}
                          \/ Owners(d)' = {<<LeadFund, Whole>>}
                          \/ \E x \in Requests : Accepted(x) /\ Owners(d)' = Pairs(x)
                       /\ d > 0 /\ Owners(d - 1)' # {} => Owners(d)' # {}
    BY DEF OneSetAtATime
  <2>1. Owners(d)' = IF d >= eff THEN Pairs(new) ELSE Owners(d)
    BY <1>1, OwnersAfter
  <2>2. Accepted(new)
    BY <1>1 DEF UpdateAllocations
  <2>3. d > 0 /\ Owners(d - 1)' # {} => Owners(d)' # {}
    <3>. SUFFICES ASSUME d > 0, Owners(d - 1)' # {}, ~(d >= eff) PROVE Owners(d)' # {}
      BY <2>1, PairsNonEmpty
    <3>1. d - 1 \in Days /\ ~(d - 1 >= eff)
      BY AllocationAssumption, WholeAssumption DEF Days
    <3>2. Owners(d - 1)' = Owners(d - 1)
      BY <1>1, <3>1, OwnersAfter
    <3>. QED
      BY <2>1, <3>2 DEF OneSetAtATime
  <2>. QED
    BY <2>1, <2>2, <2>3 DEF OneSetAtATime
<1>2. CASE UNCHANGED rows
  BY <1>2 DEF OneSetAtATime, Owners, ActiveOn
<1>. QED
  BY <1>1, <1>2 DEF Next

(* The owners of a loan that starts with its initial allocation.            *)
LEMMA InitOwners ==
  ASSUME NEW from \in Days, rows = {Row(LeadFund, Whole, from)}, NEW d \in Days
  PROVE  Owners(d) = IF from <= d THEN {<<LeadFund, Whole>>} ELSE {}
<1>. DEFINE r == Row(LeadFund, Whole, from)
<1>1. r.from = from /\ r.fund = LeadFund /\ r.pct = Whole /\ OpenAt(r, d)
  BY DEF Row, OpenAt
<1>. HIDE DEF r
<1>2. ActiveOn(d) = IF from <= d THEN {r} ELSE {}
  BY <1>1 DEF ActiveOn, r
<1>. QED
  BY <1>1, <1>2 DEF Owners

(* On any day the loan is owned by exactly one accepted set, whole: updates  *)
(* dated in the past or the future never overlap or leave a gap.             *)
THEOREM OneSetHolds == Spec => []OneSetAtATime
<1>1. Init => OneSetAtATime
  <2>. SUFFICES ASSUME NEW from \in Days, rows = {Row(LeadFund, Whole, from)}
                PROVE  OneSetAtATime
    BY DEF Init
  <2>. SUFFICES ASSUME NEW d \in Days
                PROVE  /\ Owners(d) = {} \/ Owners(d) = {<<LeadFund, Whole>>}
                       /\ d > 0 /\ Owners(d - 1) # {} => Owners(d) # {}
    BY DEF OneSetAtATime
  <2>1. Owners(d) = IF from <= d THEN {<<LeadFund, Whole>>} ELSE {}
    BY InitOwners
  <2>2. ASSUME d > 0 PROVE Owners(d - 1) = IF from <= d - 1 THEN {<<LeadFund, Whole>>} ELSE {}
    <3>1. d - 1 \in Days
      BY <2>2, AllocationAssumption, WholeAssumption DEF Days
    <3>. QED
      BY <3>1, InitOwners
  <2>. QED
    BY <2>1, <2>2, AllocationAssumption, WholeAssumption DEF Days
<1>. QED
  BY <1>1, InitType, TypeNext, OneSetNext, PTL DEF Spec

(* The rows of the table implement the timeline without rows.               *)
THEOREM Refinement == Spec => ImplementsTimeline
<1>. DEFINE sets == {Pairs(new) : new \in Requests} \cup {{<<LeadFund, Whole>>}}
            owners == [d \in Days |-> Owners(d)]
<1>1. Init => Timeline!Init
  <2>. SUFFICES ASSUME NEW from \in Days, rows = {Row(LeadFund, Whole, from)}
                PROVE  owners \in [Days -> sets \cup {{}}]
    BY DEF Init, Timeline!Init, Timeline!Days, Days
  <2>. SUFFICES ASSUME NEW d \in Days PROVE Owners(d) \in sets \cup {{}}
    OBVIOUS
  <2>. QED
    BY InitOwners
<1>2. TypeOK /\ [Next]_rows => [Timeline!Next]_owners
  <2>. SUFFICES ASSUME TypeOK, [Next]_rows PROVE Timeline!Next \/ owners' = owners
    OBVIOUS
  <2>1. ASSUME NEW new \in Requests, NEW eff \in Days, UpdateAllocations(new, eff)
        PROVE  Timeline!Next
    <3>1. owners' = [d \in Days |-> IF d >= eff THEN Pairs(new) ELSE owners[d]]
      BY <2>1, OwnersAfter
    <3>2. Timeline!Replace(Pairs(new), eff)
      BY <3>1 DEF Timeline!Replace, Timeline!Days, Days
    <3>3. Pairs(new) \in sets
      OBVIOUS
    <3>. QED
      BY <3>2, <3>3 DEF Timeline!Next, Timeline!Days, Days
  <2>2. CASE UNCHANGED rows
    BY <2>2 DEF Owners, ActiveOn
  <2>. QED
    BY <2>1, <2>2 DEF Next
<1>. QED
  BY <1>1, <1>2, TypeCorrect, PTL DEF Spec, ImplementsTimeline, Timeline!Spec

-----------------------------------------------------------------------------
(***************************************************************************)
(* AllocationLocking: two updates at a time.  As long as none is through,  *)
(* the initial row is the only one, and whoever is past the SELECT holds   *)
(* it; so nobody else changes the rows it is to delete and to end.         *)
(***************************************************************************)
TwoWriters == \A u, v, w \in Writers : u = v \/ v = w \/ u = w
Writing(w) == pc[w] \in {"delete", "end"}
TheFirst == Row(LeadFund, Whole, InitialFrom)
LockTypes ==
  /\ pc \in [Writers -> {"idle", "lock", "delete", "end", "done", "failed"}]
  /\ DOMAIN holder = Writers \cup {LeadFund}
  /\ DOMAIN todo = Writers /\ DOMAIN hit = Writers
  /\ effective \in [Writers -> Days]
FirstHeld ==
  (\A w \in Writers : pc[w] # "done") =>
    /\ rows = {TheFirst}
    /\ \A w \in Writers : pc[w] \in Statements =>
         holder[LeadFund] = w \/ (pc[w] = "lock" /\ LeadFund \in todo[w])
\* Nothing that the statements of a writer match escapes them.
Covered(w) ==
  \A r \in rows :
    /\ pc[w] = "delete" /\ r.from >= effective[w] => r.fund \in todo[w] \cup hit[w]
    /\ pc[w] = "end" /\ r.from >= effective[w] => r.fund \in hit[w]
    /\ pc[w] = "end" /\ r.from < effective[w] /\ OpenAt(r, effective[w])
         => r.fund \in todo[w] \cup hit[w]
LockInv ==
  /\ TypeOK /\ LockTypes /\ FirstHeld
  /\ \A w \in Writers : Covered(w)
  /\ \A w, v \in Writers : Writing(w) /\ Writing(v) => w = v

LEMMA LockBegins == LockInit => LockInv
<1>. SUFFICES ASSUME LockInit PROVE LockInv
  OBVIOUS
<1>1. LockTypes /\ TypeOK
  <2>1. Init
    BY WritersAssumption DEF LockInit, Init
  <2>. QED
    BY <2>1, InitType DEF LockInit, LockTypes
<1>2. \A w \in Writers : pc[w] = "idle"
  BY DEF LockInit
<1>3. rows = {TheFirst}
  BY DEF LockInit, TheFirst
<1>. QED
  BY <1>1, <1>2, <1>3 DEF LockInv, FirstHeld, Covered, Writing, Statements

LEMMA LockTypesStay == LockTypes /\ [LockNext]_lockVars => LockTypes'
<1>. SUFFICES ASSUME LockTypes, [LockNext]_lockVars PROVE LockTypes'
  OBVIOUS
<1>1. CASE UNCHANGED lockVars
  BY <1>1 DEF LockTypes, lockVars
<1>2. ASSUME NEW w \in Writers, Step(w) \/ Fail(w) PROVE LockTypes'
  BY <1>2 DEF LockTypes, Step, Fail, Begin, Reach, NextStatement, Commit, Released, Statements
<1>. QED
  BY <1>1, <1>2 DEF LockNext

LEMMA BeginLocks ==
  ASSUME LockInv, TypeOK', LockTypes', NEW w \in Writers, Begin(w) PROVE LockInv'
<1>1. /\ pc[w] = "idle" /\ pc'[w] = "lock" /\ todo'[w] = Snapshot(w, "lock")
      /\ \A v \in Writers \ {w} : pc'[v] = pc[v] /\ todo'[v] = todo[v]
      /\ rows' = rows /\ holder' = holder /\ effective' = effective /\ hit' = hit
  BY DEF Begin, LockInv, LockTypes
<1>2. rows = {TheFirst} => LeadFund \in Snapshot(w, "lock")
  <2>1. TheFirst.fund = LeadFund
    BY DEF TheFirst, Row
  <2>. QED
    BY <2>1 DEF Snapshot, Matches
<1>3. FirstHeld'
  <2>. SUFFICES ASSUME \A v \in Writers : pc'[v] # "done"
                PROVE  /\ rows' = {TheFirst}
                       /\ \A v \in Writers : pc'[v] \in Statements =>
                            holder'[LeadFund] = v \/ (pc'[v] = "lock" /\ LeadFund \in todo'[v])
    BY DEF FirstHeld, TheFirst, Row
  <2>1. \A v \in Writers : pc[v] # "done"
    BY <1>1
  <2>2. /\ rows = {TheFirst}
        /\ \A v \in Writers : pc[v] \in Statements =>
             holder[LeadFund] = v \/ (pc[v] = "lock" /\ LeadFund \in todo[v])
    BY <2>1 DEF LockInv, FirstHeld
  <2>. QED
    BY <1>1, <1>2, <2>2
<1>4. ASSUME NEW v \in Writers PROVE Covered(v)'
  <2>1. CASE v = w
    BY <1>1, <2>1 DEF Covered
  <2>2. CASE v # w
    BY <1>1, <2>2 DEF LockInv, Covered, OpenAt
  <2>. QED
    BY <2>1, <2>2
<1>5. \A u, v \in Writers : Writing(u)' /\ Writing(v)' => u = v
  BY <1>1 DEF LockInv, Writing
<1>. QED
  BY <1>3, <1>4, <1>5 DEF LockInv

LEMMA ReachLocks ==
  ASSUME LockInv, TypeOK', LockTypes', NEW w \in Writers, NEW fund \in DOMAIN holder, Reach(w, fund)
  PROVE  LockInv'
<1>. DEFINE matched == {r \in Committed(fund) : Matches(w, pc[w], r)}
<1>1. /\ pc[w] \in Statements /\ fund \in todo[w] /\ holder[fund] \in {NoOne, w}
      /\ rows' = rows /\ pc' = pc /\ effective' = effective
      /\ todo'[w] = todo[w] \ {fund} /\ \A v \in Writers \ {w} : todo'[v] = todo[v] /\ hit'[v] = hit[v]
      /\ hit[w] \subseteq hit'[w]
      /\ matched # {} /\ pc[w] # "lock" => fund \in hit'[w]
      /\ matched # {} => holder' = [holder EXCEPT ![fund] = w]
      /\ matched = {} => holder' = holder
  BY DEF Reach, LockInv, LockTypes
<1>. HIDE DEF matched
<1>2. FirstHeld'
  <2>. SUFFICES ASSUME \A v \in Writers : pc[v] # "done", NEW v \in Writers, pc[v] \in Statements
                PROVE  /\ rows = {TheFirst}
                       /\ holder'[LeadFund] = v \/ (pc[v] = "lock" /\ LeadFund \in todo'[v])
    BY <1>1 DEF FirstHeld, TheFirst, Row, Statements
  <2>1. /\ rows = {TheFirst}
        /\ holder[LeadFund] = v \/ (pc[v] = "lock" /\ LeadFund \in todo[v])
    BY DEF LockInv, FirstHeld
  <2>2. CASE fund # LeadFund
    BY <1>1, <2>1, <2>2 DEF LockInv, LockTypes
  <2>3. CASE fund = LeadFund /\ v = w
    <3>1. pc[w] = "lock" => matched # {}
      <4>1. TheFirst.fund = LeadFund
        BY DEF TheFirst, Row
      <4>. QED
        BY <2>1, <2>3, <4>1 DEF matched, Committed, Matches
    <3>2. LeadFund \in DOMAIN holder
      BY <2>3
    <3>. QED
      BY <1>1, <2>1, <2>3, <3>1, <3>2
  <2>4. CASE fund = LeadFund /\ v # w
    <3>1. holder[LeadFund] # v
      BY <1>1, <2>4, WritersAssumption
    <3>. QED
      BY <1>1, <2>1, <2>4, <3>1
  <2>. QED
    BY <2>2, <2>3, <2>4
<1>3. ASSUME NEW v \in Writers PROVE Covered(v)'
  <2>1. CASE v = w
    <3>. SUFFICES ASSUME NEW r \in rows
                  PROVE  /\ pc[w] = "delete" /\ r.from >= effective[w] => r.fund \in todo'[w] \cup hit'[w]
                         /\ pc[w] = "end" /\ r.from >= effective[w] => r.fund \in hit'[w]
                         /\ pc[w] = "end" /\ r.from < effective[w] /\ OpenAt(r, effective[w])
                              => r.fund \in todo'[w] \cup hit'[w]
      BY <1>1, <2>1 DEF Covered, OpenAt
    <3>1. Covered(w)
      BY DEF LockInv
    <3>2. r.fund = fund /\ Matches(w, pc[w], r) => matched # {}
      BY DEF matched, Committed
    <3>. QED
      BY <1>1, <3>1, <3>2 DEF Covered, Matches
  <2>2. CASE v # w
    BY <1>1, <2>2 DEF LockInv, Covered, OpenAt
  <2>. QED
    BY <2>1, <2>2
<1>4. \A u, v \in Writers : Writing(u)' /\ Writing(v)' => u = v
  BY <1>1 DEF LockInv, Writing
<1>. QED
  BY <1>2, <1>3, <1>4 DEF LockInv

LEMMA NextStatementLocks ==
  ASSUME LockInv, TypeOK', LockTypes', TwoWriters, NEW w \in Writers, NextStatement(w) PROVE LockInv'
<1>1. /\ pc[w] \in {"lock", "delete"} /\ todo[w] = {}
      /\ pc'[w] = IF pc[w] = "lock" THEN "delete" ELSE "end"
      /\ todo'[w] = Snapshot(w, pc'[w])
      /\ \A v \in Writers \ {w} : pc'[v] = pc[v] /\ todo'[v] = todo[v]
      /\ rows' = rows /\ holder' = holder /\ effective' = effective /\ hit' = hit
  BY DEF NextStatement, LockInv, LockTypes
<1>2. FirstHeld'
  <2>. SUFFICES ASSUME \A v \in Writers : pc'[v] # "done"
                PROVE  /\ rows' = {TheFirst}
                       /\ \A v \in Writers : pc'[v] \in Statements =>
                            holder'[LeadFund] = v \/ (pc'[v] = "lock" /\ LeadFund \in todo'[v])
    BY DEF FirstHeld, TheFirst, Row
  <2>1. \A v \in Writers : pc[v] # "done"
    BY <1>1
  <2>2. /\ rows = {TheFirst}
        /\ \A v \in Writers : pc[v] \in Statements =>
             holder[LeadFund] = v \/ (pc[v] = "lock" /\ LeadFund \in todo[v])
    BY <2>1 DEF LockInv, FirstHeld
  <2>. QED
    BY <1>1, <2>2 DEF Statements
<1>3. ASSUME NEW v \in Writers PROVE Covered(v)'
  <2>1. CASE v = w
    <3>. SUFFICES ASSUME NEW r \in rows
                  PROVE  /\ pc'[w] = "delete" /\ r.from >= effective[w] => r.fund \in todo'[w]
                         /\ pc'[w] = "end" /\ r.from >= effective[w] => r.fund \in hit[w]
                         /\ pc'[w] = "end" /\ r.from < effective[w] /\ OpenAt(r, effective[w])
                              => r.fund \in todo'[w]
      BY <1>1, <2>1 DEF Covered, OpenAt
    <3>1. Covered(w)
      BY DEF LockInv
    <3>. QED
      BY <1>1, <3>1 DEF Covered, Snapshot, Matches
  <2>2. CASE v # w
    BY <1>1, <2>2 DEF LockInv, Covered, OpenAt
  <2>. QED
    BY <2>1, <2>2
<1>4. ASSUME NEW v \in Writers, v # w, Writing(v) PROVE FALSE
  <2>1. pc[w] = "lock"
    BY <1>1, <1>4 DEF LockInv, Writing
  <2>2. \A u \in Writers : pc[u] # "done"
    BY <1>4, <2>1 DEF TwoWriters, Writing
  <2>3. holder[LeadFund] = v
    BY <1>4, <2>2 DEF LockInv, FirstHeld, Writing, Statements
  <2>4. holder[LeadFund] = w
    BY <1>1, <2>1, <2>2 DEF LockInv, FirstHeld, Statements
  <2>. QED
    BY <1>4, <2>3, <2>4
<1>5. \A u, v \in Writers : Writing(u)' /\ Writing(v)' => u = v
  BY <1>1, <1>4 DEF LockInv, Writing
<1>. QED
  BY <1>2, <1>3, <1>5 DEF LockInv

LEMMA EndLocks ==
  ASSUME LockInv, TypeOK', LockTypes', NEW w \in Writers, Commit(w) \/ Fail(w) PROVE LockInv'
<1>1. /\ pc[w] \in Statements /\ pc'[w] \in {"done", "failed"}
      /\ \A v \in Writers \ {w} : pc'[v] = pc[v]
      /\ holder' = Released(w) /\ effective' = effective /\ todo' = todo /\ hit' = hit
      /\ pc'[w] = "failed" => rows' = rows
      /\ pc'[w] = "done" => pc[w] = "end"
  BY DEF Commit, Fail, LockInv, LockTypes, Statements
<1>2. FirstHeld'
  <2>. SUFFICES ASSUME \A v \in Writers : pc'[v] # "done"
                PROVE  /\ rows' = {TheFirst}
                       /\ \A v \in Writers : pc'[v] \in Statements =>
                            holder'[LeadFund] = v \/ (pc'[v] = "lock" /\ LeadFund \in todo'[v])
    BY DEF FirstHeld, TheFirst, Row
  <2>1. \A v \in Writers : pc[v] # "done"
    BY <1>1 DEF Statements
  <2>2. /\ rows = {TheFirst}
        /\ \A v \in Writers : pc[v] \in Statements =>
             holder[LeadFund] = v \/ (pc[v] = "lock" /\ LeadFund \in todo[v])
    BY <2>1 DEF LockInv, FirstHeld
  <2>3. \A v \in Writers \ {w} : holder[LeadFund] = v => holder'[LeadFund] = v
    BY <1>1 DEF Released, LockInv, LockTypes
  <2>4. pc'[w] \notin Statements /\ rows' = rows
    BY <1>1 DEF Statements
  <2>. QED
    BY <1>1, <2>2, <2>3, <2>4
<1>3. ASSUME NEW v \in Writers PROVE Covered(v)'
  <2>1. CASE v = w
    BY <1>1, <2>1 DEF Covered
  <2>2. CASE v # w /\ pc'[w] = "done"
    <3>1. ~Writing(v)
      BY <1>1, <2>2 DEF LockInv, Writing
    <3>. QED
      BY <1>1, <2>2, <3>1 DEF Covered, Writing
  <2>3. CASE v # w /\ pc'[w] = "failed"
    BY <1>1, <2>3 DEF LockInv, Covered, OpenAt
  <2>. QED
    BY <1>1, <2>1, <2>2, <2>3
<1>4. \A u, v \in Writers : Writing(u)' /\ Writing(v)' => u = v
  BY <1>1 DEF LockInv, Writing
<1>. QED
  BY <1>2, <1>3, <1>4 DEF LockInv

(* A commit is one update of the rows that were committed.                   *)
LEMMA CommitIsUpdate ==
  ASSUME LockInv, NEW w \in Writers, Commit(w) PROVE UpdateAllocations(Alone(w), effective[w])
<1>. DEFINE eff == effective[w]
            new == Alone(w)
<1>1. /\ rows' = {r \in rows : r.fund \notin hit[w]}
                   \cup {EndedAt(r, eff) : r \in {x \in rows : x.fund \in hit[w] /\ x.from < eff}}
                   \cup {Row(w, Whole, eff)}
      /\ pc[w] = "end" /\ todo[w] = {}
  BY DEF Commit
<1>2. \A r \in rows : /\ r.from >= eff => r.fund \in hit[w]
                      /\ r.from < eff /\ OpenAt(r, eff) => r.fund \in hit[w]
  BY <1>1 DEF LockInv, Covered
<1>3. \A r \in rows : r.fund \notin hit[w] => r.from < eff /\ EndedAt(r, eff) = r
  <2>1. eff \in Int /\ \A r \in rows : r.from \in Int
    BY AllocationAssumption DEF LockInv, LockTypes, TypeOK, Rows, Days
  <2>. QED
    BY <1>2, <2>1 DEF EndedAt
<1>4. {EndedAt(r, eff) : r \in KeptBefore(eff)}
        = {r \in rows : r.fund \notin hit[w]}
            \cup {EndedAt(r, eff) : r \in {x \in rows : x.fund \in hit[w] /\ x.from < eff}}
  BY <1>3 DEF KeptBefore
<1>5. /\ DOMAIN new = {w} /\ new[w] = Whole
      /\ {Row(f, new[f], eff) : f \in DOMAIN new} = {Row(w, Whole, eff)}
  BY DEF Alone
<1>6. Accepted(new)
  <2>1. Whole \in Int /\ PctTolerance \in Nat
    BY WholeAssumption, AllocationAssumption
  <2>. HIDE DEF new
  <2>2. SumFunction(new) = Whole
    BY <1>5, <2>1, SumOfOne
  <2>. QED
    BY <2>1, <2>2 DEF Accepted
<1>. QED
  BY <1>1, <1>4, <1>5, <1>6 DEF UpdateAllocations

LEMMA LockImplements == LockInv /\ [LockNext]_lockVars => [Next]_rows
<1>. SUFFICES ASSUME LockInv, [LockNext]_lockVars PROVE [Next]_rows
  OBVIOUS
<1>1. CASE UNCHANGED lockVars
  BY <1>1 DEF lockVars
<1>2. ASSUME NEW w \in Writers, Commit(w) PROVE Next
  <2>1. Alone(w) \in Requests /\ effective[w] \in Days
    BY WritersAssumption DEF WriterRequests, LockInv, LockTypes
  <2>. QED
    BY <1>2, <2>1, CommitIsUpdate DEF Next
<1>3. ASSUME NEW w \in Writers, Step(w) \/ Fail(w) PROVE Commit(w) \/ UNCHANGED rows
  BY <1>3 DEF Step, Begin, Reach, NextStatement, Fail
<1>. QED
  BY <1>1, <1>2, <1>3 DEF LockNext

LEMMA LockGoesOn == TwoWriters /\ LockInv /\ [LockNext]_lockVars => LockInv'
<1>. SUFFICES ASSUME TwoWriters, LockInv, [LockNext]_lockVars PROVE LockInv'
  OBVIOUS
<1>1. LockTypes' /\ TypeOK'
  BY LockTypesStay, LockImplements, TypeNext DEF LockInv
<1>2. CASE UNCHANGED lockVars
  BY <1>1, <1>2 DEF LockInv, FirstHeld, TheFirst, Row, Covered, Writing, OpenAt, lockVars
<1>3. ASSUME NEW w \in Writers, Step(w) \/ Fail(w) PROVE LockInv'
  BY <1>1, <1>3, BeginLocks, ReachLocks, NextStatementLocks, EndLocks DEF Step
<1>. QED
  BY <1>2, <1>3 DEF LockNext

(* Only its own commit makes a writer done.                                  *)
LEMMA DoneByCommit ==
  ASSUME LockInv, LockNext, NEW w \in Writers, pc'[w] = "done", pc[w] # "done"
  PROVE  UpdateAllocations(Alone(w), effective[w])
<1>1. PICK v \in Writers : Step(v) \/ Fail(v)
  BY DEF LockNext
<1>2. pc \in [Writers -> {"idle", "lock", "delete", "end", "done", "failed"}]
  BY DEF LockInv, LockTypes
<1>3. CASE Commit(v)
  <2>1. v = w
    BY <1>2, <1>3 DEF Commit
  <2>. QED
    BY <1>3, <2>1, CommitIsUpdate
<1>4. CASE ~Commit(v)
  <2>1. Begin(v) \/ (\E fund \in DOMAIN holder : Reach(v, fund)) \/ NextStatement(v) \/ Fail(v)
    BY <1>1, <1>4 DEF Step
  <2>2. pc'[w] = pc[w] \/ pc'[w] \in {"lock", "delete", "end", "failed"}
    BY <1>2, <2>1 DEF Begin, Reach, NextStatement, Fail
  <2>. QED
    BY <2>2
<1>. QED
  BY <1>3, <1>4

(* For any two requests, dated as they may be and interleaved statement by   *)
(* statement, failing where they may: each commit does what the whole        *)
(* request does, alone, to the rows committed before it.                     *)
THEOREM TwoWritersSerialise == ASSUME TwoWriters PROVE LockSpec => Serializable
<1>1. LockInv /\ [LockNext]_lockVars
        => [\A w \in Writers : pc'[w] = "done" /\ pc[w] # "done"
              => UpdateAllocations(Alone(w), effective[w])]_lockVars
  BY DoneByCommit
<1>2. LockInit => LockInv
  BY LockBegins
<1>3. LockInv /\ [LockNext]_lockVars => LockInv'
  BY LockGoesOn
<1>. QED
  BY <1>1, <1>2, <1>3, PTL DEF LockSpec, Serializable

(* And so two overlapping updates keep the promise of the timeline.          *)
THEOREM TwoWritersImplementTimeline == ASSUME TwoWriters PROVE LockSpec => ImplementsTimeline
<1>1. LockInit => Init
  BY WritersAssumption DEF LockInit, Init
<1>2. LockInv /\ [LockNext]_lockVars => [Next]_rows
  BY LockImplements
<1>3. LockInit => LockInv
  BY LockBegins
<1>4. LockInv /\ [LockNext]_lockVars => LockInv'
  BY LockGoesOn
<1>5. LockSpec => Spec
  BY <1>1, <1>2, <1>3, <1>4, PTL DEF LockSpec, Spec
<1>. QED
  BY <1>5, Refinement

-----------------------------------------------------------------------------
(***************************************************************************)
(* Portfolios: a step boards the loan, changes its shares as               *)
(* AllocationHistory does, or leaves them alone.                           *)
(***************************************************************************)
KnownStatuses == {"none", "boarding", "approved", "funded", "modified", "delinquent", "default",
                  "workout", "payoff_pending", "paid_off", "charged_off", "transferred"}

\* The delinquency records, one a day at most.
RecordOK == /\ DOMAIN record \subseteq Days
            /\ \A d \in DOMAIN record : record[d].dpd \in Nat /\ record[d].pastDue \in Nat
\* The shares are rows of the table; a loan that is not boarded has none.
PTypeInv == /\ TypeOK
            /\ status \in KnownStatuses
            /\ status = "none" => rows = {}
            /\ fundStatus \in [Funds -> {"active", "closed"}]
            /\ closing \subseteq Funds
            /\ owed \in Nat /\ today \in Days /\ RecordOK

Board == rows = {} /\ \E from \in Days : rows' = {Row(LeadFund, Whole, from)}

LEMMA RowSteps ==
  ASSUME PTypeInv, [PNext]_portfolioVars
  PROVE  [Next]_rows \/ Board
<1>1. ASSUME NEW from \in Days, CreateLoan(from) PROVE Board
  BY <1>1 DEF CreateLoan, PTypeInv, Board
<1>2. ASSUME NEW new \in Requests, NEW eff \in Days, ChangeShares(new, eff) PROVE Next
  BY <1>2 DEF ChangeShares, Next
<1>3. CASE UNCHANGED rows
  BY <1>3
<1>. QED
  BY <1>1, <1>2, <1>3 DEF PNext, portfolioVars, Payoff, NextDay, Close, Check, UpdateStatus, Age, ReopenFund

LEMMA PTypeNext == PTypeInv /\ [PNext]_portfolioVars => PTypeInv'
<1>. SUFFICES ASSUME PTypeInv, [PNext]_portfolioVars PROVE PTypeInv'
  OBVIOUS
<1>1. TypeOK'
  <2>1. CASE [Next]_rows
    BY <2>1, TypeNext DEF PTypeInv
  <2>2. CASE Board
    BY <2>2, AllocationAssumption, WholeAssumption DEF Board, TypeOK, Rows, Row, OpenAt
  <2>. QED
    BY <2>1, <2>2, RowSteps
<1>2. status' \in KnownStatuses /\ (status' = "none" => rows' = {})
  <2>1. ASSUME NEW from \in Days, CreateLoan(from) PROVE <1>2
    BY <2>1 DEF CreateLoan, KnownStatuses
  <2>2. ASSUME NEW new \in Statuses, UpdateStatus(new) PROVE <1>2
    BY <2>2, PortfolioAssumption DEF UpdateStatus, KnownStatuses
  <2>3. ASSUME NEW new \in Requests, NEW eff \in Days, ChangeShares(new, eff) PROVE <1>2
    BY <2>3 DEF ChangeShares, PTypeInv
  <2>4. CASE Payoff
    BY <2>4 DEF Payoff, KnownStatuses
  <2>5. CASE UNCHANGED <<rows, status>>
    BY <2>5 DEF PTypeInv
  <2>. QED
    BY <2>1, <2>2, <2>3, <2>4, <2>5 DEF PNext, portfolioVars, NextDay, Close, Check, Age, ReopenFund
<1>3. fundStatus' \in [Funds -> {"active", "closed"}] /\ closing' \subseteq Funds
  <2>1. CASE Close
    BY <2>1 DEF Close, PTypeInv
  <2>2. ASSUME NEW funds \in SUBSET Funds, Check(funds) PROVE <1>3
    BY <2>2 DEF Check, PTypeInv
  <2>3. ASSUME NEW f \in Funds, ReopenFund(f) PROVE <1>3
    BY <2>3 DEF ReopenFund, PTypeInv
  <2>4. CASE UNCHANGED <<fundStatus, closing>>
    BY <2>4 DEF PTypeInv
  <2>. QED
    BY <2>1, <2>2, <2>3, <2>4
    DEF PNext, portfolioVars, Payoff, NextDay, CreateLoan, UpdateStatus, ChangeShares, Age
<1>4. owed' \in Nat /\ today' \in Days
  <2>1. ASSUME NEW from \in Days, CreateLoan(from) PROVE <1>4
    BY <2>1, PortfolioAssumption DEF CreateLoan, PTypeInv
  <2>2. CASE Payoff
    BY <2>2 DEF Payoff, PTypeInv
  <2>3. CASE NextDay
    BY <2>3, AllocationAssumption DEF NextDay, PTypeInv, Days
  <2>4. CASE UNCHANGED <<owed, today>>
    BY <2>4 DEF PTypeInv
  <2>. QED
    BY <2>1, <2>2, <2>3, <2>4
    DEF PNext, portfolioVars, UpdateStatus, ChangeShares, Age, Close, Check, ReopenFund
<1>5. RecordOK'
  <2>1. ASSUME NEW found \in PastDues, Age(found) PROVE RecordOK'
    <3>1. /\ DOMAIN record' = DOMAIN record \cup {today}
          /\ \A d \in DOMAIN record' : record'[d] = IF d = today THEN found ELSE record[d]
      BY <2>1 DEF Age
    <3>2. found.dpd \in Nat /\ found.pastDue \in Nat
      BY PortfolioAssumption
    <3>. QED
      BY <3>1, <3>2 DEF RecordOK, PTypeInv
  <2>2. CASE UNCHANGED record
    BY <2>2 DEF RecordOK, PTypeInv
  <2>. QED
    BY <2>1, <2>2
    DEF PNext, portfolioVars, Payoff, NextDay, CreateLoan, UpdateStatus, ChangeShares, Close, Check, ReopenFund
<1>. QED
  BY <1>1, <1>2, <1>3, <1>4, <1>5 DEF PTypeInv

LEMMA PTypeInit == PInit => PTypeInv
  BY AllocationAssumption DEF PInit, PTypeInv, TypeOK, KnownStatuses, RecordOK, Days

(***************************************************************************)
(* The owners of the loan.                                                 *)
(***************************************************************************)
(* The owners a boarded loan starts with.                                   *)
LEMMA BoardOwners ==
  ASSUME NEW from \in Days, rows' = {Row(LeadFund, Whole, from)}, NEW d \in Days
  PROVE  Owners(d)' = IF d >= from THEN {<<LeadFund, Whole>>} ELSE {}
<1>. DEFINE r == Row(LeadFund, Whole, from)
<1>1. r.from = from /\ r.fund = LeadFund /\ r.pct = Whole /\ OpenAt(r, d)
  BY DEF Row, OpenAt
<1>2. d \in Int /\ from \in Int
  BY AllocationAssumption, WholeAssumption DEF Days
<1>. HIDE DEF r
<1>3. ActiveOn(d)' = IF d >= from THEN {r} ELSE {}
  BY <1>1, <1>2 DEF ActiveOn, OpenAt, r
<1>. QED
  BY <1>1, <1>3 DEF Owners

LEMMA NoOwners ==
  ASSUME rows = {}, NEW d \in Days
  PROVE  Owners(d) = {}
BY DEF Owners, ActiveOn

LEMMA POneSetNext == PTypeInv /\ OneSetAtATime /\ [PNext]_portfolioVars => OneSetAtATime'
<1>. SUFFICES ASSUME PTypeInv, OneSetAtATime, [PNext]_portfolioVars PROVE OneSetAtATime'
  OBVIOUS
<1>1. CASE [Next]_rows
  BY <1>1, OneSetNext DEF PTypeInv
<1>2. CASE Board
  <2>1. PICK from \in Days : rows' = {Row(LeadFund, Whole, from)}
    BY <1>2 DEF Board
  <2>. SUFFICES ASSUME NEW d \in Days
                PROVE  /\ Owners(d)' = {} \/ Owners(d)' = {<<LeadFund, Whole>>}
                       /\ d > 0 /\ Owners(d - 1)' # {} => Owners(d)' # {}
    BY DEF OneSetAtATime
  <2>2. Owners(d)' = IF d >= from THEN {<<LeadFund, Whole>>} ELSE {}
    BY <2>1, BoardOwners
  <2>3. ASSUME d > 0 PROVE Owners(d - 1)' = IF d - 1 >= from THEN {<<LeadFund, Whole>>} ELSE {}
    <3>1. d - 1 \in Days
      BY <2>3, AllocationAssumption, WholeAssumption DEF Days
    <3>. QED
      BY <2>1, <3>1, BoardOwners
  <2>. QED
    BY <2>2, <2>3, AllocationAssumption, WholeAssumption DEF Days
<1>. QED
  BY <1>1, <1>2, RowSteps

(* Whatever the order of boarding, reallocations, closings and status        *)
(* changes, every day of the loan has one accepted set of owners.            *)
THEOREM OneSetAlways == PSpec => []OneSetAtATime
<1>1. PInit => OneSetAtATime
  <2>. SUFFICES ASSUME rows = {}, NEW d \in Days
                PROVE  Owners(d) = {} /\ (d > 0 => Owners(d - 1) = {})
    BY DEF PInit, OneSetAtATime
  <2>1. Owners(d) = {}
    BY NoOwners
  <2>2. ASSUME d > 0 PROVE Owners(d - 1) = {}
    <3>1. d - 1 \in Days
      BY <2>2, AllocationAssumption, WholeAssumption DEF Days
    <3>. QED
      BY <3>1, NoOwners
  <2>. QED
    BY <2>1, <2>2
<1>. QED
  BY <1>1, PTypeInit, PTypeNext, POneSetNext, PTL DEF PSpec

(* The shares of the portfolios implement the timeline without rows.        *)
THEOREM PortfoliosImplementTimeline == PSpec => ImplementsTimeline
<1>. DEFINE sets == {Pairs(new) : new \in Requests} \cup {{<<LeadFund, Whole>>}}
            owners == [d \in Days |-> Owners(d)]
<1>1. PInit => Timeline!Init
  <2>. SUFFICES ASSUME rows = {} PROVE owners \in [Days -> sets \cup {{}}]
    BY DEF PInit, Timeline!Init, Timeline!Days, Days
  <2>. QED
    BY NoOwners
<1>2. PTypeInv /\ [PNext]_portfolioVars => [Timeline!Next]_owners
  <2>. SUFFICES ASSUME PTypeInv, [PNext]_portfolioVars PROVE Timeline!Next \/ owners' = owners
    OBVIOUS
  <2>1. ASSUME NEW new \in Requests, NEW eff \in Days, UpdateAllocations(new, eff)
        PROVE  Timeline!Next
    <3>1. owners' = [d \in Days |-> IF d >= eff THEN Pairs(new) ELSE owners[d]]
      BY <2>1, OwnersAfter DEF PTypeInv
    <3>2. Timeline!Replace(Pairs(new), eff)
      BY <3>1 DEF Timeline!Replace, Timeline!Days, Days
    <3>3. Pairs(new) \in sets
      OBVIOUS
    <3>. QED
      BY <3>2, <3>3 DEF Timeline!Next, Timeline!Days, Days
  <2>2. ASSUME Board PROVE Timeline!Next
    <3>1. PICK from \in Days : rows' = {Row(LeadFund, Whole, from)}
      BY <2>2 DEF Board
    <3>2. owners' = [d \in Days |-> IF d >= from THEN {<<LeadFund, Whole>>} ELSE owners[d]]
      BY <2>2, <3>1, BoardOwners, NoOwners DEF Board
    <3>3. Timeline!Replace({<<LeadFund, Whole>>}, from)
      BY <3>2 DEF Timeline!Replace, Timeline!Days, Days
    <3>4. {<<LeadFund, Whole>>} \in sets
      OBVIOUS
    <3>. QED
      BY <3>3, <3>4 DEF Timeline!Next, Timeline!Days, Days
  <2>3. CASE UNCHANGED rows
    BY <2>3 DEF Owners, ActiveOn
  <2>. QED
    BY <2>1, <2>2, <2>3, RowSteps DEF Next
<1>. QED
  BY <1>1, <1>2, PTypeInit, PTypeNext, PTL DEF PSpec, ImplementsTimeline, Timeline!Spec

(***************************************************************************)
(* Closing.                                                                *)
(***************************************************************************)
\* What holds of closed funds holds of those whose check has passed.
CloseInv == \A f \in Funds : \A r \in rows :
              (/\ f \in closing \/ fundStatus[f] = "closed"
               /\ r.fund = f /\ r.to = NoEnd /\ status # "paid_off") => f \in since

LEMMA CloseNext == PTypeInv /\ CloseInv /\ [PNext]_portfolioVars => CloseInv'
<1>. SUFFICES ASSUME PTypeInv, CloseInv, [PNext]_portfolioVars,
                     NEW f \in Funds, NEW r \in rows',
                     f \in closing' \/ fundStatus'[f] = "closed",
                     r.fund = f, r.to = NoEnd, status' # "paid_off"
              PROVE  f \in since'
  BY DEF CloseInv
<1>1. ASSUME NEW from \in Days, CreateLoan(from) PROVE f \in since'
  BY <1>1 DEF CreateLoan, Row
<1>2. ASSUME NEW new \in Requests, NEW eff \in Days, ChangeShares(new, eff) PROVE f \in since'
  <2>1. CASE \E old \in rows : old.from < eff /\ r = EndedAt(old, eff)
    <3>1. PICK old \in rows : r = EndedAt(old, eff)
      BY <2>1
    <3>2. eff # NoEnd /\ old \in Rows
      BY AllocationAssumption, WholeAssumption DEF Days, PTypeInv, TypeOK
    <3>. QED
      BY <3>1, <3>2 DEF EndedAt, OpenAt, Rows
  <2>2. CASE \E g \in DOMAIN new : r = Row(g, new[g], eff)
    BY <1>2, <2>2 DEF ChangeShares, Row
  <2>. QED
    BY <1>2, <2>1, <2>2, RowsAfter DEF ChangeShares
<1>3. ASSUME NEW new \in Statuses, UpdateStatus(new) PROVE f \in since'
  <2>1. status # "paid_off"
    BY <1>3 DEF UpdateStatus, STATUS_TRANSITIONS
  <2>. QED
    BY <1>3, <2>1 DEF UpdateStatus, CloseInv
<1>4. CASE Payoff
  BY <1>4 DEF Payoff
<1>5. ASSUME NEW funds \in SUBSET Funds, Check(funds) PROVE f \in since'
  <2>1. CASE f \in funds
    <3>1. status # "written_off" /\ r \in rows /\ status # "paid_off"
      BY <1>5 DEF PTypeInv, KnownStatuses, Check
    <3>2. r \in Unfinished(funds)
      BY <2>1, <3>1 DEF Unfinished
    <3>. QED
      BY <1>5, <3>2 DEF Check
  <2>2. CASE f \notin funds
    BY <1>5, <2>2 DEF Check, CloseInv
  <2>. QED
    BY <2>1, <2>2
<1>6. CASE Close
  BY <1>6 DEF Close, CloseInv
<1>7. ASSUME NEW g \in Funds, ReopenFund(g) PROVE f \in since'
  BY <1>7 DEF ReopenFund, CloseInv, PTypeInv
<1>8. CASE UNCHANGED <<rows, status, fundStatus, closing, since>>
  BY <1>8 DEF CloseInv
<1>. QED
  BY <1>1, <1>2, <1>3, <1>4, <1>5, <1>6, <1>7, <1>8 DEF PNext, portfolioVars, NextDay, Age

(* A closed fund holds an open share of an unfinished loan only if it was     *)
(* given the share after its close request had counted its shares.            *)
THEOREM ClosedFundsAreEmpty == PSpec => []ClosedWhenEmpty
<1>1. PInit => CloseInv
  BY DEF PInit, CloseInv
<1>2. CloseInv => ClosedWhenEmpty
  BY DEF CloseInv, ClosedWhenEmpty
<1>. QED
  BY <1>1, <1>2, PTypeInit, PTypeNext, CloseNext, PTL DEF PSpec

-----------------------------------------------------------------------------
(***************************************************************************)
(* AllocationSplit: the cents handed out add up to the amount, and nobody  *)
(* gets a cent more or less than the share.                                *)
(***************************************************************************)
LEMMA DivMod ==
  ASSUME NEW v \in Int, NEW w \in Nat \ {0}
  PROVE  /\ v \div w \in Int /\ v % w \in Nat /\ v % w < w
         /\ v = w * (v \div w) + (v % w)
OBVIOUS

LEMMA AtMost ==
  ASSUME NEW r \in Int, NEW k \in Int, NEW w \in Nat \ {0}, w * r < w * (k + 1)
  PROVE  r <= k
OBVIOUS

LEMMA ScaledMismatch ==
  ASSUME NEW amount \in Nat, NEW t \in Nat, NEW e \in -t .. t
  PROVE  amount * e \in Int /\ amount * e <= amount * t /\ amount * e >= -(amount * t)
OBVIOUS

(* What truncation takes from each owner, and what is left over of it all,  *)
(* of shares that make the whole and e more.                                *)
Taken(amount, pcts, F, M) == \A i \in DOMAIN pcts : amount * pcts[i] = Whole * F[i] + M[i]
LeftOver(amount, e, F, M) == Whole * (amount - SumFunction(F)) = SumFunction(M) - amount * e
Mismatches == -PctTolerance .. PctTolerance

(* The cents the tolerance makes of an amount.                              *)
Slack(amount) == (amount * PctTolerance) \div Whole

LEMMA SlackOf ==
  ASSUME NEW amount \in Nat
  PROVE  /\ Slack(amount) \in Nat /\ amount * PctTolerance \in Nat
         /\ amount * PctTolerance < Whole * (Slack(amount) + 1)
         /\ Small(amount) => Slack(amount) = 0
         /\ \A n \in Nat : /\ Drift(amount, n) = IF Small(amount) THEN 0 ELSE n + Slack(amount)
                          /\ Drift(amount, n) \in Nat
<1>. DEFINE d == amount * PctTolerance
            q == d \div Whole
<1>1. d \in Nat /\ Whole \in Nat \ {0}
  BY WholeAssumption
<1>2. Slack(amount) = q /\ (Small(amount) <=> d < Whole)
  BY DEF Slack, Small
<1>3. \A n \in Nat : Drift(amount, n) = IF Small(amount) THEN 0 ELSE n + q
  BY DEF Drift
<1>. HIDE DEF d
<1>4. q \in Int /\ d % Whole \in Nat /\ d % Whole < Whole /\ d = Whole * q + (d % Whole)
  BY <1>1, DivMod
<1>. DEFINE m == d % Whole
<1>5. m \in Nat /\ m < Whole /\ d = Whole * q + m
  BY <1>4
<1>. HIDE DEF q, m
<1>6. d < Whole * (q + 1) /\ q >= 0
  <2>1. Whole * (q + 1) = Whole * q + Whole /\ Whole * q \in Int
    BY <1>1, <1>4
  <2>2. d < Whole * (q + 1)
    BY <1>1, <1>4, <1>5, <2>1
  <2>3. Whole * (-1) < Whole * (q + 1)
    BY <1>1, <1>4, <2>2
  <2>. QED
    BY <1>1, <1>4, <2>2, <2>3
<1>7. d < Whole => q = 0
  <2>. SUFFICES ASSUME d < Whole PROVE q <= 0
    BY <1>4, <1>6
  <2>1. Whole * q < Whole * (0 + 1)
    BY <1>1, <1>4, <1>5
  <2>. QED
    BY <1>1, <1>4, <2>1, AtMost
<1>8. q \in Nat
  BY <1>4, <1>6
<1>. QED
  BY <1>1, <1>2, <1>3, <1>6, <1>7, <1>8 DEF d

LEMMA Residual ==
  ASSUME NEW amount \in Nat, NEW n \in Nat, NEW pcts \in [1 .. n -> Nat],
         NEW e \in Mismatches, SumFunction(pcts) = Whole + e,
         NEW F, F = Floors(amount, pcts),
         NEW M, M = Remainders(amount, pcts)
  PROVE  /\ Summable(F) /\ Summable(M) /\ DOMAIN F = 1 .. n /\ DOMAIN M = 1 .. n
         /\ \A i \in 1 .. n : F[i] \in Int /\ M[i] \in Nat /\ M[i] < Whole
         /\ SumFunction(F) \in Int /\ SumFunction(M) >= 0
         /\ Taken(amount, pcts, F, M) /\ LeftOver(amount, e, F, M)
<1>0. Whole \in Nat \ {0} /\ DOMAIN pcts = 1 .. n /\ (\A i \in 1 .. n : pcts[i] \in Nat) /\ e \in Int
  BY WholeAssumption DEF Mismatches
<1>1. IsFiniteSet(1 .. n)
  BY FS_Interval
<1>2. DOMAIN F = 1 .. n /\ DOMAIN M = 1 .. n
  BY <1>0 DEF Floors, Remainders
<1>3. ASSUME NEW i \in 1 .. n
      PROVE  /\ F[i] \in Int /\ M[i] \in Nat /\ M[i] < Whole
             /\ amount * pcts[i] = Whole * F[i] + M[i]
  <2>. DEFINE v == amount * pcts[i]
  <2>1. v \in Int
    BY <1>0
  <2>2. F[i] = v \div Whole /\ M[i] = v % Whole
    BY <1>0 DEF Floors, Remainders
  <2>. HIDE DEF v
  <2>3. /\ v \div Whole \in Int /\ v % Whole \in Nat /\ v % Whole < Whole
        /\ v = Whole * (v \div Whole) + (v % Whole)
    BY <1>0, <2>1, DivMod
  <2>4. F[i] \in Int /\ M[i] \in Nat /\ M[i] < Whole /\ v = Whole * F[i] + M[i]
    BY <2>2, <2>3, Zenon
  <2>. QED
    BY <2>4, Zenon DEF v
<1>4. Summable(pcts) /\ Summable(F) /\ Summable(M)
  BY <1>0, <1>1, <1>2, <1>3 DEF Summable
<1>. DEFINE A == [i \in 1 .. n |-> amount * pcts[i]]
            B == [i \in 1 .. n |-> Whole * F[i]]
<1>5. SumFunction(A) = amount * (Whole + e)
  <2>1. DOMAIN A = DOMAIN pcts /\ \A i \in DOMAIN pcts : A[i] = amount * pcts[i]
    BY <1>0
  <2>. HIDE DEF A
  <2>2. SumFunction(A) = amount * SumFunction(pcts)
    BY <1>4, <2>1, SumTimes
  <2>. QED
    BY <2>2
<1>6. Summable(B) /\ SumFunction(B) = Whole * SumFunction(F)
  BY <1>0, <1>2, <1>4, SumTimes
<1>7. SumFunction(A) = SumFunction(B) + SumFunction(M)
  <2>1. DOMAIN A = 1 .. n /\ DOMAIN B = 1 .. n /\ \A i \in 1 .. n : A[i] = B[i] + M[i]
    BY <1>3
  <2>. HIDE DEF A, B
  <2>. QED
    BY <1>2, <1>4, <1>6, <2>1, SumPlus
<1>8. SumFunction(F) \in Int /\ SumFunction(M) \in Int /\ SumFunction(M) >= 0
  BY <1>2, <1>3, <1>4, SumIsInt, SumNotNegative
<1>9. Whole * (amount - SumFunction(F)) = SumFunction(M) - amount * e
  <2>. DEFINE sf == SumFunction(F)
              sm == SumFunction(M)
              ae == amount * e
              aw == amount * Whole
              wf == Whole * sf
  <2>1. amount * (Whole + e) = wf + sm /\ sf \in Int /\ sm \in Int
    BY <1>5, <1>6, <1>7, <1>8
  <2>2. amount * (Whole + e) = aw + ae /\ aw \in Int /\ ae \in Int
    BY <1>0
  <2>. HIDE DEF sf, sm
  <2>3. wf \in Int /\ Whole * (amount - sf) = aw - wf
    BY <1>0, <2>1
  <2>. HIDE DEF aw, ae, wf
  <2>4. Whole * (amount - sf) = sm - ae
    BY <2>1, <2>2, <2>3
  <2>. QED
    BY <2>4 DEF sf, sm, ae
<1>10. Taken(amount, pcts, F, M)
  BY <1>0, <1>3, Zenon DEF Taken
<1>11. LeftOver(amount, e, F, M)
  BY <1>9 DEF LeftOver
<1>. QED
  BY <1>2, <1>3, <1>4, <1>8, <1>10, <1>11

(* There are no more cents left over than owners truncation took from, but  *)
(* for the cents the mismatch makes of a large amount.                      *)
LEMMA ResidualIsSmall ==
  ASSUME NEW amount \in Nat, NEW n \in Nat, NEW pcts \in [1 .. n -> Nat],
         NEW e \in Mismatches, SumFunction(pcts) = Whole + e,
         NEW F, F = Floors(amount, pcts),
         NEW M, M = Remainders(amount, pcts),
         NEW cut, cut = {i \in 1 .. n : M[i] > 0}
  PROVE  /\ Cardinality(cut) \in Nat /\ Cardinality(cut) <= n
         /\ amount - SumFunction(F) \in -Slack(amount) .. Cardinality(cut) + Slack(amount)
<1>. DEFINE r == amount - SumFunction(F)
            z == Cardinality(cut)
            ones == [i \in 1 .. n |-> IF i \in cut THEN 1 ELSE 0]
            caps == [i \in 1 .. n |-> (Whole - 1) * ones[i]]
            gap == [i \in 1 .. n |-> caps[i] - M[i]]
<1>0. Whole \in Nat \ {0}
  BY WholeAssumption
<1>1. /\ Summable(F) /\ Summable(M) /\ DOMAIN F = 1 .. n /\ DOMAIN M = 1 .. n
      /\ \A i \in 1 .. n : M[i] \in Nat /\ M[i] < Whole
      /\ SumFunction(F) \in Int /\ SumFunction(M) >= 0
      /\ Whole * r = SumFunction(M) - amount * e
  <2>1. LeftOver(amount, e, F, M)
    BY Residual
  <2>2. Whole * r = SumFunction(M) - amount * e
    BY <2>1, Zenon DEF LeftOver
  <2>3. /\ Summable(F) /\ Summable(M) /\ DOMAIN F = 1 .. n /\ DOMAIN M = 1 .. n
        /\ \A i \in 1 .. n : M[i] \in Nat /\ M[i] < Whole
        /\ SumFunction(F) \in Int /\ SumFunction(M) >= 0
    BY Residual
  <2>. HIDE DEF r
  <2>. QED
    BY <2>2, <2>3
<1>2. IsFiniteSet(1 .. n) /\ Cardinality(1 .. n) = n
  BY FS_Interval
<1>3. cut \in SUBSET (1 .. n) /\ z \in Nat /\ z <= n
  BY <1>2, FS_Subset, FS_CardinalityType
<1>4. Summable(ones) /\ SumFunction(ones) = z
  <2>1. /\ DOMAIN ones = 1 .. n /\ \A i \in cut : ones[i] = 1
        /\ \A i \in (1 .. n) \ cut : ones[i] = 0
    OBVIOUS
  <2>. HIDE DEF ones
  <2>. QED
    BY <1>2, <1>3, <2>1, CountIsSum
<1>5. Summable(caps) /\ SumFunction(caps) = (Whole - 1) * z
  <2>1. /\ DOMAIN caps = DOMAIN ones /\ \A i \in DOMAIN ones : caps[i] = (Whole - 1) * ones[i]
        /\ Whole - 1 \in Int
    BY <1>0
  <2>. HIDE DEF caps, ones
  <2>. QED
    BY <1>4, <2>1, SumTimes
<1>6. \A i \in 1 .. n : caps[i] \in Int /\ M[i] \in Int
  <2>1. DOMAIN caps = 1 .. n
    OBVIOUS
  <2>. HIDE DEF caps
  <2>. QED
    BY <1>1, <1>5, <2>1 DEF Summable
<1>7. Summable(gap) /\ SumFunction(gap) = (Whole - 1) * z - SumFunction(M)
  <2>1. /\ DOMAIN caps = 1 .. n /\ DOMAIN gap = 1 .. n
        /\ \A i \in 1 .. n : gap[i] = caps[i] - M[i]
    OBVIOUS
  <2>. HIDE DEF gap, caps
  <2>a. \A i \in 1 .. n : gap[i] \in Int /\ caps[i] = gap[i] + M[i]
    BY <1>6, <2>1
  <2>2. Summable(gap) /\ \A i \in 1 .. n : caps[i] = gap[i] + M[i]
    BY <1>2, <2>1, <2>a DEF Summable
  <2>3. SumFunction(caps) = SumFunction(gap) + SumFunction(M)
    BY <1>1, <2>1, <2>2, SumPlus
  <2>4. SumFunction(M) \in Int /\ SumFunction(gap) \in Int /\ SumFunction(caps) \in Int
    BY <1>1, <1>5, <2>2, SumIsInt
  <2>. QED
    BY <1>5, <2>2, <2>3, <2>4
<1>8. \A i \in 1 .. n : gap[i] >= 0
  <2>. SUFFICES ASSUME NEW i \in 1 .. n PROVE (Whole - 1) * ones[i] - M[i] >= 0
    OBVIOUS
  <2>1. CASE i \in cut
    <3>1. ones[i] = 1 /\ M[i] \in Nat /\ M[i] < Whole
      BY <1>1, <2>1
    <3>. HIDE DEF ones
    <3>. QED
      BY <1>0, <3>1
  <2>2. CASE i \notin cut
    <3>1. ones[i] = 0 /\ M[i] = 0
      BY <1>1, <2>2
    <3>. HIDE DEF ones
    <3>. QED
      BY <1>0, <3>1
  <2>. QED
    BY <2>1, <2>2
<1>9. SumFunction(gap) >= 0
  <2>1. DOMAIN gap = 1 .. n
    OBVIOUS
  <2>. HIDE DEF gap
  <2>. QED
    BY <1>7, <1>8, <2>1, SumNotNegative
<1>10. r \in Int
  BY <1>1
<1>. DEFINE ae == amount * e
            at == amount * PctTolerance
            q == Slack(amount)
            sm == SumFunction(M)
<1>11. /\ ae \in Int /\ ae <= at /\ ae >= -at /\ at \in Nat
       /\ q \in Nat /\ at < Whole * (q + 1)
  <2>1. PctTolerance \in Nat
    BY WholeAssumption
  <2>. QED
    BY <2>1, ScaledMismatch, SlackOf DEF Mismatches
<1>12. /\ sm \in Int /\ sm >= 0 /\ sm <= (Whole - 1) * z
       /\ Whole * r = sm - ae
  <2>1. sm \in Int
    BY <1>1, SumIsInt
  <2>2. (Whole - 1) * z \in Int
    BY <1>0, <1>3
  <2>. HIDE DEF r, z, gap
  <2>. QED
    BY <1>1, <1>7, <1>9, <2>1, <2>2
<1>. HIDE DEF r, z, gap, ae, at, q, sm
<1>13. r <= z + q
  <2>. DEFINE wz == Whole * z
              wq == Whole * q
  <2>1. (Whole - 1) * z = wz - z /\ wz \in Int
    BY <1>0, <1>3
  <2>2. Whole * (q + 1) = wq + Whole /\ wq \in Int
    BY <1>0, <1>11
  <2>3. Whole * (z + q + 1) = wz + wq + Whole
    BY <1>0, <1>3, <1>11
  <2>. HIDE DEF wz, wq
  <2>4. Whole * r < wz + wq + Whole
    BY <1>0, <1>3, <1>10, <1>11, <1>12, <2>1, <2>2
  <2>5. Whole * r < Whole * ((z + q) + 1) /\ z + q \in Int
    BY <1>3, <1>11, <2>3, <2>4
  <2>. QED
    BY <1>0, <1>10, <2>5, AtMost
<1>14. -r <= q
  <2>1. Whole * (-r) = -(Whole * r)
    BY <1>0, <1>10
  <2>2. Whole * (-r) < Whole * (q + 1) /\ -r \in Int /\ q \in Int
    BY <1>0, <1>10, <1>11, <1>12, <2>1
  <2>. HIDE DEF r
  <2>. QED
    BY <1>0, <2>2, AtMost
<1>15. r \in -q .. z + q /\ z \in Nat /\ z <= n
  BY <1>3, <1>10, <1>11, <1>13, <1>14
<1>. QED
  BY <1>15 DEF r, z, q

(* As many owners are favoured as there are cents left over, but no more    *)
(* than there are; a negative residual leaves as many out.  No one whom     *)
(* truncation took more from is left out, and if there are few cents only   *)
(* such as it took from are favoured.                                       *)
FavouredCount(r, n) == IF r > n THEN n ELSE IF r >= 0 THEN r ELSE IF n + r < 0 THEN 0 ELSE n + r

LEMMA FavouredOwners ==
  ASSUME NEW amount \in Nat, NEW n \in Nat, NEW pcts \in [1 .. n -> Nat],
         NEW e \in Mismatches, SumFunction(pcts) = Whole + e,
         NEW F, F = Floors(amount, pcts),
         NEW M, M = Remainders(amount, pcts)
  PROVE  /\ Favoured(amount, pcts) \in SUBSET (1 .. n)
         /\ Cardinality(Favoured(amount, pcts)) = FavouredCount(amount - SumFunction(F), n)
         /\ Small(amount) => \A i \in Favoured(amount, pcts) : M[i] > 0
         /\ \A i \in Favoured(amount, pcts), j \in (1 .. n) \ Favoured(amount, pcts) : M[i] >= M[j]
<1>. DEFINE S == 1 .. n
            r == amount - SumFunction(F)
            count == IF r >= 0 THEN r ELSE n + r
            c == FavouredCount(r, n)
            cut == {i \in S : M[i] > 0}
            Prior(i, j) == \/ M[i] > M[j]
                           \/ M[i] = M[j] /\ F[i] > F[j]
                           \/ M[i] = M[j] /\ F[i] = F[j] /\ i < j
            below == [i \in S |-> {j \in S : Prior(j, i)}]
            first == {i \in S : Cardinality(below[i]) < c}
<1>1. DOMAIN pcts = S /\ (\A i \in S : F[i] \in Int /\ M[i] \in Nat) /\ r \in Int
  BY Residual
<1>2. IsFiniteSet(S) /\ Cardinality(S) = n
  BY FS_Interval
<1>3. /\ c \in 0 .. n
      /\ Small(amount) => c <= Cardinality(cut) /\ Cardinality(cut) \in Nat
  <2>. HIDE DEF r
  <2>1. c \in 0 .. n
    BY <1>1 DEF FavouredCount
  <2>2. ASSUME Small(amount) PROVE c <= Cardinality(cut) /\ Cardinality(cut) \in Nat
    <3>1. r \in -Slack(amount) .. Cardinality(cut) + Slack(amount) /\ Cardinality(cut) \in Nat
          /\ Cardinality(cut) <= n
      BY ResidualIsSmall DEF r
    <3>2. Slack(amount) = 0
      BY <2>2, SlackOf
    <3>. HIDE DEF cut
    <3>. QED
      BY <3>1, <3>2 DEF FavouredCount
  <2>. QED
    BY <2>1, <2>2
<1>a. \A i \in S : Cardinality(below[i]) \in Nat /\ Cardinality(below[i]) < n
  <2>. SUFFICES ASSUME NEW i \in S PROVE Cardinality(below[i]) \in Nat /\ Cardinality(below[i]) < n
    OBVIOUS
  <2>1. below[i] \in SUBSET (S \ {i})
    BY <1>1
  <2>2. IsFiniteSet(S \ {i}) /\ Cardinality(S \ {i}) = n - 1
    BY <1>2, FS_RemoveElement
  <2>. HIDE DEF below, S
  <2>3. Cardinality(below[i]) \in Nat /\ Cardinality(below[i]) <= n - 1
    BY <2>1, <2>2, FS_Subset, FS_CardinalityType
  <2>. QED
    BY <2>3
<1>4. Favoured(amount, pcts) = first
  <2>1. \A i, j \in S : Before(amount, pcts, j, i) <=> Prior(j, i)
    BY DEF Before
  <2>2. ASSUME NEW i \in S PROVE Rank(amount, pcts, i) = Cardinality(below[i])
    <3>1. {j \in DOMAIN pcts : Before(amount, pcts, j, i)} = below[i]
      BY <1>1, <2>1
    <3>2. Rank(amount, pcts, i)
            = Cardinality({j \in DOMAIN pcts : Before(amount, pcts, j, i)})
      BY DEF Rank
    <3>. HIDE DEF below
    <3>. QED
      BY <3>1, <3>2, Zenon
  <2>3. Len(pcts) = n
    OBVIOUS
  <2>4. Favoured(amount, pcts)
          = {i \in DOMAIN pcts : Rank(amount, pcts, i) < IF r >= 0 THEN r ELSE Len(pcts) + r}
    BY Zenon DEF Favoured
  <2>. HIDE DEF below, r, S
  <2>5. Favoured(amount, pcts) = {i \in S : Rank(amount, pcts, i) < count}
    BY <1>1, <2>3, <2>4
  <2>6. \A x \in Nat : x < n => (x < count <=> x < c)
    BY <1>1 DEF FavouredCount
  <2>. HIDE DEF count, c
  <2>. QED
    BY <1>a, <2>2, <2>5, <2>6
<1>5. /\ \A i \in S : i \notin below[i]
      /\ \A i, j \in S : i \in below[j] => below[i] \subseteq below[j]
      /\ \A i, j \in S : i # j => i \in below[j] \/ j \in below[i]
  <2>1. \A i, j \in S : i \in below[j] <=> Prior(i, j)
    OBVIOUS
  <2>2. S \subseteq Int /\ \A i \in S : below[i] \subseteq S
    OBVIOUS
  <2>. HIDE DEF below, S
  <2>3. \A i \in S : ~Prior(i, i)
    BY <1>1, <2>2
  <2>4. ASSUME NEW i \in S, NEW j \in S, NEW k \in S, Prior(i, j), Prior(j, k)
        PROVE  Prior(i, k)
    <3>1. /\ i \in Int /\ j \in Int /\ k \in Int
          /\ F[i] \in Int /\ F[j] \in Int /\ F[k] \in Int
          /\ M[i] \in Int /\ M[j] \in Int /\ M[k] \in Int
      BY <1>1, <2>2
    <3>2. M[i] >= M[j] /\ M[j] >= M[k]
      BY <2>4, <3>1
    <3>3. CASE M[i] > M[k]
      BY <3>3
    <3>4. CASE M[i] = M[j] /\ M[j] = M[k]
      BY <2>4, <3>1, <3>4
    <3>. QED
      BY <3>1, <3>2, <3>3, <3>4
  <2>5. \A i, j \in S : i # j => Prior(i, j) \/ Prior(j, i)
    BY <1>1, <2>2
  <2>. HIDE DEF Prior
  <2>. QED
    BY <2>1, <2>2, <2>3, <2>4, <2>5
<1>6. Cardinality(first) = c
  <2>1. c \in 0 .. Cardinality(S) /\ below \in [S -> SUBSET S]
    BY <1>2, <1>3
  <2>2. first \in SUBSET S /\ \A i \in S : i \in first <=> Cardinality(below[i]) < c
    OBVIOUS
  <2>. HIDE DEF S, c, first, below
  <2>. QED
    BY <1>2, <1>5, <2>1, <2>2, RanksAreTaken
<1>7. ASSUME Small(amount), NEW i \in first PROVE M[i] > 0
  <2>1. i \in S /\ Cardinality(below[i]) < c
    OBVIOUS
  <2>2. ASSUME ~(M[i] > 0) PROVE FALSE
    <3>1. cut \in SUBSET below[i]
      BY <1>1, <2>1, <2>2
    <3>2. IsFiniteSet(below[i])
      BY <1>2, FS_Subset
    <3>. HIDE DEF below, cut, c
    <3>3. Cardinality(cut) <= Cardinality(below[i]) /\ Cardinality(below[i]) \in Nat
      BY <3>1, <3>2, FS_Subset, FS_CardinalityType
    <3>. QED
      BY <1>3, <1>7, <2>1, <3>3
  <2>. QED
    BY <2>2
<1>8. ASSUME NEW i \in first, NEW j \in S \ first PROVE M[i] >= M[j]
  <2>1. /\ i \in S /\ Cardinality(below[i]) < c
        /\ j \in S /\ ~(Cardinality(below[j]) < c)
    OBVIOUS
  <2>2. ASSUME ~(M[i] >= M[j]) PROVE FALSE
    <3>1. j \in below[i]
      BY <1>1, <2>1, <2>2
    <3>2. below[j] \in SUBSET below[i]
      BY <1>5, <2>1, <3>1
    <3>3. IsFiniteSet(below[i]) /\ IsFiniteSet(below[j])
      BY <1>2, FS_Subset
    <3>. HIDE DEF below, cut, c
    <3>4. /\ Cardinality(below[j]) <= Cardinality(below[i])
          /\ Cardinality(below[i]) \in Nat /\ Cardinality(below[j]) \in Nat
      BY <3>2, <3>3, FS_Subset, FS_CardinalityType
    <3>. QED
      BY <1>3, <2>1, <3>4
  <2>. QED
    BY <2>2
<1>9. first \in SUBSET S
  OBVIOUS
<1>. HIDE DEF first, c
<1>b. Cardinality(first) = FavouredCount(amount - SumFunction(F), n)
  BY <1>6 DEF c
<1>. QED
  BY <1>4, <1>b, <1>7, <1>8, <1>9

(* What a part may be off, in units of which Whole make a cent.             *)
Rounding(amount) == 1 - Whole .. Whole - (IF Small(amount) THEN 1 ELSE 0)

LEMMA SplitIsFair ==
  ASSUME NEW amount \in Nat, NEW n \in Nat, NEW pcts \in [1 .. n -> Nat],
         NEW e \in Mismatches, SumFunction(pcts) = Whole + e,
         NEW cents, cents = Split(amount, pcts)
  PROVE  /\ Summable(cents) /\ DOMAIN cents = 1 .. n
         /\ SumFunction(cents) - amount \in -Drift(amount, n) .. Drift(amount, n)
         /\ \A i \in 1 .. n : cents[i] * Whole - amount * pcts[i] \in Rounding(amount)
         /\ \A i, j \in 1 .. n :
              (cents[i] * Whole > amount * pcts[i] /\ ~(cents[j] * Whole > amount * pcts[j]))
              => Remainders(amount, pcts)[i] >= Remainders(amount, pcts)[j]
<1>. DEFINE F == Floors(amount, pcts)
            M == Remainders(amount, pcts)
            lucky == Favoured(amount, pcts)
            ones == [i \in 1 .. n |-> IF i \in lucky THEN 1 ELSE 0]
<1>0. Whole \in Nat \ {0}
  BY WholeAssumption
<1>1. /\ Summable(F) /\ DOMAIN F = 1 .. n /\ SumFunction(F) \in Int
      /\ \A i \in 1 .. n : /\ F[i] \in Int /\ M[i] \in Nat /\ M[i] < Whole
                           /\ amount * pcts[i] = Whole * F[i] + M[i]
  <2>1. /\ Summable(F) /\ DOMAIN F = 1 .. n /\ SumFunction(F) \in Int
        /\ \A i \in 1 .. n : F[i] \in Int /\ M[i] \in Nat /\ M[i] < Whole
        /\ Taken(amount, pcts, F, M)
    BY Residual
  <2>2. \A i \in 1 .. n : amount * pcts[i] = Whole * F[i] + M[i]
    BY <2>1, Zenon DEF Taken
  <2>. QED
    BY <2>1, <2>2
<1>2. /\ lucky \in SUBSET (1 .. n) /\ Cardinality(lucky) = FavouredCount(amount - SumFunction(F), n)
      /\ Small(amount) => \A i \in lucky : M[i] > 0
      /\ \A i \in lucky, j \in (1 .. n) \ lucky : M[i] >= M[j]
  BY FavouredOwners
<1>3. DOMAIN cents = 1 .. n /\ \A i \in 1 .. n : cents[i] = F[i] + ones[i]
  BY DEF Split
<1>4. Summable(ones) /\ SumFunction(ones) = Cardinality(lucky)
  <2>1. IsFiniteSet(1 .. n)
    BY FS_Interval
  <2>2. /\ DOMAIN ones = 1 .. n /\ \A i \in lucky : ones[i] = 1
        /\ \A i \in (1 .. n) \ lucky : ones[i] = 0
    BY <1>2
  <2>. HIDE DEF ones, lucky
  <2>. QED
    BY <1>2, <2>1, <2>2, CountIsSum
<1>5. \A i \in 1 .. n : ones[i] = IF i \in lucky THEN 1 ELSE 0
  OBVIOUS
<1>6. DOMAIN ones = 1 .. n
  OBVIOUS
<1>. HIDE DEF F, M, lucky, ones
<1>7. Summable(cents) /\ SumFunction(cents) = SumFunction(F) + SumFunction(ones)
  BY <1>1, <1>3, <1>4, <1>6, SumPlus
<1>8. SumFunction(cents) - amount \in -Drift(amount, n) .. Drift(amount, n)
  <2>. DEFINE r == amount - SumFunction(F)
              z == Cardinality({i \in 1 .. n : M[i] > 0})
              q == Slack(amount)
  <2>1. r \in -q .. z + q /\ z \in Nat /\ z <= n
    BY ResidualIsSmall DEF F, M
  <2>2. /\ q \in Nat /\ (Small(amount) => q = 0)
        /\ Drift(amount, n) = IF Small(amount) THEN 0 ELSE n + q
    BY SlackOf
  <2>3. SumFunction(cents) - amount = FavouredCount(r, n) - r /\ r \in Int
    <3>1. FavouredCount(r, n) \in Int
      BY <1>1 DEF FavouredCount
    <3>. QED
      BY <1>1, <1>2, <1>4, <1>7, <3>1
  <2>. HIDE DEF r, z, q
  <2>4. FavouredCount(r, n) - r \in -(n + q) .. n + q
    BY <2>1, <2>2, <2>3 DEF FavouredCount
  <2>5. q = 0 => FavouredCount(r, n) - r = 0
    BY <2>1, <2>2, <2>3 DEF FavouredCount
  <2>. QED
    BY <2>2, <2>3, <2>4, <2>5
<1>9. ASSUME NEW i \in 1 .. n
      PROVE  cents[i] * Whole - amount * pcts[i] \in Rounding(amount)
  <2>. DEFINE b == ones[i]
              f == F[i]
              m == M[i]
  <2>1. f \in Int /\ m \in Nat /\ m < Whole /\ amount * pcts[i] = Whole * f + m /\ cents[i] = f + b
    BY <1>1, <1>3
  <2>2. b = 0 \/ (b = 1 /\ (Small(amount) => m > 0))
    BY <1>2, <1>5
  <2>. HIDE DEF b, f, m
  <2>3. cents[i] * Whole = Whole * f + Whole * b
    BY <1>0, <2>1, <2>2
  <2>4. Whole * f \in Int
    BY <1>0, <2>1
  <2>. DEFINE wf == Whole * f
  <2>5. cents[i] * Whole - amount * pcts[i] = Whole * b - m
    <3>1. cents[i] * Whole = wf + Whole * b /\ amount * pcts[i] = wf + m /\ wf \in Int
      BY <2>1, <2>3, <2>4
    <3>2. Whole * b \in Int
      BY <1>0, <2>2
    <3>. HIDE DEF wf
    <3>. QED
      BY <2>1, <3>1, <3>2
  <2>6. Whole * b - m \in Rounding(amount)
    BY <1>0, <2>1, <2>2 DEF Rounding
  <2>. QED
    BY <2>5, <2>6
<1>10. ASSUME NEW i \in 1 .. n
       PROVE  /\ i \in lucky => cents[i] * Whole > amount * pcts[i]
              /\ i \notin lucky => ~(cents[i] * Whole > amount * pcts[i])
  <2>. DEFINE f == F[i]
              m == M[i]
              wf == Whole * f
  <2>1. f \in Int /\ m \in Nat /\ m < Whole /\ amount * pcts[i] = wf + m /\ wf \in Int
    BY <1>0, <1>1
  <2>2. cents[i] = f + IF i \in lucky THEN 1 ELSE 0
    BY <1>3, <1>5
  <2>. HIDE DEF f, m
  <2>3. cents[i] * Whole = IF i \in lucky THEN wf + Whole ELSE wf
    BY <1>0, <2>1, <2>2
  <2>. HIDE DEF wf
  <2>. QED
    BY <1>0, <2>1, <2>3
<1>11. \A i, j \in 1 .. n :
         (cents[i] * Whole > amount * pcts[i] /\ ~(cents[j] * Whole > amount * pcts[j]))
         => M[i] >= M[j]
  BY <1>2, <1>10
<1>. QED
  BY <1>3, <1>7, <1>8, <1>9, <1>11 DEF M

(* The call as a behaviour.                                                 *)
SplitInv ==
  /\ given \in Nat
  /\ \E n \in Nat : weights \in [1 .. n -> Nat]
  /\ SumFunction(weights) - Whole \in Mismatches
  /\ parts = <<>> \/ parts = Split(given, weights)

(* However an amount is split over shares that are let through: nothing is  *)
(* lost or made up, every owner gets its share to the cent, and the cents   *)
(* left over go where truncation took most; a large amount is off by the    *)
(* cents of its tolerance.                                                  *)
THEOREM SplitsAreFair == SplitSpec => []LargestRemainder
<1>1. SplitInit => SplitInv
  BY CallAssumption, WholeAssumption DEF SplitInit, SplitInv, Mismatches
<1>2. SplitInv /\ [SplitStep]_splitVars => SplitInv'
  BY Zenon DEF SplitInv, SplitStep, splitVars
<1>3. SplitInv => LargestRemainder
  <2>. SUFFICES ASSUME SplitInv, parts # <<>> PROVE LargestRemainder
    BY DEF LargestRemainder
  <2>1. PICK n \in Nat : weights \in [1 .. n -> Nat]
    BY DEF SplitInv
  <2>2. given \in Nat /\ SumFunction(weights) - Whole \in Mismatches /\ parts = Split(given, weights)
    BY DEF SplitInv
  <2>. DEFINE e == SumFunction(weights) - Whole
  <2>3. e \in Mismatches /\ SumFunction(weights) = Whole + e
    <3>1. IsFiniteSet(1 .. n)
      BY FS_Interval
    <3>2. SumFunction(weights) \in Int
      BY <2>1, <3>1, SumIsInt DEF Summable
    <3>. QED
      BY <2>2, <3>2, WholeAssumption
  <2>. HIDE DEF e
  <2>4. /\ SumFunction(parts) - given \in -Drift(given, n) .. Drift(given, n)
        /\ \A i \in 1 .. n : parts[i] * Whole - given * weights[i] \in Rounding(given)
        /\ \A i, j \in 1 .. n :
             (parts[i] * Whole > given * weights[i] /\ ~(parts[j] * Whole > given * weights[j]))
             => Remainders(given, weights)[i] >= Remainders(given, weights)[j]
    BY <2>1, <2>2, <2>3, SplitIsFair
  <2>5. DOMAIN weights = 1 .. n /\ Len(weights) = n
    BY <2>1
  <2>6. \A i \in 1 .. n : Remainders(given, weights)[i] = (given * weights[i]) % Whole
    BY <2>5 DEF Remainders
  <2>. QED
    BY <2>4, <2>5, <2>6, Zenon DEF LargestRemainder, Rounding
<1>. QED
  BY <1>1, <1>2, <1>3, PTL DEF SplitSpec

-----------------------------------------------------------------------------
(***************************************************************************)
(* The rows active on a day belong to different funds, and their shares    *)
(* add up to what those of an accepted set or of the first owner do.       *)
(***************************************************************************)
PctOf(active) == SumFunction([r \in active |-> r.pct])
SumsOfSets == {Whole} \cup {SumFunction(new) : new \in {x \in Requests : Accepted(x)}}
WholeSet(active) ==
  /\ IsFiniteSet(active)
  /\ \A r, q \in active : r.fund = q.fund => r = q
  /\ active = {} \/ PctOf(active) \in SumsOfSets
RowsInv == TypeOK /\ \A d \in Days : WholeSet(ActiveOn(d))

LEMMA ActiveAfter ==
  ASSUME TypeOK, NEW new \in Requests, NEW eff \in Days,
         UpdateAllocations(new, eff), NEW d \in Days
  PROVE  ActiveOn(d)' = IF d >= eff THEN {Row(f, new[f], eff) : f \in DOMAIN new}
                        ELSE {EndedAt(r, eff) : r \in ActiveOn(d)}
<1>0. d \in Int /\ eff \in Int /\ \A r \in rows : r.from \in Int
  BY AllocationAssumption DEF Days, TypeOK, Rows
<1>1. CASE d >= eff
  <2>1. ASSUME NEW r \in ActiveOn(d)' PROVE \E f \in DOMAIN new : r = Row(f, new[f], eff)
    <3>1. r \in rows' /\ OpenAt(r, d)
      BY <2>1 DEF ActiveOn, OpenAt
    <3>2. ~ \E old \in rows : old.from < eff /\ r = EndedAt(old, eff)
      BY <1>1, <3>1, EndedRow DEF TypeOK
    <3>. QED
      BY <3>1, <3>2, RowsAfter
  <2>2. ASSUME NEW f \in DOMAIN new PROVE Row(f, new[f], eff) \in ActiveOn(d)'
    <3>1. Row(f, new[f], eff) \in rows' /\ OpenAt(Row(f, new[f], eff), d)
      BY RowsAfter, NewRow
    <3>. QED
      BY <1>0, <1>1, <3>1 DEF ActiveOn, Row, OpenAt
  <2>. QED
    BY <1>1, <2>1, <2>2
<1>2. CASE ~(d >= eff)
  <2>1. ASSUME NEW r \in ActiveOn(d)' PROVE \E old \in ActiveOn(d) : r = EndedAt(old, eff)
    <3>1. r \in rows' /\ r.from <= d /\ OpenAt(r, d)
      BY <2>1 DEF ActiveOn, OpenAt
    <3>2. ~ \E f \in DOMAIN new : r = Row(f, new[f], eff)
      BY <1>0, <1>2, <3>1 DEF Row
    <3>3. PICK old \in rows : old.from < eff /\ r = EndedAt(old, eff)
      BY <3>1, <3>2, RowsAfter
    <3>4. old \in ActiveOn(d)
      BY <1>0, <1>2, <3>1, <3>3, EndedRow DEF ActiveOn, TypeOK
    <3>. QED
      BY <3>3, <3>4
  <2>2. ASSUME NEW old \in ActiveOn(d) PROVE EndedAt(old, eff) \in ActiveOn(d)'
    <3>1. old \in rows /\ old.from <= d /\ OpenAt(old, d) /\ old.from < eff
      BY <1>0, <1>2, <2>2 DEF ActiveOn
    <3>2. EndedAt(old, eff) \in rows'
      BY <3>1, RowsAfter
    <3>. QED
      BY <1>0, <1>2, <3>1, <3>2, EndedRow DEF ActiveOn, TypeOK, OpenAt
  <2>. QED
    BY <1>2, <2>1, <2>2
<1>. QED
  BY <1>1, <1>2

(* A new set is whole, for what it asks of the sum.                         *)
LEMMA NewSetIsWhole ==
  ASSUME NEW new \in Requests, Accepted(new), NEW eff \in Days
  PROVE  WholeSet({Row(f, new[f], eff) : f \in DOMAIN new})
<1>. DEFINE active == {Row(f, new[f], eff) : f \in DOMAIN new}
            b == [f \in DOMAIN new |-> Row(f, new[f], eff)]
            pct == [r \in active |-> r.pct]
<1>1. /\ IsFiniteSet(DOMAIN new) /\ \A f \in DOMAIN new : new[f] \in Int
      /\ PctTolerance \in Nat /\ Whole \in Int
  BY AllocationAssumption, WholeAssumption, FS_Subset
<1>2. Summable(new)
  BY <1>1 DEF Summable
<1>3. \A f \in DOMAIN new : b[f].fund = f /\ b[f].pct = new[f] /\ b[f] \in active
  BY DEF Row
<1>4. \A r \in active : \E f \in DOMAIN new : b[f] = r
  OBVIOUS
<1>5. DOMAIN b = DOMAIN new /\ b = [f \in DOMAIN new |-> b[f]]
  OBVIOUS
<1>6. DOMAIN pct = active /\ \A r \in active : pct[r] = r.pct
  OBVIOUS
<1>. HIDE DEF active, b, pct
<1>7. b \in Surjection(DOMAIN new, active)
  BY <1>3, <1>4, <1>5 DEF Surjection
<1>8. IsFiniteSet(active)
  BY <1>1, <1>7, FS_Surjection
<1>9. \A r, q \in active : r.fund = q.fund => r = q
  BY <1>3, <1>4
<1>10. SumFunction(pct) = SumFunction(new)
  <2>1. b \in [DOMAIN new -> DOMAIN pct]
    BY <1>3, <1>5, <1>6
  <2>2. \A f, g \in DOMAIN new : b[f] = b[g] => f = g
    BY <1>3
  <2>3. \A f \in DOMAIN new : new[f] = pct[b[f]]
    BY <1>3, <1>6
  <2>. QED
    BY <1>2, <1>4, <1>6, <2>1, <2>2, <2>3, SumRenamed
<1>11. SumFunction(new) \in Int
  BY <1>2, SumIsInt
<1>12. SumFunction(new) \in SumsOfSets
  BY DEF SumsOfSets
<1>13. PctOf(active) = SumFunction(pct)
  BY DEF PctOf, pct
<1>. QED
  BY <1>8, <1>9, <1>10, <1>12, <1>13 DEF WholeSet, active

(* Ending the rows of a whole set leaves it whole.                          *)
LEMMA EndedSetIsWhole ==
  ASSUME TypeOK, NEW eff \in Days, NEW d \in Days, d < eff, WholeSet(ActiveOn(d))
  PROVE  WholeSet({EndedAt(r, eff) : r \in ActiveOn(d)})
<1>. DEFINE old == ActiveOn(d)
            active == {EndedAt(r, eff) : r \in old}
            b == [r \in old |-> EndedAt(r, eff)]
            was == [r \in old |-> r.pct]
            pct == [r \in active |-> r.pct]
<1>1. \A r \in old : b[r].fund = r.fund /\ b[r].pct = r.pct /\ r.pct \in Int /\ b[r] \in active
  <2>1. \A r \in old : r \in Rows /\ r.from < eff
    BY AllocationAssumption DEF ActiveOn, TypeOK, Days, Rows
  <2>. QED
    BY <2>1, EndedRow, WholeAssumption DEF Rows
<1>2. \A q \in active : \E r \in old : b[r] = q
  OBVIOUS
<1>3. DOMAIN b = old /\ b = [r \in old |-> b[r]]
  OBVIOUS
<1>4. /\ DOMAIN pct = active /\ \A r \in active : pct[r] = r.pct
      /\ DOMAIN was = old /\ \A r \in old : was[r] = r.pct
  OBVIOUS
<1>5. /\ IsFiniteSet(old)
      /\ \A r, q \in old : r.fund = q.fund => r = q
      /\ old = {} \/ SumFunction(was) \in SumsOfSets
  BY DEF WholeSet, PctOf
<1>6. PctOf(active) = SumFunction(pct) /\ (old = {} => active = {})
  BY DEF PctOf
<1>. HIDE DEF old, active, b, pct, was
<1>7. b \in Surjection(old, active)
  BY <1>1, <1>2, <1>3 DEF Surjection
<1>8. IsFiniteSet(active)
  BY <1>5, <1>7, FS_Surjection
<1>9. \A r, q \in active : r.fund = q.fund => r = q
  BY <1>1, <1>2, <1>5
<1>10. SumFunction(pct) = SumFunction(was)
  <2>1. b \in [DOMAIN was -> DOMAIN pct]
    BY <1>1, <1>3, <1>4
  <2>2. \A r, q \in DOMAIN was : b[r] = b[q] => r = q
    BY <1>1, <1>4, <1>5
  <2>3. \A r \in DOMAIN was : was[r] = pct[b[r]]
    BY <1>1, <1>4
  <2>4. Summable(was)
    BY <1>1, <1>4, <1>5 DEF Summable
  <2>. QED
    BY <1>2, <1>4, <2>1, <2>2, <2>3, <2>4, SumRenamed
<1>. QED
  BY <1>5, <1>6, <1>8, <1>9, <1>10 DEF WholeSet, active, old

LEMMA RowsNext == RowsInv /\ [Next]_rows => RowsInv'
<1>. SUFFICES ASSUME RowsInv, [Next]_rows PROVE RowsInv'
  OBVIOUS
<1>1. TypeOK'
  BY TypeNext DEF RowsInv
<1>2. ASSUME NEW new \in Requests, NEW eff \in Days, UpdateAllocations(new, eff), NEW d \in Days
      PROVE  WholeSet(ActiveOn(d)')
  <2>1. CASE d >= eff
    BY <1>2, <2>1, ActiveAfter, NewSetIsWhole DEF RowsInv, UpdateAllocations
  <2>2. CASE ~(d >= eff)
    <3>1. d < eff
      BY <2>2, AllocationAssumption DEF Days
    <3>. QED
      BY <1>2, <2>2, <3>1, ActiveAfter, EndedSetIsWhole DEF RowsInv
  <2>. QED
    BY <2>1, <2>2
<1>3. CASE UNCHANGED rows
  BY <1>1, <1>3 DEF RowsInv, ActiveOn, OpenAt
<1>. QED
  BY <1>1, <1>2, <1>3 DEF RowsInv, Next, WholeSet, PctOf

LEMMA RowsInit == Init => RowsInv
<1>. SUFFICES ASSUME NEW from \in Days, rows = {Row(LeadFund, Whole, from)}, NEW d \in Days
              PROVE  WholeSet(ActiveOn(d))
  BY InitType DEF Init, RowsInv
<1>. DEFINE r == Row(LeadFund, Whole, from)
<1>1. ActiveOn(d) = {} \/ ActiveOn(d) = {r}
  BY DEF ActiveOn
<1>2. r.pct = Whole /\ Whole \in Int
  BY WholeAssumption DEF Row
<1>. HIDE DEF r
<1>3. PctOf({r}) = Whole
  <2>. DEFINE f == [q \in {r} |-> q.pct]
  <2>1. DOMAIN f = {r} /\ f[r] = Whole
    BY <1>2
  <2>. HIDE DEF f
  <2>2. SumFunction(f) = Whole
    BY <1>2, <2>1, SumOfOne
  <2>. QED
    BY <2>2 DEF PctOf, f
<1>4. IsFiniteSet({r}) /\ IsFiniteSet({})
  BY FS_Singleton, FS_EmptySet
<1>. QED
  BY <1>1, <1>3, <1>4 DEF WholeSet, SumsOfSets

(***************************************************************************)
(* FundLedger: what the funds get of an amount.                            *)
(***************************************************************************)
(* The owners in order are the active rows, each once.                      *)
LEMMA OwnersListed ==
  ASSUME RowsInv, NEW d \in Days, NEW owners \in Owned(d)
  PROVE  \E n \in Nat : /\ owners \in [1 .. n -> ActiveOn(d)]
                        /\ \A i, j \in 1 .. n : owners[i] = owners[j] => i = j
                        /\ \A r \in ActiveOn(d) : \E i \in 1 .. n : owners[i] = r
                        /\ owners # <<>> => ActiveOn(d) # {}
                        /\ \A i \in 1 .. n : /\ owners[i].fund \in Funds
                                             /\ owners[i].pct \in Nat
<1>. DEFINE active == ActiveOn(d)
            n == Cardinality(active)
<1>1. IsFiniteSet(active) /\ n \in Nat
  BY FS_CardinalityType DEF RowsInv, WholeSet
<1>2. owners \in [1 .. n -> active] /\ IsInjective(owners)
  BY DEF Owned
<1>3. \A r \in active : r.fund \in Funds /\ r.pct \in Nat
  BY WholeAssumption DEF RowsInv, TypeOK, Rows, ActiveOn
<1>4. active = {} => n = 0
  BY FS_EmptySet
<1>. HIDE DEF active, n
<1>5. Cardinality(1 .. n) = n /\ IsFiniteSet(1 .. n)
  BY <1>1, FS_Interval
<1>6. owners \in Injection(1 .. n, active)
  BY <1>2 DEF Injection
<1>7. owners \in Surjection(1 .. n, active)
  BY <1>1, <1>5, <1>6, FS_Injection DEF n
<1>8. owners # <<>> => active # {}
  BY <1>2, <1>4
<1>. QED
  BY <1>1, <1>2, <1>3, <1>7, <1>8 DEF Surjection, IsInjective, active

PctsOf(owners) == [i \in DOMAIN owners |-> owners[i].pct]

(* The sums of the sets that are let through are whole but for the          *)
(* tolerance.                                                               *)
LEMMA NearlyWhole ==
  ASSUME RowsInv, NEW d \in Days, ActiveOn(d) # {}
  PROVE  /\ PctOf(ActiveOn(d)) \in Int
         /\ PctOf(ActiveOn(d)) - Whole \in -PctTolerance .. PctTolerance
<1>1. PctTolerance \in Nat /\ Whole \in Int
  BY AllocationAssumption, WholeAssumption
<1>2. PctOf(ActiveOn(d)) \in SumsOfSets
  BY DEF RowsInv, WholeSet
<1>3. ASSUME NEW new \in Requests, Accepted(new)
      PROVE  SumFunction(new) \in Int /\ SumFunction(new) - Whole \in -PctTolerance .. PctTolerance
  <2>1. IsFiniteSet(DOMAIN new) /\ \A f \in DOMAIN new : new[f] \in Int
    BY AllocationAssumption, WholeAssumption, FS_Subset
  <2>2. SumFunction(new) \in Int
    BY <2>1, SumIsInt DEF Summable
  <2>. QED
    BY <1>3, <2>2 DEF Accepted
<1>. QED
  BY <1>1, <1>2, <1>3 DEF SumsOfSets

LEMMA OwnersAreWhole ==
  ASSUME RowsInv, NEW d \in Days, NEW owners \in Owned(d), owners # <<>>
  PROVE  \E e \in Mismatches : SumFunction(PctsOf(owners)) = Whole + e
<1>1. PICK n \in Nat :
        /\ owners \in [1 .. n -> ActiveOn(d)]
        /\ \A i, j \in 1 .. n : owners[i] = owners[j] => i = j
        /\ \A r \in ActiveOn(d) : \E i \in 1 .. n : owners[i] = r
        /\ ActiveOn(d) # {}
        /\ \A i \in 1 .. n : owners[i].pct \in Nat
  BY OwnersListed
<1>. DEFINE active == ActiveOn(d)
            pcts == PctsOf(owners)
            pct == [r \in active |-> r.pct]
<1>2. /\ DOMAIN pcts = 1 .. n /\ \A i \in 1 .. n : pcts[i] = owners[i].pct
      /\ DOMAIN pct = active /\ \A r \in active : pct[r] = r.pct
  BY <1>1 DEF PctsOf
<1>3. SumFunction(pct) \in Int /\ SumFunction(pct) - Whole \in Mismatches
  BY <1>1, NearlyWhole DEF PctOf, Mismatches
<1>. HIDE DEF active, pcts, pct
<1>4. Summable(pcts)
  <2>1. IsFiniteSet(1 .. n)
    BY FS_Interval
  <2>2. \A i \in 1 .. n : pcts[i] \in Int
    BY <1>1, <1>2
  <2>. QED
    BY <1>2, <2>1, <2>2 DEF Summable
<1>5. owners \in [DOMAIN pcts -> DOMAIN pct]
  BY <1>1, <1>2 DEF active
<1>6. SumFunction(pct) = SumFunction(pcts)
  <2>1. /\ \A i, j \in DOMAIN pcts : owners[i] = owners[j] => i = j
        /\ \A r \in DOMAIN pct : \E i \in DOMAIN pcts : owners[i] = r
        /\ \A i \in DOMAIN pcts : pcts[i] = pct[owners[i]]
    BY <1>1, <1>2 DEF active
  <2>. QED
    BY <1>4, <1>5, <2>1, SumRenamed
<1>7. SumFunction(pct) = Whole + (SumFunction(pct) - Whole)
  BY <1>3, WholeAssumption
<1>. QED
  BY <1>3, <1>6, <1>7 DEF pcts

(* Cents of an owner, with or without knowing that the shares are whole.    *)
LEMMA CentsAreInts ==
  ASSUME NEW amount \in Int, NEW n \in Nat, NEW pcts \in [1 .. n -> Nat]
  PROVE  DOMAIN Split(amount, pcts) = 1 .. n /\ \A i \in 1 .. n : Split(amount, pcts)[i] \in Int
<1>1. ASSUME NEW i \in 1 .. n PROVE Floors(amount, pcts)[i] \in Int
  <2>. DEFINE v == amount * pcts[i]
  <2>1. v \in Int
    OBVIOUS
  <2>2. Floors(amount, pcts)[i] = v \div Whole
    BY DEF Floors
  <2>. HIDE DEF v
  <2>. QED
    BY <2>1, <2>2, WholeAssumption, DivMod
<1>2. DOMAIN Split(amount, pcts) = 1 .. n
  BY DEF Split
<1>3. \A i \in 1 .. n : Split(amount, pcts)[i]
                          = Floors(amount, pcts)[i] + IF i \in Favoured(amount, pcts) THEN 1 ELSE 0
  BY DEF Split
<1>. QED
  BY <1>1, <1>2, <1>3

LEMMA SharesAreInts ==
  ASSUME RowsInv, NEW d \in Days, NEW owners \in Owned(d), NEW amount \in Int
  PROVE  Shares(amount, owners) \in [Funds -> Int]
<1>1. PICK n \in Nat : DOMAIN owners = 1 .. n /\ \A i \in 1 .. n : owners[i].pct \in Nat
  BY OwnersListed
<1>. DEFINE cents == Split(amount, PctsOf(owners))
            part(f) == [i \in {j \in DOMAIN owners : owners[j].fund = f} |-> cents[i]]
<1>2. PctsOf(owners) \in [1 .. n -> Nat]
  BY <1>1 DEF PctsOf
<1>3. \A i \in 1 .. n : cents[i] \in Int
  BY <1>2, CentsAreInts
<1>4. Shares(amount, owners) = [f \in Funds |-> SumFunction(part(f))]
  BY DEF Shares, PctsOf
<1>. HIDE DEF cents
<1>5. ASSUME NEW f \in Funds PROVE SumFunction(part(f)) \in Int
  <2>1. IsFiniteSet(DOMAIN part(f))
    <3>1. IsFiniteSet(1 .. n)
      BY <1>1, FS_Interval
    <3>2. DOMAIN part(f) \subseteq 1 .. n
      BY <1>1
    <3>. HIDE DEF part
    <3>. QED
      BY <3>1, <3>2, FS_Subset
  <2>2. Summable(part(f))
    BY <1>1, <1>3, <2>1 DEF Summable
  <2>. HIDE DEF part
  <2>. QED
    BY <2>2, SumIsInt
<1>. HIDE DEF part
<1>. QED
  BY <1>4, <1>5

(* No more funds own a loan than there are.                                 *)
LEMMA FewOwners ==
  ASSUME RowsInv, NEW d \in Days, NEW owners \in Owned(d), NEW n \in Nat, DOMAIN owners = 1 .. n
  PROVE  n <= Owing /\ Owing \in Nat
<1>1. /\ \A i \in 1 .. n : owners[i] \in ActiveOn(d) /\ owners[i].fund \in Funds
      /\ \A i, j \in 1 .. n : owners[i] = owners[j] => i = j
  <2>1. PICK m \in Nat : /\ owners \in [1 .. m -> ActiveOn(d)]
                         /\ \A i, j \in 1 .. m : owners[i] = owners[j] => i = j
                         /\ \A i \in 1 .. m : owners[i].fund \in Funds
    BY OwnersListed
  <2>2. 1 .. m = 1 .. n
    BY <2>1
  <2>. QED
    BY <2>1, <2>2
<1>2. \A r, q \in ActiveOn(d) : r.fund = q.fund => r = q
  BY DEF RowsInv, WholeSet
<1>. DEFINE of == [i \in 1 .. n |-> owners[i].fund]
<1>3. of \in Injection(1 .. n, Funds)
  BY <1>1, <1>2 DEF Injection, IsInjective
<1>4. IsFiniteSet(Funds) /\ Cardinality(1 .. n) = n
  <2>1. Cardinality(1 .. n) = n
    BY FS_Interval
  <2>. QED
    BY <2>1, AllocationAssumption
<1>. HIDE DEF of
<1>5. Cardinality(1 .. n) <= Cardinality(Funds)
  BY <1>3, <1>4, FS_Injection
<1>. QED
  BY <1>4, <1>5, FS_CardinalityType DEF Owing

(* The funds together get the amount, but for its drift.                    *)
LEMMA SharesOfAmount ==
  ASSUME RowsInv, NEW d \in Days, NEW owners \in Owned(d), owners # <<>>,
         NEW amount \in Nat
  PROVE  SumFunction(Shares(amount, owners)) - amount
           \in -Drift(amount, Owing) .. Drift(amount, Owing)
<1>1. PICK n \in Nat : /\ DOMAIN owners = 1 .. n
                       /\ \A i \in 1 .. n : owners[i].fund \in Funds /\ owners[i].pct \in Nat
  BY OwnersListed
<1>. DEFINE cents == Split(amount, PctsOf(owners))
            own(f) == {j \in 1 .. n : owners[j].fund = f}
            part(f) == [i \in own(f) |-> cents[i]]
            a == [f \in Funds |-> [i \in 1 .. n |-> IF i \in own(f) THEN cents[i] ELSE 0]]
            wide(f) == [i \in 1 .. n |-> a[f][i]]
            tall(i) == [f \in Funds |-> a[f][i]]
            all == [f \in Funds |-> SumFunction(wide(f))]
            each == [i \in 1 .. n |-> SumFunction(tall(i))]
<1>2. PctsOf(owners) \in [1 .. n -> Nat]
  BY <1>1 DEF PctsOf
<1>3. /\ Summable(cents) /\ DOMAIN cents = 1 .. n
      /\ SumFunction(cents) - amount \in -Drift(amount, n) .. Drift(amount, n)
      /\ \A i \in 1 .. n : cents[i] \in Int
  <2>1. PICK e \in Mismatches : SumFunction(PctsOf(owners)) = Whole + e
    BY OwnersAreWhole
  <2>2. /\ Summable(cents) /\ DOMAIN cents = 1 .. n
        /\ SumFunction(cents) - amount \in -Drift(amount, n) .. Drift(amount, n)
    BY <1>2, <2>1, SplitIsFair
  <2>. HIDE DEF cents
  <2>. QED
    BY <2>2 DEF Summable
<1>4. Shares(amount, owners) = [f \in Funds |-> SumFunction(part(f))]
  BY <1>1 DEF Shares, PctsOf
<1>5. IsFiniteSet(1 .. n) /\ IsFiniteSet(Funds)
  <2>1. IsFiniteSet(1 .. n)
    BY FS_Interval
  <2>. QED
    BY <2>1, AllocationAssumption
<1>. HIDE DEF cents
<1>6. \A f \in Funds : \A i \in 1 .. n :
         a[f][i] = (IF owners[i].fund = f THEN cents[i] ELSE 0) /\ a[f][i] \in Int
  BY <1>3
<1>7. ASSUME NEW f \in Funds PROVE SumFunction(part(f)) = SumFunction(wide(f))
  <2>1. /\ DOMAIN wide(f) = 1 .. n /\ DOMAIN part(f) \subseteq 1 .. n
        /\ \A i \in DOMAIN part(f) : part(f)[i] = wide(f)[i]
        /\ \A i \in (1 .. n) \ (DOMAIN part(f)) : wide(f)[i] = 0
        /\ \A i \in 1 .. n : wide(f)[i] \in Int
    BY <1>6
  <2>2. Summable(wide(f))
    BY <1>5, <2>1 DEF Summable
  <2>. HIDE DEF part, wide
  <2>. QED
    BY <2>1, <2>2, SumOverSome
<1>8. ASSUME NEW i \in 1 .. n PROVE SumFunction(tall(i)) = cents[i]
  <2>. DEFINE g == owners[i].fund
              one == [f \in {g} |-> cents[i]]
  <2>1. /\ DOMAIN tall(i) = Funds /\ DOMAIN one \subseteq Funds
        /\ \A f \in DOMAIN one : one[f] = tall(i)[f]
        /\ \A f \in Funds \ (DOMAIN one) : tall(i)[f] = 0
        /\ \A f \in Funds : tall(i)[f] \in Int
    BY <1>1, <1>6
  <2>2. DOMAIN one = {g} /\ one[g] = cents[i] /\ cents[i] \in Int
    BY <1>3
  <2>3. Summable(tall(i))
    BY <1>5, <2>1 DEF Summable
  <2>. HIDE DEF tall, one, g
  <2>4. SumFunction(one) = cents[i]
    BY <2>2, SumOfOne
  <2>5. SumFunction(one) = SumFunction(tall(i))
    BY <2>1, <2>3, SumOverSome
  <2>. QED
    BY <2>4, <2>5
<1>9. SumFunction(all) = SumFunction(each)
  <2>1. \A f \in Funds : \A i \in 1 .. n : a[f][i] \in Int
    BY <1>6
  <2>. DEFINE b == [i \in 1 .. n |-> tall(i)]
  <2>2. /\ \A i \in 1 .. n : \A f \in Funds : b[i][f] = a[f][i]
        /\ \A f \in Funds : DOMAIN a[f] = 1 .. n
        /\ \A i \in 1 .. n : DOMAIN b[i] = Funds
    OBVIOUS
  <2>3. /\ \A f \in Funds : wide(f) = a[f]
        /\ \A i \in 1 .. n : tall(i) = b[i]
    OBVIOUS
  <2>. HIDE DEF wide, tall
  <2>4. /\ DOMAIN all = Funds /\ \A f \in Funds : all[f] = SumFunction(a[f])
        /\ DOMAIN each = 1 .. n /\ \A i \in 1 .. n : each[i] = SumFunction(b[i])
    BY <2>3
  <2>. HIDE DEF a, b, all, each
  <2>5. TableTotals(Funds, 1 .. n, a, b, all, each)
    BY <1>5, <2>1, <2>2, <2>4 DEF TableTotals
  <2>. QED
    BY <2>5, SumsSwap
<1>10. SumFunction(each) = SumFunction(cents)
  <2>1. DOMAIN each = DOMAIN cents /\ \A i \in DOMAIN cents : each[i] = cents[i]
    <3>. HIDE DEF tall
    <3>. QED
      BY <1>3, <1>8
  <2>. HIDE DEF each
  <2>. QED
    BY <1>3, <2>1, SumsEqual
<1>11. Shares(amount, owners) = all
  <2>. HIDE DEF part, wide
  <2>. QED
    BY <1>4, <1>7
<1>. HIDE DEF all, each
<1>12. Drift(amount, n) <= Drift(amount, Owing) /\ Drift(amount, n) \in Nat /\ Drift(amount, Owing) \in Nat
  <2>1. n <= Owing /\ Owing \in Nat
    BY <1>1, FewOwners
  <2>2. Slack(amount) \in Nat
    BY SlackOf
  <2>3. \A m \in Nat : Drift(amount, m) = IF Small(amount) THEN 0 ELSE m + Slack(amount)
    BY SlackOf
  <2>. QED
    BY <2>1, <2>2, <2>3
<1>13. SumFunction(cents) \in Int
  BY <1>3, SumIsInt
<1>. QED
  BY <1>3, <1>9, <1>10, <1>11, <1>12, <1>13

(* ... and each of them its share of it, to the cent.                       *)
PctOfFund(d, f) == SumFunction([r \in {x \in ActiveOn(d) : x.fund = f} |-> r.pct])

LEMMA ShareOfFund ==
  ASSUME RowsInv, NEW d \in Days, NEW owners \in Owned(d), owners # <<>>,
         NEW amount \in Nat, NEW f \in Funds
  PROVE  Shares(amount, owners)[f] * Whole - amount * PctOfFund(d, f) \in Rounding(amount)
<1>1. PICK n \in Nat : /\ owners \in [1 .. n -> ActiveOn(d)]
                       /\ \A r \in ActiveOn(d) : \E i \in 1 .. n : owners[i] = r
                       /\ \A i, j \in 1 .. n : owners[i] = owners[j] => i = j
                       /\ \A i \in 1 .. n : owners[i].fund \in Funds /\ owners[i].pct \in Nat
  BY OwnersListed
<1>. DEFINE cents == Split(amount, PctsOf(owners))
            own == {j \in 1 .. n : owners[j].fund = f}
            part == [i \in own |-> cents[i]]
            mine == {x \in ActiveOn(d) : x.fund = f}
            pct == [r \in mine |-> r.pct]
<1>2. PctsOf(owners) \in [1 .. n -> Nat] /\ \A i \in 1 .. n : PctsOf(owners)[i] = owners[i].pct
  BY <1>1 DEF PctsOf
<1>3. \A i \in 1 .. n : /\ cents[i] \in Int
                        /\ cents[i] * Whole - amount * owners[i].pct \in Rounding(amount)
  <2>1. PICK e \in Mismatches : SumFunction(PctsOf(owners)) = Whole + e
    BY OwnersAreWhole
  <2>2. \A i \in 1 .. n : cents[i] * Whole - amount * PctsOf(owners)[i] \in Rounding(amount)
    BY <1>2, <2>1, SplitIsFair
  <2>3. \A i \in 1 .. n : cents[i] \in Int
    BY <1>2, CentsAreInts
  <2>. HIDE DEF cents
  <2>. QED
    BY <1>2, <2>2, <2>3
<1>4. Shares(amount, owners)[f] = SumFunction(part)
  BY <1>1 DEF Shares, PctsOf
<1>5. Whole \in Nat \ {0}
  BY WholeAssumption
<1>. HIDE DEF cents
<1>6. CASE own = {}
  <2>1. mine = {}
    BY <1>1, <1>6
  <2>2. DOMAIN part = {} /\ DOMAIN pct = {}
    BY <1>6, <2>1
  <2>. HIDE DEF part, pct
  <2>3. SumFunction(part) = 0 /\ SumFunction(pct) = 0
    BY <2>2, SumOfNone
  <2>4. 0 * Whole - amount * 0 \in Rounding(amount)
    BY <1>5 DEF Rounding
  <2>. QED
    BY <1>4, <2>3, <2>4 DEF pct, PctOfFund
<1>7. CASE own # {}
  <2>1. PICK i \in 1 .. n : owners[i].fund = f
    BY <1>7
  <2>2. \A r, q \in ActiveOn(d) : r.fund = q.fund => r = q
    BY DEF RowsInv, WholeSet
  <2>3. own = {i} /\ mine = {owners[i]}
    BY <1>1, <2>1, <2>2
  <2>. DEFINE o == owners[i]
  <2>4. /\ DOMAIN part = {i} /\ part[i] = cents[i] /\ cents[i] \in Int
        /\ DOMAIN pct = {o} /\ pct[o] = o.pct /\ o.pct \in Int
    BY <1>1, <1>3, <2>3
  <2>. HIDE DEF part, pct, o
  <2>5. SumFunction(part) = cents[i] /\ SumFunction(pct) = o.pct
    BY <2>4, SumOfOne
  <2>6. cents[i] * Whole - amount * o.pct \in Rounding(amount)
    BY <1>3 DEF o
  <2>. QED
    BY <1>4, <2>5, <2>6, Zenon DEF pct, PctOfFund
<1>. QED
  BY <1>6, <1>7

-----------------------------------------------------------------------------
(* The books of the funds.                                                 *)

PaymentRow ==
  [status : {"posted", "reversed"}, gross : Nat, eff : Days,
   applied : [interest : Nat, principal : Nat, suspense : Nat],
   share : [Funds -> [Buckets -> Int]]]
BooksOfFunds == [Funds -> [Accounts -> Int]]

FundTypes ==
  /\ principal \in Nat /\ interest \in Nat
  /\ books \in BooksOfFunds
  /\ payments \in Seq(PaymentRow)
  /\ accruals \in SUBSET Days

(* A quantity of the payments that stand: the cash of a fund, the cents the  *)
(* split of a bucket made up, and those it may have.                         *)
PostedSum(s, v) == SumFunction([k \in {j \in DOMAIN s : s[j].status = "posted"} |-> v[s[k]]])
CashIn(f) == [p \in PaymentRow |-> SumFunction(p.share[f])]
HandedOut(p, b) == SumFunction([f \in Funds |-> p.share[f][b]])
MadeUp(b) == [p \in PaymentRow |-> HandedOut(p, b) - p.applied[b]]
MayMakeUp(b) == [p \in PaymentRow |-> Drift(p.applied[b], Owing)]

NearShares(p) ==
  \A b \in Buckets : MadeUp(b)[p] \in -(MayMakeUp(b)[p]) .. MayMakeUp(b)[p]

TotalOf(b, account) == SumFunction([f \in Funds |-> b[f][account]])

FundInv ==
  /\ RowsInv /\ FundTypes
  /\ \A f \in Funds : books[f]["1010"] = PostedSum(payments, CashIn(f))
FundSums ==
  /\ \A k \in DOMAIN payments : NearShares(payments[k])
  /\ TotalOf(books, "1100") = principal - PostedSum(payments, MadeUp("principal"))
  /\ TotalOf(books, "1110") - (interest - PostedSum(payments, MadeUp("interest")))
       \in -AccrualDrift .. AccrualDrift

(* The lines of an entry: cash gets all buckets, each receivable its own.   *)
LEMMA LinesOfEntry ==
  ASSUME NEW share \in [Buckets -> Int]
  PROVE  /\ EntryLines(share)["1010"] = SumFunction(share)
         /\ EntryLines(share)["1100"] = -share["principal"]
         /\ EntryLines(share)["1110"] = -share["interest"]
         /\ SumFunction(share) \in Int
         /\ EntryLines(share) \in [Accounts -> Int]
<1>1. IsFiniteSet(Buckets)
  <2>1. IsFiniteSet({"interest"} \cup {"principal"} \cup {"suspense"})
    BY FS_Singleton, FS_Union
  <2>2. Buckets = {"interest"} \cup {"principal"} \cup {"suspense"}
    BY DEF Buckets
  <2>. QED
    BY <2>1, <2>2
<1>2. Summable(share)
  BY <1>1 DEF Summable
<1>. DEFINE of(a) == [b \in {x \in Buckets : AccountOf[x] = a} |-> share[b]]
<1>3. ASSUME NEW a \in Accounts PROVE SumFunction(of(a)) \in Int
  <2>1. IsFiniteSet({x \in Buckets : AccountOf[x] = a})
    BY <1>1, FS_Subset
  <2>2. Summable(of(a))
    BY <2>1 DEF Summable
  <2>. HIDE DEF of
  <2>. QED
    BY <2>2, SumIsInt
<1>4. \A a \in Accounts : EntryLines(share)[a] = (IF a = "1010" THEN SumFunction(share)
                                                 ELSE -SumFunction(of(a)))
  BY DEF EntryLines
<1>5. {x \in Buckets : AccountOf[x] = "1100"} = {"principal"}
  BY DEF Buckets, AccountOf
<1>6. {x \in Buckets : AccountOf[x] = "1110"} = {"interest"}
  BY DEF Buckets, AccountOf
<1>7. /\ DOMAIN of("1100") = {"principal"} /\ of("1100")["principal"] = share["principal"]
      /\ DOMAIN of("1110") = {"interest"} /\ of("1110")["interest"] = share["interest"]
      /\ share["principal"] \in Int /\ share["interest"] \in Int
  BY <1>5, <1>6 DEF Buckets
<1>8. DOMAIN EntryLines(share) = Accounts /\ EntryLines(share) = [a \in Accounts |-> EntryLines(share)[a]]
  BY DEF EntryLines
<1>9. SumFunction(share) \in Int
  BY <1>2, SumIsInt
<1>. HIDE DEF of
<1>10. /\ SumFunction(of("1100")) = share["principal"]
       /\ SumFunction(of("1110")) = share["interest"]
  BY <1>7, SumOfOne
<1>11. "1010" \in Accounts /\ "1100" \in Accounts /\ "1110" \in Accounts
  BY DEF Accounts
<1>12. \A a \in Accounts : EntryLines(share)[a] \in Int
  BY <1>3, <1>4, <1>9
<1>. QED
  BY <1>4, <1>8, <1>9, <1>10, <1>11, <1>12

(* An account over all funds moves by the sum of what the funds book.       *)
LEMMA BooksMove ==
  ASSUME NEW old \in BooksOfFunds, NEW new \in BooksOfFunds, NEW account \in Accounts,
         NEW delta \in [Funds -> Int],
         \A f \in Funds : new[f][account] = old[f][account] + delta[f]
  PROVE  TotalOf(new, account) = TotalOf(old, account) + SumFunction(delta)
<1>. DEFINE o == [f \in Funds |-> old[f][account]]
            n == [f \in Funds |-> new[f][account]]
<1>1. /\ DOMAIN o = Funds /\ DOMAIN n = Funds /\ DOMAIN delta = Funds
      /\ \A f \in Funds : o[f] \in Int /\ delta[f] \in Int /\ n[f] = o[f] + delta[f]
  BY DEF BooksOfFunds
<1>2. TotalOf(new, account) = SumFunction(n) /\ TotalOf(old, account) = SumFunction(o)
  BY DEF TotalOf
<1>. HIDE DEF o, n
<1>3. Summable(o) /\ Summable(delta)
  BY <1>1, FundAssumption, AllocationAssumption DEF Summable
<1>. QED
  BY <1>1, <1>2, <1>3, SumPlus

LEMMA TotalIsInt ==
  ASSUME NEW b \in BooksOfFunds, NEW account \in Accounts
  PROVE  TotalOf(b, account) \in Int
<1>. DEFINE o == [f \in Funds |-> b[f][account]]
<1>1. DOMAIN o = Funds /\ \A f \in Funds : o[f] \in Int
  BY DEF BooksOfFunds
<1>2. TotalOf(b, account) = SumFunction(o)
  BY DEF TotalOf
<1>. HIDE DEF o
<1>3. Summable(o)
  BY <1>1, AllocationAssumption DEF Summable
<1>. QED
  BY <1>2, <1>3, SumIsInt

LEMMA PostedSumIsInt ==
  ASSUME NEW v \in [PaymentRow -> Int], NEW s \in Seq(PaymentRow)
  PROVE  /\ PostedSum(s, v) \in Int
         /\ Summable([k \in {j \in DOMAIN s : s[j].status = "posted"} |-> v[s[k]]])
<1>. DEFINE term == [k \in {j \in DOMAIN s : s[j].status = "posted"} |-> v[s[k]]]
<1>1. DOMAIN s = 1 .. Len(s) /\ Len(s) \in Nat /\ \A k \in DOMAIN s : s[k] \in PaymentRow
  OBVIOUS
<1>2. IsFiniteSet(DOMAIN s) /\ DOMAIN term \in SUBSET (DOMAIN s)
  BY <1>1, FS_Interval
<1>3. \A k \in DOMAIN term : term[k] \in Int
  BY <1>1
<1>4. PostedSum(s, v) = SumFunction(term)
  BY DEF PostedSum
<1>. HIDE DEF term
<1>5. Summable(term)
  BY <1>2, <1>3, FS_Subset DEF Summable
<1>. QED
  BY <1>4, <1>5, SumIsInt DEF term

(* The sum over the payments that stand, with one more payment ...          *)
LEMMA PostedSumGrows ==
  ASSUME NEW v \in [PaymentRow -> Int],
         NEW old \in Seq(PaymentRow), NEW p \in PaymentRow, p.status = "posted"
  PROVE  PostedSum(Append(old, p), v) = PostedSum(old, v) + v[p]
<1>. DEFINE new == Append(old, p)
            n == Len(old)
            term(s) == [k \in {j \in DOMAIN s : s[j].status = "posted"} |-> v[s[k]]]
            tn == term(new)
            to == term(old)
<1>1. /\ n \in Nat /\ DOMAIN old = 1 .. n /\ DOMAIN new = 1 .. n + 1
      /\ \A k \in 1 .. n : new[k] = old[k]
      /\ new[n + 1] = p /\ new \in Seq(PaymentRow)
  OBVIOUS
<1>2. Summable(tn)
  BY <1>1, PostedSumIsInt
<1>3. /\ n + 1 \in DOMAIN tn /\ tn[n + 1] = v[p]
      /\ DOMAIN to = DOMAIN tn \ {n + 1} /\ \A k \in DOMAIN to : to[k] = tn[k]
  <2>. HIDE DEF new
  <2>. QED
    BY <1>1
<1>4. PostedSum(new, v) = SumFunction(tn) /\ PostedSum(old, v) = SumFunction(to)
  BY DEF PostedSum
<1>5. PostedSum(old, v) \in Int /\ v[p] \in Int
  BY PostedSumIsInt
<1>. HIDE DEF tn, to
<1>6. SumFunction(tn) = tn[n + 1] + SumFunction(to)
  BY <1>2, <1>3, SumWithout
<1>. QED
  BY <1>3, <1>4, <1>5, <1>6

(* ... and with one reversed.                                               *)
LEMMA PostedSumShrinks ==
  ASSUME NEW v \in [PaymentRow -> Int],
         NEW old \in Seq(PaymentRow), NEW new \in Seq(PaymentRow),
         NEW k \in DOMAIN old, old[k].status = "posted",
         DOMAIN new = DOMAIN old, new[k].status = "reversed",
         \A j \in DOMAIN old \ {k} : new[j] = old[j]
  PROVE  PostedSum(old, v) = PostedSum(new, v) + v[old[k]]
<1>. DEFINE term(s) == [m \in {j \in DOMAIN s : s[j].status = "posted"} |-> v[s[m]]]
            to == term(old)
            tn == term(new)
<1>1. Summable(to)
  BY PostedSumIsInt
<1>2. /\ k \in DOMAIN to /\ to[k] = v[old[k]]
      /\ DOMAIN tn = DOMAIN to \ {k} /\ \A j \in DOMAIN tn : tn[j] = to[j]
  OBVIOUS
<1>3. PostedSum(new, v) = SumFunction(tn) /\ PostedSum(old, v) = SumFunction(to)
  BY DEF PostedSum
<1>4. PostedSum(new, v) \in Int /\ v[old[k]] \in Int
  <2>1. old[k] \in PaymentRow
    OBVIOUS
  <2>. QED
    BY <2>1, PostedSumIsInt
<1>. HIDE DEF tn, to, term
<1>5. SumFunction(to) = to[k] + SumFunction(tn)
  BY ONLY <1>1, <1>2, SumWithout
<1>. QED
  BY <1>2, <1>3, <1>4, <1>5

(* A sum of which every term is bounded.                                    *)
LEMMA PostedSumBounded ==
  ASSUME NEW v \in [PaymentRow -> Int], NEW w \in [PaymentRow -> Int], NEW s \in Seq(PaymentRow),
         \A k \in DOMAIN s : v[s[k]] \in -(w[s[k]]) .. w[s[k]]
  PROVE  PostedSum(s, v) \in -PostedSum(s, w) .. PostedSum(s, w)
<1>. DEFINE posted == {j \in DOMAIN s : s[j].status = "posted"}
            tv == [k \in posted |-> v[s[k]]]
            tw == [k \in posted |-> w[s[k]]]
            minus == [k \in posted |-> (-1) * tw[k]]
<1>1. Summable(tv) /\ Summable(tw) /\ PostedSum(s, v) \in Int /\ PostedSum(s, w) \in Int
  BY PostedSumIsInt
<1>2. PostedSum(s, v) = SumFunction(tv) /\ PostedSum(s, w) = SumFunction(tw)
  BY DEF PostedSum
<1>3. DOMAIN tv = posted /\ DOMAIN tw = posted /\ DOMAIN minus = posted
  OBVIOUS
<1>4. \A k \in posted : /\ tv[k] \in Int /\ tw[k] \in Int
                         /\ tv[k] <= tw[k] /\ -tw[k] <= tv[k]
  BY <1>1, <1>3 DEF Summable
<1>5. \A k \in posted : minus[k] = (-1) * tw[k] /\ minus[k] <= tv[k]
  BY <1>4
<1>. HIDE DEF tv, tw, minus, posted
<1>6. Summable(minus) /\ SumFunction(minus) = (-1) * SumFunction(tw)
  BY <1>1, <1>3, <1>5, SumTimes
<1>7. SumFunction(minus) <= SumFunction(tv) /\ SumFunction(tv) <= SumFunction(tw)
  BY <1>1, <1>3, <1>4, <1>5, <1>6, SumsCompare
<1>. QED
  BY <1>1, <1>2, <1>6, <1>7

LEMMA DaysFinite == IsFiniteSet(Days)
<1>1. MaxDay \in Int
  BY AllocationAssumption
<1>. QED
  BY <1>1, FS_Interval DEF Days

LEMMA HandedOutIsInt ==
  ASSUME NEW p \in PaymentRow, NEW b \in Buckets
  PROVE  HandedOut(p, b) \in Int /\ p.applied[b] \in Nat
<1>. DEFINE s == [f \in Funds |-> p.share[f][b]]
<1>1. DOMAIN s = Funds /\ \A f \in Funds : s[f] \in Int
  BY DEF PaymentRow
<1>2. p.applied[b] \in Nat
  BY DEF PaymentRow, Buckets
<1>3. HandedOut(p, b) = SumFunction(s)
  BY DEF HandedOut
<1>. HIDE DEF s
<1>4. Summable(s)
  BY <1>1, AllocationAssumption DEF Summable
<1>. QED
  BY <1>2, <1>3, <1>4, SumIsInt

(* The quantities are numbers.                                              *)
LEMMA QuantitiesOfPayments ==
  /\ \A f \in Funds : CashIn(f) \in [PaymentRow -> Int]
  /\ \A b \in Buckets : MadeUp(b) \in [PaymentRow -> Int] /\ MayMakeUp(b) \in [PaymentRow -> Int]
<1>1. ASSUME NEW p \in PaymentRow, NEW f \in Funds PROVE SumFunction(p.share[f]) \in Int
  <2>1. p.share[f] \in [Buckets -> Int]
    BY DEF PaymentRow
  <2>. QED
    BY <2>1, LinesOfEntry
<1>2. \A p \in PaymentRow, b \in Buckets : HandedOut(p, b) - p.applied[b] \in Int
  BY HandedOutIsInt
<1>3. Owing \in Nat
  BY AllocationAssumption, FS_CardinalityType DEF Owing
<1>4. ASSUME NEW p \in PaymentRow, NEW b \in Buckets PROVE Drift(p.applied[b], Owing) \in Int
  <2>. DEFINE amount == p.applied[b]
  <2>1. amount \in Nat
    BY HandedOutIsInt
  <2>. HIDE DEF amount
  <2>2. Drift(amount, Owing) \in Nat
    BY <1>3, <2>1, SlackOf
  <2>. QED
    BY <2>2 DEF amount
<1>. QED
  BY <1>1, <1>2, <1>4 DEF CashIn, MadeUp, MayMakeUp

(* The entries of a payment book, over all funds, what it handed out.       *)
LEMMA EntriesAddUp ==
  ASSUME NEW p \in PaymentRow, NEW b \in Buckets, NEW c \in Int,
         NEW delta \in [Funds -> Int], \A f \in Funds : delta[f] = c * p.share[f][b]
  PROVE  SumFunction(delta) = c * HandedOut(p, b)
<1>. DEFINE s == [f \in Funds |-> p.share[f][b]]
<1>1. /\ DOMAIN s = Funds /\ DOMAIN delta = Funds
      /\ \A f \in Funds : s[f] \in Int /\ delta[f] = c * s[f]
  BY DEF PaymentRow
<1>2. SumFunction(s) = HandedOut(p, b)
  BY DEF HandedOut
<1>. HIDE DEF s
<1>3. Summable(s)
  BY <1>1, FundAssumption, AllocationAssumption DEF Summable
<1>. QED
  BY <1>1, <1>2, <1>3, SumTimes

(* What posting a payment does, ...                                         *)
Posts(p, owners) ==
  /\ p \in PaymentRow /\ p.status = "posted"
  /\ owners \in Owned(p.eff) /\ owners # <<>> /\ p.eff \in Days
  /\ \A f \in Funds, b \in Buckets : p.share[f][b] = Shares(p.applied[b], owners)[f]
  /\ rows' = rows /\ payments' = Append(payments, p) /\ accruals' = accruals
  /\ principal' = principal - p.applied["principal"] /\ principal' \in Nat
  /\ interest' = interest - p.applied["interest"] /\ interest' \in Nat
  /\ books' \in BooksOfFunds
  /\ \A f \in Funds, a \in Accounts : books'[f][a] = books[f][a] + EntryLines(p.share[f])[a]

LEMMA Posting ==
  ASSUME FundInv, NEW gross \in Grosses, NEW eff \in Days, NEW owners \in Owned(eff),
         PostPayment(gross, eff, owners)
  PROVE  \E p : Posts(p, owners)
<1>. DEFINE w == Waterfall(gross)
            share == [f \in Funds |-> [b \in Buckets |-> Shares(w[b], owners)[f]]]
            p == [status |-> "posted", gross |-> gross, eff |-> eff, applied |-> w, share |-> share]
<1>1. gross \in Nat /\ principal \in Nat /\ interest \in Nat /\ RowsInv /\ books \in BooksOfFunds
  BY FundAssumption, AllocationAssumption DEF FundInv, FundTypes
<1>2. /\ w \in [interest : Nat, principal : Nat, suspense : Nat]
      /\ w.principal <= principal /\ w.interest <= interest
  BY <1>1 DEF Waterfall
<1>3. \A b \in Buckets : w[b] \in Int
  BY <1>2 DEF Buckets
<1>4. /\ rows' = rows /\ payments' = Append(payments, p) /\ owners # <<>> /\ accruals' = accruals
      /\ principal' = principal - w["principal"] /\ interest' = interest - w["interest"]
      /\ books' = [f \in Funds |-> [a \in Accounts |-> books[f][a] + EntryLines(share[f])[a]]]
  BY DEF PostPayment
<1>. HIDE DEF w
<1>5. \A b \in Buckets : Shares(w[b], owners) \in [Funds -> Int]
  BY <1>1, <1>3, SharesAreInts
<1>6. share \in [Funds -> [Buckets -> Int]]
  BY <1>5
<1>7. \A f \in Funds, b \in Buckets : share[f][b] = Shares(w[b], owners)[f]
  OBVIOUS
<1>8. principal' \in Nat /\ interest' \in Nat
  BY <1>1, <1>2, <1>4
<1>. HIDE DEF share
<1>9. \A f \in Funds : EntryLines(share[f]) \in [Accounts -> Int]
  BY <1>6, LinesOfEntry
<1>10. books' \in BooksOfFunds
       /\ \A f \in Funds, a \in Accounts : books'[f][a] = books[f][a] + EntryLines(share[f])[a]
  BY <1>1, <1>4, <1>9 DEF BooksOfFunds
<1>11. /\ p \in PaymentRow /\ p.status = "posted" /\ p.applied = w /\ p.share = share /\ p.eff = eff
  BY <1>1, <1>2, <1>6 DEF PaymentRow
<1>. HIDE DEF p
<1>. QED
  BY <1>4, <1>7, <1>8, <1>10, <1>11 DEF Posts

(* ... and what reversing one does.                                         *)
Reverses(k) ==
  /\ k \in DOMAIN payments /\ payments[k] \in PaymentRow /\ payments[k].status = "posted"
  /\ rows' = rows /\ payments' \in Seq(PaymentRow) /\ accruals' = accruals
  /\ DOMAIN payments' = DOMAIN payments
  /\ payments'[k].status = "reversed"
  /\ payments'[k].share = payments[k].share /\ payments'[k].applied = payments[k].applied
  /\ \A j \in DOMAIN payments \ {k} : payments'[j] = payments[j]
  /\ principal' = principal + payments[k].applied["principal"]
  /\ interest' = interest + payments[k].applied["interest"]
  /\ books' \in BooksOfFunds
  /\ \A f \in Funds, a \in Accounts :
       books'[f][a] = books[f][a] - EntryLines(payments[k].share[f])[a]

LEMMA Reversing ==
  ASSUME FundInv, NEW k \in DOMAIN payments, NEW d \in Days, ReversePayment(k, d)
  PROVE  Reverses(k)
<1>. DEFINE p == payments[k]
<1>1. p \in PaymentRow /\ payments \in Seq(PaymentRow) /\ books \in BooksOfFunds
  BY DEF FundInv, FundTypes
<1>2. /\ p.status = "posted" /\ rows' = rows /\ accruals' = accruals
      /\ principal' = principal + p.applied["principal"] /\ interest' = interest + p.applied["interest"]
      /\ books' = [f \in Funds |-> [a \in Accounts |-> books[f][a] - EntryLines(p.share[f])[a]]]
      /\ payments' = [payments EXCEPT ![k].status = "reversed"]
  BY DEF ReversePayment
<1>3. [p EXCEPT !.status = "reversed"] \in PaymentRow
  BY <1>1 DEF PaymentRow
<1>4. payments' = [payments EXCEPT ![k] = [p EXCEPT !.status = "reversed"]]
  BY <1>2
<1>5. /\ payments' \in Seq(PaymentRow) /\ DOMAIN payments' = DOMAIN payments
      /\ payments'[k] = [p EXCEPT !.status = "reversed"]
      /\ \A j \in DOMAIN payments \ {k} : payments'[j] = payments[j]
  BY <1>1, <1>3, <1>4
<1>6. /\ payments'[k].status = "reversed" /\ payments'[k].share = p.share
      /\ payments'[k].applied = p.applied
  BY <1>1, <1>5 DEF PaymentRow
<1>7. \A f \in Funds : p.share[f] \in [Buckets -> Int]
  BY <1>1 DEF PaymentRow
<1>8. \A f \in Funds : EntryLines(p.share[f]) \in [Accounts -> Int]
  BY <1>7, LinesOfEntry
<1>9. books' \in BooksOfFunds
      /\ \A f \in Funds, a \in Accounts : books'[f][a] = books[f][a] - EntryLines(p.share[f])[a]
  BY <1>1, <1>2, <1>8 DEF BooksOfFunds
<1>. QED
  BY <1>1, <1>2, <1>5, <1>6, <1>9 DEF Reverses

(* A day of interest books what each fund gets of the coupon.               *)
Accrues(d, owners, part) ==
  /\ part = Shares(DailyCoupon, owners) /\ part \in [Funds -> Int] /\ owners # <<>>
  /\ d \in Days /\ owners \in Owned(d) /\ d \notin accruals /\ accruals' = accruals \cup {d}
  /\ rows' = rows /\ payments' = payments /\ principal' = principal
  /\ interest' = interest + DailyCoupon
  /\ books' \in BooksOfFunds
  /\ \A f \in Funds : /\ books'[f]["1110"] = books[f]["1110"] + part[f]
                      /\ books'[f]["1100"] = books[f]["1100"]
                      /\ books'[f]["1010"] = books[f]["1010"]

LEMMA Accruing ==
  ASSUME FundInv, NEW d \in Days, NEW owners \in Owned(d), AccrueDay(d, owners)
  PROVE  \E part : Accrues(d, owners, part)
<1>. DEFINE part == Shares(DailyCoupon, owners)
<1>1. DailyCoupon \in Int /\ RowsInv /\ books \in BooksOfFunds
  BY FundAssumption, AllocationAssumption DEF FundInv, FundTypes
<1>2. part \in [Funds -> Int]
  BY <1>1, SharesAreInts
<1>3. /\ rows' = rows /\ payments' = payments /\ principal' = principal /\ owners # <<>>
      /\ d \notin accruals /\ accruals' = accruals \cup {d}
      /\ interest' = interest + DailyCoupon
      /\ books' = [f \in Funds |-> [books[f] EXCEPT !["1110"] = books[f]["1110"] + part[f],
                                                    !["4010"] = books[f]["4010"] - part[f]]]
  BY DEF AccrueDay
<1>. HIDE DEF part
<1>4. ASSUME NEW f \in Funds
      PROVE  /\ books'[f] \in [Accounts -> Int]
             /\ books'[f]["1110"] = books[f]["1110"] + part[f]
             /\ books'[f]["1100"] = books[f]["1100"]
             /\ books'[f]["1010"] = books[f]["1010"]
  <2>1. books[f] \in [Accounts -> Int] /\ part[f] \in Int
    BY <1>1, <1>2 DEF BooksOfFunds
  <2>2. books'[f] = [books[f] EXCEPT !["1110"] = books[f]["1110"] + part[f],
                                     !["4010"] = books[f]["4010"] - part[f]]
    BY <1>3
  <2>. QED
    BY <2>1, <2>2 DEF Accounts
<1>5. books' \in BooksOfFunds
  BY <1>3, <1>4 DEF BooksOfFunds
<1>. QED
  BY <1>2, <1>3, <1>4, <1>5 DEF Accrues, part

LEMMA FundNextInv == FundInv /\ [FundNext]_fundVars => FundInv'
<1>. SUFFICES ASSUME FundInv, [FundNext]_fundVars PROVE FundInv'
  OBVIOUS
<1>0. /\ RowsInv /\ principal \in Nat /\ interest \in Nat /\ books \in BooksOfFunds
      /\ payments \in Seq(PaymentRow) /\ accruals \in SUBSET Days
      /\ \A f \in Funds : books[f]["1010"] = PostedSum(payments, CashIn(f))
  BY DEF FundInv, FundTypes
<1>1. ASSUME UNCHANGED rows PROVE RowsInv'
  BY <1>0, <1>1, RowsNext
<1>2. "1010" \in Accounts
  BY DEF Accounts
<1>3. ASSUME NEW p, NEW owners, Posts(p, owners) PROVE FundInv'
  <2>1. /\ p \in PaymentRow /\ p.status = "posted" /\ payments' = Append(payments, p) /\ rows' = rows
        /\ principal' \in Nat /\ interest' \in Nat /\ accruals' = accruals
        /\ books' \in BooksOfFunds
        /\ \A f \in Funds : books'[f]["1010"] = books[f]["1010"] + EntryLines(p.share[f])["1010"]
    BY <1>2, <1>3 DEF Posts
  <2>2. FundTypes'
    BY <1>0, <2>1 DEF FundTypes
  <2>3. ASSUME NEW f \in Funds PROVE books'[f]["1010"] = PostedSum(payments', CashIn(f))
    <3>. DEFINE v == CashIn(f)
    <3>1. p.share[f] \in [Buckets -> Int]
      BY <2>1 DEF PaymentRow
    <3>2. EntryLines(p.share[f])["1010"] = v[p]
      BY <2>1, <3>1, LinesOfEntry DEF CashIn
    <3>3. v \in [PaymentRow -> Int]
      BY QuantitiesOfPayments
    <3>. HIDE DEF v
    <3>4. PostedSum(Append(payments, p), v) = PostedSum(payments, v) + v[p]
      BY <1>0, <2>1, <3>3, PostedSumGrows
    <3>. QED
      BY <1>0, <2>1, <3>2, <3>4 DEF v
  <2>. QED
    BY <1>1, <2>1, <2>2, <2>3 DEF FundInv, CashIn
<1>4. ASSUME NEW k, Reverses(k) PROVE FundInv'
  <2>. DEFINE p == payments[k]
  <2>1. /\ k \in DOMAIN payments /\ p \in PaymentRow /\ p.status = "posted" /\ rows' = rows
        /\ payments' \in Seq(PaymentRow) /\ DOMAIN payments' = DOMAIN payments
        /\ payments'[k].status = "reversed" /\ \A j \in DOMAIN payments \ {k} : payments'[j] = payments[j]
        /\ principal' = principal + p.applied["principal"]
        /\ interest' = interest + p.applied["interest"]
        /\ books' \in BooksOfFunds /\ accruals' = accruals
        /\ \A f \in Funds : books'[f]["1010"] = books[f]["1010"] - EntryLines(p.share[f])["1010"]
    BY <1>2, <1>4 DEF Reverses
  <2>2. p.applied["principal"] \in Nat /\ p.applied["interest"] \in Nat
    BY <2>1 DEF PaymentRow
  <2>3. FundTypes'
    BY <1>0, <2>1, <2>2 DEF FundTypes
  <2>4. ASSUME NEW f \in Funds PROVE books'[f]["1010"] = PostedSum(payments', CashIn(f))
    <3>. DEFINE v == CashIn(f)
    <3>1. p.share[f] \in [Buckets -> Int]
      BY <2>1 DEF PaymentRow
    <3>2. EntryLines(p.share[f])["1010"] = v[p]
      BY <2>1, <3>1, LinesOfEntry DEF CashIn
    <3>3. v \in [PaymentRow -> Int]
      BY QuantitiesOfPayments
    <3>. HIDE DEF v
    <3>4. PostedSum(payments, v) = PostedSum(payments', v) + v[p]
      BY <1>0, <2>1, <3>3, PostedSumShrinks
    <3>5. PostedSum(payments', v) \in Int /\ v[p] \in Int
      BY <2>1, <3>3, PostedSumIsInt
    <3>6. books'[f]["1010"] = PostedSum(payments, v) - v[p]
      BY <1>0, <2>1, <3>2 DEF v
    <3>7. books'[f]["1010"] = PostedSum(payments', v)
      BY <3>4, <3>5, <3>6
    <3>. QED
      BY <3>7 DEF v
  <2>. QED
    BY <1>1, <2>1, <2>3, <2>4 DEF FundInv, CashIn
<1>5. ASSUME NEW d, NEW owners, NEW part, Accrues(d, owners, part) PROVE FundInv'
  <2>1. /\ rows' = rows /\ payments' = payments /\ principal' = principal
        /\ interest' = interest + DailyCoupon /\ books' \in BooksOfFunds
        /\ d \in Days /\ accruals' = accruals \cup {d}
        /\ \A f \in Funds : books'[f]["1010"] = books[f]["1010"]
    BY <1>5 DEF Accrues
  <2>2. DailyCoupon \in Nat
    BY FundAssumption
  <2>. QED
    BY <1>0, <1>1, <2>1, <2>2 DEF FundInv, FundTypes, CashIn
<1>6. ASSUME NEW new \in Requests, NEW eff \in Days, Reallocate(new, eff) PROVE FundInv'
  <2>1. [Next]_rows /\ UNCHANGED ledgerVars
    BY <1>6 DEF Reallocate, Next
  <2>2. RowsInv'
    BY <1>0, <2>1, RowsNext
  <2>. QED
    BY <1>0, <2>1, <2>2 DEF FundInv, FundTypes, ledgerVars, CashIn
<1>7. CASE UNCHANGED fundVars
  BY <1>0, <1>1, <1>7 DEF FundInv, FundTypes, fundVars, ledgerVars, CashIn
<1>8. CASE FundNext
  <2>1. ASSUME NEW gross \in Grosses, NEW eff \in Days, NEW owners \in Owned(eff),
               PostPayment(gross, eff, owners)
        PROVE  FundInv'
    BY <1>3, <2>1, Posting
  <2>2. ASSUME NEW k \in DOMAIN payments, NEW d \in Days, ReversePayment(k, d) PROVE FundInv'
    BY <1>4, <2>2, Reversing
  <2>3. ASSUME NEW d \in Days, NEW owners \in Owned(d), AccrueDay(d, owners) PROVE FundInv'
    BY <1>5, <2>3, Accruing
  <2>. QED
    BY <1>6, <1>8, <2>1, <2>2, <2>3 DEF FundNext
<1>. QED
  BY <1>7, <1>8

(* What the entries of a payment do to a receivable, with the sign c.       *)
LEMMA ReceivableMoves ==
  ASSUME books \in BooksOfFunds, books' \in BooksOfFunds,
         NEW p \in PaymentRow, NEW c \in {1, -1},
         \A f \in Funds, a \in Accounts : books'[f][a] = books[f][a] + c * EntryLines(p.share[f])[a]
  PROVE  /\ TotalOf(books', "1100") = TotalOf(books, "1100") + (-c) * HandedOut(p, "principal")
         /\ TotalOf(books', "1110") = TotalOf(books, "1110") + (-c) * HandedOut(p, "interest")
<1>. DEFINE delta(b) == [f \in Funds |-> (-c) * p.share[f][b]]
<1>0. /\ "1100" \in Accounts /\ "1110" \in Accounts
      /\ "principal" \in Buckets /\ "interest" \in Buckets
  BY DEF Accounts, Buckets
<1>1. \A f \in Funds : p.share[f] \in [Buckets -> Int]
  BY DEF PaymentRow
<1>2. \A f \in Funds : \A b \in Buckets : (-c) * p.share[f][b] \in Int
  BY <1>1
<1>3. \A b \in Buckets : delta(b) \in [Funds -> Int]
  BY <1>2
<1>4. ASSUME NEW f \in Funds
      PROVE  /\ books'[f]["1100"] = books[f]["1100"] + delta("principal")[f]
             /\ books'[f]["1110"] = books[f]["1110"] + delta("interest")[f]
  <2>1. /\ EntryLines(p.share[f])["1100"] = -p.share[f]["principal"]
        /\ EntryLines(p.share[f])["1110"] = -p.share[f]["interest"]
        /\ p.share[f]["principal"] \in Int /\ p.share[f]["interest"] \in Int
    BY <1>0, <1>1, LinesOfEntry
  <2>2. /\ books'[f]["1100"] = books[f]["1100"] + c * EntryLines(p.share[f])["1100"]
        /\ books'[f]["1110"] = books[f]["1110"] + c * EntryLines(p.share[f])["1110"]
    BY <1>0
  <2>. QED
    BY <2>1, <2>2
<1>5. ASSUME NEW b \in Buckets PROVE SumFunction(delta(b)) = (-c) * HandedOut(p, b)
  <2>1. delta(b) \in [Funds -> Int] /\ \A f \in Funds : delta(b)[f] = (-c) * p.share[f][b]
    BY <1>3
  <2>. DEFINE m == -c
              db == delta(b)
  <2>2. m \in Int /\ db \in [Funds -> Int] /\ \A f \in Funds : db[f] = m * p.share[f][b]
    BY <2>1
  <2>. HIDE DEF m, db
  <2>3. SumFunction(db) = m * HandedOut(p, b)
    BY ONLY <2>2, EntriesAddUp, p \in PaymentRow, b \in Buckets
  <2>. QED
    BY <2>3 DEF m, db
<1>6. delta("principal") \in [Funds -> Int] /\ delta("interest") \in [Funds -> Int]
  BY <1>0, <1>3
<1>7. /\ SumFunction(delta("principal")) = (-c) * HandedOut(p, "principal")
      /\ SumFunction(delta("interest")) = (-c) * HandedOut(p, "interest")
  BY <1>0, <1>5
<1>. HIDE DEF delta
<1>8. /\ TotalOf(books', "1100") = TotalOf(books, "1100") + SumFunction(delta("principal"))
      /\ TotalOf(books', "1110") = TotalOf(books, "1110") + SumFunction(delta("interest"))
  BY <1>0, <1>4, <1>6, BooksMove
<1>. QED
  BY <1>7, <1>8

(* The receivables of all the funds are off by what the splits of the       *)
(* payments that stand and of the accruals made up.                         *)
LEMMA FundSumsNext ==
  ASSUME FundInv, FundInv', FundSums, [FundNext]_fundVars
  PROVE  FundSums'
<1>0. /\ RowsInv /\ principal \in Int /\ interest \in Int /\ books \in BooksOfFunds
      /\ payments \in Seq(PaymentRow) /\ books' \in BooksOfFunds /\ accruals \in SUBSET Days
  BY DEF FundInv, FundTypes
<1>. DEFINE mp == MadeUp("principal")
            mi == MadeUp("interest")
            drift == AccrualDrift
            coupon == Drift(DailyCoupon, Owing)
<1>1. /\ "1100" \in Accounts /\ "1110" \in Accounts
      /\ "principal" \in Buckets /\ "interest" \in Buckets
  BY DEF Accounts, Buckets
<1>2. /\ mp \in [PaymentRow -> Int] /\ mi \in [PaymentRow -> Int]
      /\ \A p \in PaymentRow : /\ mp[p] = HandedOut(p, "principal") - p.applied["principal"]
                               /\ mi[p] = HandedOut(p, "interest") - p.applied["interest"]
                               /\ p.applied["principal"] \in Int /\ p.applied["interest"] \in Int
  <2>1. mp \in [PaymentRow -> Int] /\ mi \in [PaymentRow -> Int]
    BY <1>1, QuantitiesOfPayments
  <2>2. \A p \in PaymentRow : /\ mp[p] = HandedOut(p, "principal") - p.applied["principal"]
                              /\ mi[p] = HandedOut(p, "interest") - p.applied["interest"]
    BY DEF MadeUp
  <2>3. \A p \in PaymentRow : p.applied["principal"] \in Int /\ p.applied["interest"] \in Int
    BY DEF PaymentRow
  <2>. QED
    BY <2>1, <2>2, <2>3
<1>3. \A p \in PaymentRow : HandedOut(p, "principal") \in Int /\ HandedOut(p, "interest") \in Int
  BY <1>1, HandedOutIsInt
<1>4. /\ \A k \in DOMAIN payments : NearShares(payments[k])
      /\ TotalOf(books, "1100") = principal - PostedSum(payments, mp)
      /\ TotalOf(books, "1110") - (interest - PostedSum(payments, mi)) \in -drift .. drift
  BY DEF FundSums
<1>5. /\ TotalOf(books, "1100") \in Int /\ TotalOf(books, "1110") \in Int
      /\ PostedSum(payments, mp) \in Int /\ PostedSum(payments, mi) \in Int
  BY <1>0, <1>1, <1>2, TotalIsInt, PostedSumIsInt
<1>6. Owing \in Nat /\ coupon \in Nat /\ DailyCoupon \in Nat
  <2>1. Owing \in Nat
    BY AllocationAssumption, FS_CardinalityType DEF Owing
  <2>. QED
    BY <2>1, FundAssumption, SlackOf
<1>7. IsFiniteSet(accruals) /\ drift = Cardinality(accruals) * coupon /\ Cardinality(accruals) \in Nat
  <2>1. IsFiniteSet(Days)
    BY DaysFinite
  <2>. QED
    BY <1>0, <2>1, FS_Subset, FS_CardinalityType DEF AccrualDrift
<1>. HIDE DEF mp, mi, drift, coupon
<1>8. ASSUME NEW p, NEW owners, Posts(p, owners) PROVE FundSums'
  <2>1. /\ p \in PaymentRow /\ payments' = Append(payments, p) /\ p.status = "posted"
        /\ principal' = principal - p.applied["principal"] /\ accruals' = accruals
        /\ interest' = interest - p.applied["interest"]
        /\ \A f \in Funds, a \in Accounts : books'[f][a] = books[f][a] + EntryLines(p.share[f])[a]
    BY <1>8 DEF Posts
  <2>2. /\ \A f \in Funds : EntryLines(p.share[f]) \in [Accounts -> Int]
        /\ \A b \in Buckets : p.applied[b] \in Nat
    BY <2>1, LinesOfEntry DEF PaymentRow, Buckets
  <2>3. NearShares(p)
    <3>. SUFFICES ASSUME NEW b \in Buckets PROVE MadeUp(b)[p] \in -(MayMakeUp(b)[p]) .. MayMakeUp(b)[p]
      BY DEF NearShares
    <3>. DEFINE x == p.applied[b]
    <3>1. SumFunction(Shares(x, owners)) - x \in -Drift(x, Owing) .. Drift(x, Owing)
      BY <1>0, <1>8, <2>2, SharesOfAmount DEF Posts
    <3>2. Shares(x, owners) = [f \in Funds |-> Shares(x, owners)[f]]
      BY DEF Shares
    <3>3. \A f \in Funds : p.share[f][b] = Shares(x, owners)[f]
      BY <1>8 DEF Posts
    <3>. HIDE DEF x
    <3>4. [f \in Funds |-> p.share[f][b]] = Shares(x, owners)
      BY <3>2, <3>3
    <3>5. HandedOut(p, b) - x \in -Drift(x, Owing) .. Drift(x, Owing)
      BY <3>1, <3>4 DEF HandedOut
    <3>. QED
      BY <2>1, <3>5 DEF x, MadeUp, MayMakeUp
  <2>4. \A f \in Funds, a \in Accounts : books'[f][a] = books[f][a] + 1 * EntryLines(p.share[f])[a]
    BY <2>1, <2>2
  <2>5. /\ TotalOf(books', "1100") = TotalOf(books, "1100") + (-1) * HandedOut(p, "principal")
        /\ TotalOf(books', "1110") = TotalOf(books, "1110") + (-1) * HandedOut(p, "interest")
    BY <1>0, <2>1, <2>4, ReceivableMoves
  <2>6. /\ PostedSum(payments', mp) = PostedSum(payments, mp) + mp[p]
        /\ PostedSum(payments', mi) = PostedSum(payments, mi) + mi[p]
    BY <1>0, <1>2, <2>1, PostedSumGrows
  <2>7. /\ mp[p] = HandedOut(p, "principal") - p.applied["principal"]
        /\ mi[p] = HandedOut(p, "interest") - p.applied["interest"]
        /\ HandedOut(p, "principal") \in Int /\ HandedOut(p, "interest") \in Int
        /\ p.applied["principal"] \in Int /\ p.applied["interest"] \in Int
    BY <1>2, <1>3, <2>1
  <2>. DEFINE hp == HandedOut(p, "principal")
              hi == HandedOut(p, "interest")
              ap == p.applied["principal"]
              ai == p.applied["interest"]
              tp == TotalOf(books, "1100")
              ti == TotalOf(books, "1110")
              qp == PostedSum(payments, mp)
              qi == PostedSum(payments, mi)
              rp == PostedSum(payments', mp)
              ri == PostedSum(payments', mi)
  <2>8. /\ tp = principal - qp
        /\ rp = qp + (hp - ap) /\ ri = qi + (hi - ai)
        /\ TotalOf(books', "1100") = tp + (-1) * hp /\ TotalOf(books', "1110") = ti + (-1) * hi
        /\ principal' = principal - ap /\ interest' = interest - ai
        /\ hp \in Int /\ hi \in Int /\ ap \in Int /\ ai \in Int
        /\ tp \in Int /\ ti \in Int /\ qp \in Int /\ qi \in Int
    BY <1>4, <1>5, <2>1, <2>5, <2>6, <2>7
  <2>. HIDE DEF hp, hi, ap, ai, tp, ti, qp, qi, rp, ri
  <2>9. /\ TotalOf(books', "1100") = principal' - rp
        /\ TotalOf(books', "1110") - (interest' - ri) = ti - (interest - qi)
    BY <1>0, <2>8
  <2>10. \A k \in DOMAIN payments' : NearShares(payments'[k])
    BY <1>0, <1>4, <2>1, <2>3
  <2>11. AccrualDrift' = drift
    BY <2>1 DEF AccrualDrift, drift
  <2>. QED
    BY <1>4, <2>9, <2>10, <2>11 DEF FundSums, mp, mi, MadeUp, NearShares, MayMakeUp, ti, qi, rp, ri
<1>9. ASSUME NEW k, Reverses(k) PROVE FundSums'
  <2>. DEFINE p == payments[k]
  <2>1. /\ k \in DOMAIN payments /\ p \in PaymentRow /\ NearShares(p) /\ p.status = "posted"
        /\ principal' = principal + p.applied["principal"] /\ accruals' = accruals
        /\ interest' = interest + p.applied["interest"]
        /\ payments' \in Seq(PaymentRow) /\ DOMAIN payments' = DOMAIN payments
        /\ payments'[k].status = "reversed"
        /\ payments'[k].share = p.share /\ payments'[k].applied = p.applied
        /\ \A j \in DOMAIN payments \ {k} : payments'[j] = payments[j]
        /\ \A f \in Funds, a \in Accounts : books'[f][a] = books[f][a] - EntryLines(p.share[f])[a]
    BY <1>4, <1>9 DEF Reverses
  <2>2. \A f \in Funds : EntryLines(p.share[f]) \in [Accounts -> Int]
    BY <2>1, LinesOfEntry DEF PaymentRow
  <2>3. \A f \in Funds, a \in Accounts : books'[f][a] = books[f][a] + (-1) * EntryLines(p.share[f])[a]
    BY <1>0, <2>1, <2>2 DEF BooksOfFunds
  <2>4. /\ PostedSum(payments, mp) = PostedSum(payments', mp) + mp[p]
        /\ PostedSum(payments, mi) = PostedSum(payments', mi) + mi[p]
        /\ PostedSum(payments', mp) \in Int /\ PostedSum(payments', mi) \in Int
    BY <1>0, <1>2, <2>1, PostedSumShrinks, PostedSumIsInt
  <2>5. \A j \in DOMAIN payments' : NearShares(payments'[j])
    <3>1. payments'[k] \in PaymentRow
      BY <2>1
    <3>2. NearShares(payments'[k])
      BY <2>1, <3>1 DEF NearShares, MadeUp, MayMakeUp, HandedOut
    <3>. QED
      BY <1>4, <2>1, <3>2
  <2>. HIDE DEF p
  <2>6. /\ TotalOf(books', "1100") = TotalOf(books, "1100") + (-(-1)) * HandedOut(p, "principal")
        /\ TotalOf(books', "1110") = TotalOf(books, "1110") + (-(-1)) * HandedOut(p, "interest")
    BY <1>0, <2>1, <2>3, ReceivableMoves
  <2>7. /\ mp[p] = HandedOut(p, "principal") - p.applied["principal"]
        /\ mi[p] = HandedOut(p, "interest") - p.applied["interest"]
        /\ HandedOut(p, "principal") \in Int /\ HandedOut(p, "interest") \in Int
        /\ p.applied["principal"] \in Int /\ p.applied["interest"] \in Int
    BY <1>2, <1>3, <2>1
  <2>. DEFINE hp == HandedOut(p, "principal")
              hi == HandedOut(p, "interest")
              ap == p.applied["principal"]
              ai == p.applied["interest"]
              tp == TotalOf(books, "1100")
              ti == TotalOf(books, "1110")
              qp == PostedSum(payments, mp)
              qi == PostedSum(payments, mi)
              rp == PostedSum(payments', mp)
              ri == PostedSum(payments', mi)
  <2>8. /\ tp = principal - qp
        /\ qp = rp + (hp - ap) /\ qi = ri + (hi - ai)
        /\ TotalOf(books', "1100") = tp + (-(-1)) * hp /\ TotalOf(books', "1110") = ti + (-(-1)) * hi
        /\ principal' = principal + ap /\ interest' = interest + ai
        /\ hp \in Int /\ hi \in Int /\ ap \in Int /\ ai \in Int
        /\ tp \in Int /\ ti \in Int /\ qp \in Int /\ qi \in Int
        /\ rp \in Int /\ ri \in Int
    BY <1>4, <1>5, <2>1, <2>4, <2>6, <2>7
  <2>. HIDE DEF hp, hi, ap, ai, tp, ti, qp, qi, rp, ri
  <2>9. /\ TotalOf(books', "1100") = principal' - rp
        /\ TotalOf(books', "1110") - (interest' - ri) = ti - (interest - qi)
    BY <1>0, <2>8
  <2>10. AccrualDrift' = drift
    BY <2>1 DEF AccrualDrift, drift
  <2>. QED
    BY <1>4, <2>5, <2>9, <2>10 DEF FundSums, mp, mi, MadeUp, NearShares, MayMakeUp, ti, qi, rp, ri
<1>10. ASSUME NEW d, NEW owners, NEW part, Accrues(d, owners, part) PROVE FundSums'
  <2>1. /\ part = Shares(DailyCoupon, owners) /\ part \in [Funds -> Int] /\ owners # <<>>
        /\ d \in Days /\ owners \in Owned(d)
        /\ payments' = payments /\ principal' = principal /\ interest' = interest + DailyCoupon
        /\ d \notin accruals /\ accruals' = accruals \cup {d}
        /\ \A f \in Funds : /\ books'[f]["1110"] = books[f]["1110"] + part[f]
                            /\ books'[f]["1100"] = books[f]["1100"]
    BY <1>10 DEF Accrues
  <2>2. SumFunction(part) - DailyCoupon \in -coupon .. coupon
    BY <1>0, <1>6, <2>1, SharesOfAmount DEF coupon
  <2>3. TotalOf(books', "1110") = TotalOf(books, "1110") + SumFunction(part)
    BY <1>0, <1>1, <2>1, BooksMove
  <2>4. [f \in Funds |-> books'[f]["1100"]] = [f \in Funds |-> books[f]["1100"]]
    BY <2>1
  <2>5. TotalOf(books', "1100") = TotalOf(books, "1100")
    BY <2>4 DEF TotalOf
  <2>6. Cardinality(accruals') = Cardinality(accruals) + 1
    BY <1>7, <2>1, FS_AddElement
  <2>7. AccrualDrift' = drift + coupon
    <3>1. AccrualDrift' = Cardinality(accruals') * coupon
      BY DEF AccrualDrift, coupon
    <3>. QED
      BY <1>6, <1>7, <2>6, <3>1
  <2>8. Summable(part)
    BY <2>1, AllocationAssumption DEF Summable
  <2>9. SumFunction(part) \in Int
    BY <2>8, SumIsInt
  <2>10. TotalOf(books', "1110") - (interest' - PostedSum(payments, mi))
           \in -(drift + coupon) .. drift + coupon
    <3>. DEFINE s == SumFunction(part)
                t == TotalOf(books, "1110")
                q == PostedSum(payments, mi)
    <3>1. drift \in Int
      BY <1>6, <1>7
    <3>2. s \in Int /\ t \in Int /\ q \in Int
      BY <1>5, <2>9
    <3>3. s - DailyCoupon \in -coupon .. coupon /\ t - (interest - q) \in -drift .. drift
      BY <1>4, <2>2
    <3>4. TotalOf(books', "1110") = t + s /\ interest' = interest + DailyCoupon
      BY <2>1, <2>3
    <3>. HIDE DEF s, t, q
    <3>5. (t + s) - ((interest + DailyCoupon) - q) \in -(drift + coupon) .. drift + coupon
      BY <1>0, <1>6, <3>1, <3>2, <3>3
    <3>6. (t + s) - ((interest + DailyCoupon) - q) = TotalOf(books', "1110") - (interest' - q)
      BY <3>4, Zenon
    <3>. QED
      BY <3>5, <3>6, Zenon DEF q
  <2>. QED
    BY <1>4, <2>1, <2>5, <2>7, <2>10 DEF FundSums, mp, mi, MadeUp, NearShares, MayMakeUp
<1>11. CASE UNCHANGED <<principal, interest, books, payments, accruals>>
  BY <1>4, <1>11 DEF FundSums, mp, mi, drift, MadeUp, NearShares, MayMakeUp, AccrualDrift
<1>12. CASE FundNext
  <2>1. ASSUME NEW gross \in Grosses, NEW eff \in Days, NEW owners \in Owned(eff),
               PostPayment(gross, eff, owners)
        PROVE  FundSums'
    BY <1>8, <2>1, Posting
  <2>2. ASSUME NEW k \in DOMAIN payments, NEW d \in Days, ReversePayment(k, d) PROVE FundSums'
    BY <1>9, <2>2, Reversing
  <2>3. ASSUME NEW d \in Days, NEW owners \in Owned(d), AccrueDay(d, owners) PROVE FundSums'
    BY <1>10, <2>3, Accruing
  <2>4. ASSUME NEW new \in Requests, NEW eff \in Days, Reallocate(new, eff) PROVE FundSums'
    BY <1>11, <2>4 DEF Reallocate, ledgerVars
  <2>. QED
    BY <1>12, <2>1, <2>2, <2>3, <2>4 DEF FundNext
<1>. QED
  BY <1>11, <1>12 DEF fundVars, ledgerVars

LEMMA FundInit1 == FundInit => FundInv /\ FundSums
<1>. SUFFICES ASSUME FundInit PROVE FundInv /\ FundSums
  OBVIOUS
<1>1. /\ Init /\ principal = Principal /\ interest = 0 /\ payments = <<>> /\ accruals = {}
      /\ books = [f \in Funds |-> [a \in Accounts |-> IF f = LeadFund /\ a = "1100" THEN Principal ELSE 0]]
  BY DEF FundInit
<1>2. Principal \in Nat /\ LeadFund \in Funds
  BY FundAssumption, AllocationAssumption
<1>3. RowsInv
  BY <1>1, RowsInit
<1>4. books \in BooksOfFunds
  BY <1>1, <1>2 DEF BooksOfFunds
<1>5. payments \in Seq(PaymentRow)
  BY <1>1
<1>6. /\ \A f \in Funds : books[f]["1010"] = 0 /\ books[f]["1110"] = 0
      /\ \A f \in Funds : books[f]["1100"] = (IF f = LeadFund THEN Principal ELSE 0)
  BY <1>1 DEF Accounts
<1>7. ASSUME NEW v PROVE PostedSum(payments, v) = 0
  <2>. DEFINE term == [k \in {j \in DOMAIN payments : payments[j].status = "posted"} |-> v[payments[k]]]
  <2>1. DOMAIN term = {} /\ PostedSum(payments, v) = SumFunction(term)
    BY <1>1 DEF PostedSum
  <2>. HIDE DEF term
  <2>. QED
    BY <2>1, SumOfNone
<1>. DEFINE receivable == [f \in Funds |-> books[f]["1100"]]
            accrued == [f \in Funds |-> books[f]["1110"]]
            lead == [f \in {LeadFund} |-> Principal]
<1>8. /\ DOMAIN receivable = Funds /\ DOMAIN accrued = Funds
      /\ \A f \in Funds : receivable[f] \in Int /\ accrued[f] = 0
      /\ DOMAIN lead \subseteq Funds /\ \A f \in DOMAIN lead : lead[f] = receivable[f]
      /\ \A f \in Funds \ (DOMAIN lead) : receivable[f] = 0
      /\ DOMAIN lead = {LeadFund} /\ lead[LeadFund] = Principal
  BY <1>2, <1>6
<1>9. TotalOf(books, "1100") = SumFunction(receivable) /\ TotalOf(books, "1110") = SumFunction(accrued)
  BY DEF TotalOf
<1>. HIDE DEF receivable, accrued, lead
<1>10. Summable(receivable) /\ Summable(accrued)
  BY <1>8, FundAssumption, AllocationAssumption DEF Summable
<1>11. SumFunction(lead) = Principal
  BY <1>2, <1>8, SumOfOne
<1>12. SumFunction(lead) = SumFunction(receivable)
  BY <1>8, <1>10, SumOverSome
<1>13. SumFunction(accrued) = 0
  BY <1>8, <1>10, SumOfZeros
<1>14. FundInv
  <2>1. \A f \in Funds : books[f]["1010"] = PostedSum(payments, CashIn(f))
    BY <1>6, <1>7
  <2>2. accruals \in SUBSET Days
    BY <1>1
  <2>. QED
    BY <1>1, <1>2, <1>3, <1>4, <1>5, <2>1, <2>2 DEF FundInv, FundTypes
<1>15. AccrualDrift = 0
  <2>1. Drift(DailyCoupon, Owing) \in Nat
    <3>1. Owing \in Nat
      BY AllocationAssumption, FS_CardinalityType DEF Owing
    <3>. QED
      BY <3>1, FundAssumption, SlackOf
  <2>2. Cardinality(accruals) = 0
    BY <1>1, FS_EmptySet
  <2>. QED
    BY <2>1, <2>2 DEF AccrualDrift
<1>16. /\ TotalOf(books, "1100") = principal - PostedSum(payments, MadeUp("principal"))
       /\ TotalOf(books, "1110") - (interest - PostedSum(payments, MadeUp("interest"))) = 0
  <2>1. TotalOf(books, "1100") = Principal /\ TotalOf(books, "1110") = 0
    BY <1>9, <1>11, <1>12, <1>13
  <2>2. PostedSum(payments, MadeUp("principal")) = 0 /\ PostedSum(payments, MadeUp("interest")) = 0
    BY <1>7
  <2>. QED
    BY <1>1, <1>2, <2>1, <2>2
<1>17. FundSums
  BY <1>1, <1>15, <1>16 DEF FundSums
<1>. QED
  BY <1>14, <1>17

LEMMA FundTypesHold == FundSpec => []FundInv
  BY FundInit1, FundNextInv, PTL DEF FundSpec

(* A fund's cash is its part of the payments that stand, through changes of *)
(* ownership, back-dated payments and reversals.                            *)
THEOREM CashStays == FundSpec => []CashOfFund
<1>1. FundInv => CashOfFund
  <2>. SUFFICES ASSUME FundInv, NEW f \in Funds
                PROVE  books[f]["1010"] =
                         SumFunction([k \in {j \in DOMAIN payments : payments[j].status = "posted"} |->
                                        SumFunction(payments[k].share[f])])
    BY DEF CashOfFund
  <2>1. payments \in Seq(PaymentRow) /\ books[f]["1010"] = PostedSum(payments, CashIn(f))
    BY DEF FundInv, FundTypes
  <2>2. \A k \in DOMAIN payments : CashIn(f)[payments[k]] = SumFunction(payments[k].share[f])
    BY <2>1 DEF CashIn
  <2>3. [k \in {j \in DOMAIN payments : payments[j].status = "posted"} |-> CashIn(f)[payments[k]]]
          = [k \in {j \in DOMAIN payments : payments[j].status = "posted"} |->
               SumFunction(payments[k].share[f])]
    BY <2>2
  <2>. QED
    BY <2>1, <2>3 DEF PostedSum
<1>. QED
  BY <1>1, FundTypesHold, PTL

(* The receivables in the books of all the funds are the balances of the    *)
(* loan row, but for the cents that splits of large amounts are off when    *)
(* the shares of an accepted set miss the whole.                            *)
THEOREM FundsAddUp == FundSpec => []FundsReconcile
<1>1. FundInv /\ FundInv' /\ FundSums /\ [FundNext]_fundVars => FundSums'
  BY FundSumsNext
<1>2. FundInit => FundSums
  BY FundInit1
<1>3. FundInv /\ FundSums => FundsReconcile
  <2>. SUFFICES ASSUME FundInv, FundSums PROVE FundsReconcile
    OBVIOUS
  <2>1. payments \in Seq(PaymentRow) /\ principal \in Int /\ interest \in Int /\ books \in BooksOfFunds
    BY DEF FundInv, FundTypes
  <2>. DEFINE pd == PaymentDrift("principal")
              id == PaymentDrift("interest")
              mp == PostedSum(payments, MadeUp("principal"))
              mi == PostedSum(payments, MadeUp("interest"))
              tp == TotalOf(books, "1100")
              ti == TotalOf(books, "1110")
  <2>2. ASSUME NEW b \in Buckets
        PROVE  /\ PaymentDrift(b) \in Int /\ PostedSum(payments, MadeUp(b)) \in Int
               /\ PostedSum(payments, MadeUp(b)) \in -PaymentDrift(b) .. PaymentDrift(b)
    <3>. DEFINE w == MayMakeUp(b)
                v == MadeUp(b)
    <3>1. \A k \in DOMAIN payments : w[payments[k]] = Drift(payments[k].applied[b], Owing)
      BY <2>1 DEF MayMakeUp
    <3>2. [k \in {j \in DOMAIN payments : payments[j].status = "posted"} |-> w[payments[k]]]
            = [k \in {j \in DOMAIN payments : payments[j].status = "posted"} |->
                 Drift(payments[k].applied[b], Owing)]
      BY <3>1
    <3>3. PaymentDrift(b) = PostedSum(payments, w)
      BY <3>2 DEF PaymentDrift, PostedSum
    <3>4. w \in [PaymentRow -> Int] /\ v \in [PaymentRow -> Int]
      BY QuantitiesOfPayments
    <3>5. \A k \in DOMAIN payments : v[payments[k]] \in -(w[payments[k]]) .. w[payments[k]]
      BY DEF FundSums, NearShares
    <3>. HIDE DEF w, v
    <3>6. /\ PostedSum(payments, v) \in -PostedSum(payments, w) .. PostedSum(payments, w)
          /\ PostedSum(payments, v) \in Int /\ PostedSum(payments, w) \in Int
      BY <2>1, <3>4, <3>5, PostedSumBounded, PostedSumIsInt
    <3>. QED
      BY <3>3, <3>6 DEF v
  <2>3. /\ pd \in Int /\ id \in Int /\ mp \in Int /\ mi \in Int
        /\ mp \in -pd .. pd /\ mi \in -id .. id
    BY <2>2 DEF Buckets
  <2>4. AccrualDrift \in Int
    <3>1. Owing \in Nat
      BY AllocationAssumption, FS_CardinalityType DEF Owing
    <3>2. Drift(DailyCoupon, Owing) \in Nat
      BY <3>1, FundAssumption, SlackOf
    <3>3. IsFiniteSet(accruals)
      BY DaysFinite, FS_Subset DEF FundInv, FundTypes
    <3>. QED
      BY <3>2, <3>3, FS_CardinalityType DEF AccrualDrift
  <2>5. tp \in Int /\ ti \in Int
    BY <2>1, TotalIsInt DEF Accounts
  <2>6. tp = principal - mp /\ ti - (interest - mi) \in -AccrualDrift .. AccrualDrift
    BY DEF FundSums
  <2>7. OverFunds("1100") = tp /\ OverFunds("1110") = ti
    BY DEF OverFunds, TotalOf
  <2>. HIDE DEF pd, id, mp, mi, tp, ti
  <2>8. tp - principal \in -pd .. pd
    BY <2>1, <2>3, <2>5, <2>6
  <2>9. ti - interest \in -(id + AccrualDrift) .. id + AccrualDrift
    BY <2>1, <2>3, <2>4, <2>5, <2>6
  <2>. QED
    BY <2>7, <2>8, <2>9 DEF FundsReconcile, pd, id
<1>. QED
  BY <1>1, <1>2, <1>3, FundTypesHold, PTL DEF FundSpec

(* Each fund is booked its share on the effective date, give or take a cent. *)
THEOREM SharesHold == FundSpec => SharesByOwnership
<1>. DEFINE ByOwnership ==
       Len(payments') > Len(payments) =>
         LET p == payments'[Len(payments')]
         IN \A f \in Funds, b \in Buckets :
              LET pct == SumFunction([r \in {x \in ActiveOn(p.eff) : x.fund = f} |-> r.pct])
              IN p.share[f][b] * Whole - p.applied[b] * pct
                   \in 1 - Whole .. Whole - (IF Small(p.applied[b]) THEN 1 ELSE 0)
<1>1. FundInv /\ [FundNext]_fundVars => [ByOwnership]_fundVars
  <2>. SUFFICES ASSUME FundInv, [FundNext]_fundVars, Len(payments') > Len(payments)
                PROVE  LET p == payments'[Len(payments')]
                       IN \A f \in Funds, b \in Buckets :
                            LET pct == SumFunction([r \in {x \in ActiveOn(p.eff) : x.fund = f} |-> r.pct])
                            IN p.share[f][b] * Whole - p.applied[b] * pct
                                 \in 1 - Whole .. Whole - (IF Small(p.applied[b]) THEN 1 ELSE 0)
    OBVIOUS
  <2>0. RowsInv /\ payments \in Seq(PaymentRow) /\ Len(payments) \in Nat
    BY DEF FundInv, FundTypes
  <2>1. ASSUME NEW k, Reverses(k) PROVE FALSE
    <3>1. DOMAIN payments' = DOMAIN payments /\ payments' \in Seq(PaymentRow)
      BY <2>1 DEF Reverses
    <3>2. Len(payments') = Len(payments)
      BY <2>0, <3>1
    <3>. QED
      BY <2>0, <3>2
  <2>2. ASSUME payments' = payments PROVE FALSE
    BY <2>0, <2>2
  <2>3. PICK p, owners : Posts(p, owners)
    <3>1. FundNext
      BY <2>2 DEF fundVars, ledgerVars
    <3>2. ASSUME NEW k \in DOMAIN payments, NEW d \in Days, ReversePayment(k, d) PROVE FALSE
      BY <2>1, <3>2, Reversing
    <3>3. ASSUME NEW d \in Days, NEW owners \in Owned(d), AccrueDay(d, owners) PROVE FALSE
      BY <2>2, <3>3 DEF AccrueDay
    <3>4. ASSUME NEW new \in Requests, NEW eff \in Days, Reallocate(new, eff) PROVE FALSE
      BY <2>2, <3>4 DEF Reallocate, ledgerVars
    <3>. QED
      BY <3>1, <3>2, <3>3, <3>4, Posting DEF FundNext
  <2>4. payments'[Len(payments')] = p
    BY <2>0, <2>3 DEF Posts
  <2>5. /\ p \in PaymentRow /\ p.eff \in Days /\ owners \in Owned(p.eff) /\ owners # <<>>
        /\ \A f \in Funds, b \in Buckets : p.share[f][b] = Shares(p.applied[b], owners)[f]
        /\ \A b \in Buckets : p.applied[b] \in Nat
    BY <2>3 DEF Posts, PaymentRow, Buckets
  <2>6. ASSUME NEW f \in Funds, NEW b \in Buckets
        PROVE  p.share[f][b] * Whole
                 - p.applied[b] * SumFunction([r \in {x \in ActiveOn(p.eff) : x.fund = f} |-> r.pct])
                   \in 1 - Whole .. Whole - (IF Small(p.applied[b]) THEN 1 ELSE 0)
    <3>. DEFINE amount == p.applied[b]
                eff == p.eff
    <3>1. amount \in Nat /\ eff \in Days /\ owners \in Owned(eff) /\ p.share[f][b] = Shares(amount, owners)[f]
      BY <2>5
    <3>. HIDE DEF amount, eff
    <3>2. Shares(amount, owners)[f] * Whole - amount * PctOfFund(eff, f) \in Rounding(amount)
      BY <2>0, <2>5, <3>1, ShareOfFund
    <3>3. Rounding(amount) = 1 - Whole .. Whole - (IF Small(amount) THEN 1 ELSE 0)
      BY Zenon DEF Rounding
    <3>. QED
      BY <3>1, <3>2, <3>3, Zenon DEF amount, eff, PctOfFund
  <2>. QED
    BY <2>4, <2>6, Zenon
<1>. QED
  BY <1>1, FundTypesHold, PTL DEF FundSpec, SharesByOwnership

-----------------------------------------------------------------------------
(***************************************************************************)
(* Portfolios: the reports.  A query joins the loan with the shares some   *)
(* funds hold on a day; what it totals is a quantity of the loan times the *)
(* shares, so that reports agree if they join the same shares.             *)
(***************************************************************************)
TheLoan == [id |-> 1, status |-> status, principal |-> owed, interest |-> 0,
            fees |-> 0, maturity |-> MaxDay]
ShareOf(r) == [loan |-> 1, fund |-> r.fund, pct |-> r.pct, from |-> r.from, to |-> r.to]
JoinRow(r) == [loan |-> TheLoan, share |-> ShareOf(r)]
HeldBy(d, F) == {r \in ActiveOn(d) : r.fund \in F}
JoinRows(d, F) == {JoinRow(r) : r \in HeldBy(d, F)}

LEMMA JoinRowFields ==
  ASSUME NEW r
  PROVE  /\ JoinRow(r).loan = TheLoan /\ JoinRow(r).share.pct = r.pct
         /\ JoinRow(r).share.fund = r.fund /\ JoinRow(r).share.loan = 1
         /\ JoinRow(r).share.from = r.from /\ JoinRow(r).share.to = r.to
BY DEF JoinRow, ShareOf

(* The rows of a join.                                                      *)
LEMMA JoinOfFunds ==
  ASSUME NEW d, NEW F, NEW S
  PROVE  Join(Db, F, d, S) = IF status # "none" /\ status \in S THEN JoinRows(d, F) ELSE {}
<1>1. /\ Db.loans = IF status = "none" THEN {} ELSE {TheLoan}
      /\ Db.allocations = {ShareOf(r) : r \in rows}
  BY DEF Db, TheLoan, ShareOf
<1>2. TheLoan.id = 1 /\ TheLoan.status = status
  BY DEF TheLoan
<1>3. ASSUME NEW h \in Join(Db, F, d, S)
      PROVE  status # "none" /\ status \in S /\ h \in JoinRows(d, F)
  <2>1. /\ h \in [loan : Db.loans, share : Db.allocations]
        /\ h.share.fund \in F /\ InForce(h.share, d) /\ h.loan.status \in S
    BY DEF Join
  <2>2. status # "none" /\ h.loan = TheLoan
    BY <1>1, <2>1
  <2>3. PICK r \in rows : h.share = ShareOf(r)
    BY <1>1, <2>1
  <2>4. h = JoinRow(r)
    BY <2>1, <2>2, <2>3 DEF JoinRow
  <2>5. r \in HeldBy(d, F)
    BY <2>1, <2>3 DEF HeldBy, ActiveOn, InForce, OpenAt, ShareOf
  <2>. QED
    BY <1>2, <2>1, <2>2, <2>4, <2>5 DEF JoinRows
<1>4. ASSUME status # "none", status \in S, NEW r \in HeldBy(d, F)
      PROVE  JoinRow(r) \in Join(Db, F, d, S)
  <2>1. r \in rows /\ r.from <= d /\ OpenAt(r, d) /\ r.fund \in F
    BY DEF HeldBy, ActiveOn
  <2>2. JoinRow(r) \in [loan : Db.loans, share : Db.allocations]
    BY <1>1, <1>4, <2>1 DEF JoinRow
  <2>3. InForce(JoinRow(r).share, d)
    BY <2>1, JoinRowFields DEF InForce, OpenAt
  <2>. QED
    BY <1>2, <1>4, <2>1, <2>2, <2>3, JoinRowFields DEF Join
<1>. QED
  BY <1>3, <1>4 DEF JoinRows

(* A total over a join is the quantity times the shares.                    *)
LEMMA TotalOfJoin ==
  ASSUME RowsInv, NEW d \in Days, NEW F, NEW w \in Int, NEW f, DOMAIN f = JoinRows(d, F),
         \A r \in HeldBy(d, F) : f[JoinRow(r)] = w * r.pct
  PROVE  PctOf(HeldBy(d, F)) \in Int /\ SumFunction(f) = w * PctOf(HeldBy(d, F))
<1>. DEFINE S == HeldBy(d, F)
            pct == [r \in S |-> r.pct]
            g == [r \in S |-> w * r.pct]
            b == [r \in S |-> JoinRow(r)]
<1>1. /\ IsFiniteSet(S)
      /\ \A r \in S : r.pct \in Int
      /\ \A r, q \in S : r.fund = q.fund => r = q
  <2>1. S \subseteq ActiveOn(d)
    BY DEF HeldBy
  <2>2. WholeSet(ActiveOn(d)) /\ ActiveOn(d) \subseteq Rows
    BY DEF RowsInv, TypeOK, ActiveOn
  <2>3. \A r \in Rows : r.pct \in Int
    BY WholeAssumption DEF Rows
  <2>. QED
    BY <2>1, <2>2, <2>3, FS_Subset DEF WholeSet
<1>2. /\ DOMAIN pct = S /\ \A r \in S : pct[r] = r.pct
      /\ DOMAIN g = S /\ \A r \in S : g[r] = w * pct[r]
      /\ DOMAIN b = S /\ \A r \in S : b[r] = JoinRow(r)
  OBVIOUS
<1>3. PctOf(S) = SumFunction(pct)
  BY DEF PctOf
<1>4. /\ DOMAIN f = JoinRows(d, F) /\ b \in [S -> JoinRows(d, F)]
      /\ \A h \in JoinRows(d, F) : \E r \in S : b[r] = h
  BY DEF JoinRows
<1>5. \A r \in S : g[r] = f[b[r]]
  BY <1>2
<1>6. \A r, q \in S : b[r] = b[q] => r = q
  BY <1>1, <1>2, JoinRowFields
<1>. HIDE DEF S, pct, g, b
<1>7. Summable(pct)
  BY <1>1, <1>2 DEF Summable
<1>8. Summable(g) /\ SumFunction(g) = w * SumFunction(pct)
  BY <1>2, <1>7, SumTimes
<1>9. SumFunction(f) = SumFunction(g)
  BY <1>2, <1>4, <1>5, <1>6, <1>8, SumRenamed
<1>10. SumFunction(pct) \in Int
  BY <1>7, SumIsInt
<1>. QED
  BY <1>3, <1>8, <1>9, <1>10 DEF S

LEMMA PrincipalOfJoin ==
  ASSUME PTypeInv, RowsInv, NEW d \in Days, NEW F
  PROVE  /\ PctOf(HeldBy(d, F)) \in Int
         /\ TotalPrincipal(JoinRows(d, F)) = owed * PctOf(HeldBy(d, F))
<1>. DEFINE f == [h \in JoinRows(d, F) |-> ProRata(h.loan.principal, h)]
<1>1. owed \in Int
  BY DEF PTypeInv
<1>2. DOMAIN f = JoinRows(d, F)
  OBVIOUS
<1>3. ASSUME NEW r \in HeldBy(d, F) PROVE f[JoinRow(r)] = owed * r.pct
  <2>1. JoinRow(r) \in JoinRows(d, F)
    BY DEF JoinRows
  <2>2. TheLoan.principal = owed
    BY DEF TheLoan
  <2>. QED
    BY <2>1, <2>2, JoinRowFields DEF ProRata
<1>4. TotalPrincipal(JoinRows(d, F)) = SumFunction(f)
  BY DEF TotalPrincipal
<1>. HIDE DEF f
<1>. QED
  BY <1>1, <1>2, <1>3, <1>4, TotalOfJoin

LEMMA LatestRecord ==
  ASSUME PTypeInv, NEW d \in Days
  PROVE  Latest(Db, TheLoan, d).pastDue \in Int /\ Latest(Db, TheLoan, d).dpd \in Int
<1>. DEFINE entry(k) == [loan |-> 1, day |-> k, dpd |-> record[k].dpd, pastDue |-> record[k].pastDue]
            upTo == {r \in Db.records : r.loan = TheLoan.id /\ r.day <= d}
<1>1. Db.records = {entry(k) : k \in DOMAIN record}
  BY DEF Db
<1>2. \A r \in Db.records : r.day \in Nat /\ r.dpd \in Int /\ r.pastDue \in Int
  <2>1. \A k \in DOMAIN record : k \in Nat /\ record[k].dpd \in Int /\ record[k].pastDue \in Int
    BY DEF PTypeInv, RecordOK, Days
  <2>. QED
    BY <1>1, <2>1
<1>3. Latest(Db, TheLoan, d) = IF upTo = {} THEN NoRecord
                               ELSE CHOOSE r \in upTo : \A q \in upTo : q.day <= r.day
  BY DEF Latest
<1>. HIDE DEF upTo
<1>4. CASE upTo = {}
  BY <1>3, <1>4 DEF NoRecord
<1>5. CASE upTo # {}
  <2>1. \A r \in upTo : r.day \in Nat /\ r.day <= d /\ r.dpd \in Int /\ r.pastDue \in Int
    BY <1>2 DEF upTo
  <2>. DEFINE T == {r.day : r \in upTo}
  <2>2. T \in SUBSET Nat /\ T # {} /\ d \in Nat /\ \A y \in T : y <= d
    BY <1>5, <2>1 DEF Days
  <2>3. \E x \in T : \A y \in T : y <= x
    BY <2>2, GreatestExists
  <2>4. \E r \in upTo : \A q \in upTo : q.day <= r.day
    BY <2>3
  <2>5. Latest(Db, TheLoan, d) \in upTo
    BY <1>3, <1>5, <2>4
  <2>. QED
    BY <2>1, <2>5
<1>. QED
  BY <1>4, <1>5

LEMMA PastDueOfJoin ==
  ASSUME PTypeInv, RowsInv, NEW d \in Days, NEW F
  PROVE  TotalPastDue(Db, d, JoinRows(d, F)) = Latest(Db, TheLoan, d).pastDue * PctOf(HeldBy(d, F))
<1>. DEFINE w == Latest(Db, TheLoan, d).pastDue
            f == [h \in JoinRows(d, F) |-> ProRata(Latest(Db, h.loan, d).pastDue, h)]
<1>1. w \in Int
  BY LatestRecord
<1>2. DOMAIN f = JoinRows(d, F)
  OBVIOUS
<1>3. ASSUME NEW r \in HeldBy(d, F) PROVE f[JoinRow(r)] = w * r.pct
  <2>1. JoinRow(r) \in JoinRows(d, F)
    BY DEF JoinRows
  <2>. QED
    BY <2>1, JoinRowFields DEF ProRata
<1>4. TotalPastDue(Db, d, JoinRows(d, F)) = SumFunction(f)
  BY DEF TotalPastDue
<1>. HIDE DEF f, w
<1>5. SumFunction(f) = w * PctOf(HeldBy(d, F))
  BY <1>1, <1>2, <1>3, TotalOfJoin
<1>. QED
  BY <1>4, <1>5 DEF w

(* What the funds hold one by one is what they hold together.               *)
LEMMA FundsTogether ==
  ASSUME RowsInv, NEW d \in Days, NEW F \in SUBSET Funds, NEW w \in Int, NEW g, DOMAIN g = F,
         \A f \in F : g[f] = w * PctOf(HeldBy(d, {f}))
  PROVE  SumFunction(g) = w * PctOf(HeldBy(d, F))
<1>. DEFINE S == HeldBy(d, F)
            pct == [r \in S |-> r.pct]
            fund == [r \in S |-> r.fund]
            part == [f \in F |-> [r \in HeldBy(d, {f}) |-> r.pct]]
            sums == [f \in F |-> PctOf(HeldBy(d, {f}))]
<1>1. IsFiniteSet(S) /\ \A r \in S : r.pct \in Int
  <2>1. S \subseteq ActiveOn(d)
    BY DEF HeldBy
  <2>2. WholeSet(ActiveOn(d)) /\ ActiveOn(d) \subseteq Rows
    BY DEF RowsInv, TypeOK, ActiveOn
  <2>3. \A r \in Rows : r.pct \in Int
    BY WholeAssumption DEF Rows
  <2>. QED
    BY <2>1, <2>2, <2>3, FS_Subset DEF WholeSet
<1>2. IsFiniteSet(F)
  BY AllocationAssumption, FS_Subset
<1>3. /\ DOMAIN pct = S /\ \A r \in S : pct[r] = r.pct
      /\ \A r \in S : fund[r] = r.fund /\ r.fund \in F
      /\ DOMAIN sums = F
  BY DEF HeldBy
<1>4. ASSUME NEW f \in F
      PROVE  /\ DOMAIN part[f] = HeldBy(d, {f}) /\ sums[f] = SumFunction(part[f])
             /\ \A r \in HeldBy(d, {f}) : part[f][r] = r.pct
  BY DEF PctOf
<1>5. \A f \in F : HeldBy(d, {f}) \subseteq S /\ \A r \in S : r \in HeldBy(d, {f}) <=> r.fund = f
  BY DEF HeldBy
<1>6. PctOf(S) = SumFunction(pct) /\ \A f \in F : g[f] = w * sums[f]
  BY DEF PctOf
<1>. HIDE DEF S, pct, fund, part, sums
<1>7. Summable(pct)
  BY <1>1, <1>3 DEF Summable
<1>8. PartsByKey(pct, F, fund, part, sums)
  <2>1. \A r \in DOMAIN pct : fund[r] \in F
    BY <1>3
  <2>2. ASSUME NEW f \in F
        PROVE  /\ DOMAIN part[f] \subseteq DOMAIN pct /\ sums[f] = SumFunction(part[f])
               /\ \A r \in DOMAIN pct : r \in DOMAIN part[f] <=> fund[r] = f
               /\ \A r \in DOMAIN part[f] : part[f][r] = pct[r]
    <3>1. DOMAIN part[f] = HeldBy(d, {f}) /\ HeldBy(d, {f}) \subseteq S
      BY <1>4, <1>5
    <3>2. \A r \in S : r \in HeldBy(d, {f}) <=> fund[r] = f
      BY <1>3, <1>5
    <3>3. \A r \in HeldBy(d, {f}) : part[f][r] = pct[r]
      BY <1>3, <1>4, <3>1
    <3>. QED
      BY <1>3, <1>4, <3>1, <3>2, <3>3
  <2>. QED
    BY <1>2, <1>3, <1>7, <2>1, <2>2 DEF PartsByKey
<1>9. Summable(sums) /\ SumFunction(sums) = SumFunction(pct)
  BY <1>8, SumByKey
<1>10. SumFunction(g) = w * SumFunction(sums)
  BY <1>3, <1>6, <1>9, SumTimes
<1>. QED
  BY <1>6, <1>9, <1>10 DEF S

(* What some funds and the others hold is all that is held.                 *)
LEMMA TwoParts ==
  ASSUME RowsInv, NEW d \in Days, NEW A \in SUBSET Funds
  PROVE  /\ PctOf(HeldBy(d, A)) \in Int /\ PctOf(HeldBy(d, Funds \ A)) \in Int
         /\ PctOf(HeldBy(d, A)) + PctOf(HeldBy(d, Funds \ A)) = PctOf(ActiveOn(d))
<1>. DEFINE S == ActiveOn(d)
            B == Funds \ A
            pct == [r \in S |-> r.pct]
            a == [r \in S |-> IF r.fund \in A THEN r.pct ELSE 0]
            b == [r \in S |-> IF r.fund \in A THEN 0 ELSE r.pct]
            aa == [r \in HeldBy(d, A) |-> r.pct]
            bb == [r \in HeldBy(d, B) |-> r.pct]
<1>1. /\ IsFiniteSet(S)
      /\ \A r \in S : r.pct \in Int /\ r.fund \in Funds
  <2>1. WholeSet(S) /\ S \subseteq Rows
    BY DEF RowsInv, TypeOK, ActiveOn
  <2>2. \A r \in Rows : r.pct \in Int /\ r.fund \in Funds
    BY WholeAssumption DEF Rows
  <2>. QED
    BY <2>1, <2>2 DEF WholeSet
<1>2. /\ HeldBy(d, A) \subseteq S /\ HeldBy(d, B) \subseteq S
      /\ \A r \in S : /\ r \in HeldBy(d, A) <=> r.fund \in A
                      /\ r \in HeldBy(d, B) <=> r.fund \notin A
  BY <1>1 DEF HeldBy
<1>3. /\ DOMAIN pct = S /\ DOMAIN a = S /\ DOMAIN b = S
      /\ \A r \in S : /\ pct[r] = r.pct
                      /\ a[r] = IF r.fund \in A THEN r.pct ELSE 0
                      /\ b[r] = IF r.fund \in A THEN 0 ELSE r.pct
      /\ DOMAIN aa = HeldBy(d, A) /\ \A r \in HeldBy(d, A) : aa[r] = r.pct
      /\ DOMAIN bb = HeldBy(d, B) /\ \A r \in HeldBy(d, B) : bb[r] = r.pct
  OBVIOUS
<1>4. /\ PctOf(S) = SumFunction(pct) /\ PctOf(HeldBy(d, A)) = SumFunction(aa)
      /\ PctOf(HeldBy(d, B)) = SumFunction(bb)
  BY DEF PctOf
<1>. HIDE DEF S, B, pct, a, b, aa, bb
<1>5. Summable(a) /\ Summable(b)
  BY <1>1, <1>3 DEF Summable
<1>6. SumFunction(pct) = SumFunction(a) + SumFunction(b)
  <2>1. \A r \in S : pct[r] = a[r] + b[r]
    BY <1>1, <1>3
  <2>. QED
    BY <1>3, <1>5, <2>1, SumPlus
<1>7. SumFunction(aa) = SumFunction(a)
  <2>1. DOMAIN aa \subseteq DOMAIN a /\ \A r \in DOMAIN aa : aa[r] = a[r]
    BY <1>2, <1>3
  <2>2. \A r \in (DOMAIN a) \ (DOMAIN aa) : a[r] = 0
    BY <1>2, <1>3
  <2>. QED
    BY <1>5, <2>1, <2>2, SumOverSome
<1>8. SumFunction(bb) = SumFunction(b)
  <2>1. DOMAIN bb \subseteq DOMAIN b /\ \A r \in DOMAIN bb : bb[r] = b[r]
    BY <1>2, <1>3
  <2>2. \A r \in (DOMAIN b) \ (DOMAIN bb) : b[r] = 0
    BY <1>2, <1>3
  <2>. QED
    BY <1>5, <2>1, <2>2, SumOverSome
<1>9. SumFunction(a) \in Int /\ SumFunction(b) \in Int
  BY <1>5, SumIsInt
<1>. QED
  BY <1>4, <1>6, <1>7, <1>8, <1>9 DEF S, B

LEMMA Scaled ==
  ASSUME NEW amount \in Nat, NEW x \in Int, NEW y \in Int, NEW all \in Nat, NEW tolerance \in Nat,
         x + y - all \in -tolerance .. tolerance
  PROVE  amount * x + amount * y - amount * all \in -(tolerance * amount) .. tolerance * amount
<1>. DEFINE e == x + y - all
<1>1. amount * x + amount * y - amount * all = amount * e
  OBVIOUS
<1>2. amount * e \in Int /\ amount * e <= amount * tolerance /\ -(amount * tolerance) <= amount * e
  <2>1. e \in Int /\ e <= tolerance /\ -tolerance <= e
    OBVIOUS
  <2>. HIDE DEF e
  <2>. QED
    BY <2>1
<1>. QED
  BY <1>1, <1>2

LEMMA PctIsInt ==
  ASSUME PTypeInv, RowsInv, NEW d \in Days, NEW F
  PROVE  PctOf(HeldBy(d, F)) \in Int
BY PrincipalOfJoin

LEMMA BucketOfDays == ASSUME NEW n \in Int PROVE DpdToBucket(n) \in BUCKET_ORDER
<1>1. CASE n <= 0
  <2>1. DpdToBucket(n) = "current"
    BY <1>1 DEF DpdToBucket
  <2>. QED BY <2>1 DEF BUCKET_ORDER
<1>2. CASE n \in 1 .. 30
  <2>1. DpdToBucket(n) = "1-30"
    BY <1>2 DEF DpdToBucket
  <2>. QED BY <2>1 DEF BUCKET_ORDER
<1>3. CASE n \in 31 .. 60
  <2>1. DpdToBucket(n) = "31-60"
    BY <1>3 DEF DpdToBucket
  <2>. QED BY <2>1 DEF BUCKET_ORDER
<1>4. CASE n \in 61 .. 90
  <2>1. DpdToBucket(n) = "61-90"
    BY <1>4 DEF DpdToBucket
  <2>. QED BY <2>1 DEF BUCKET_ORDER
<1>5. CASE n \in 91 .. 120
  <2>1. DpdToBucket(n) = "91-120"
    BY <1>5 DEF DpdToBucket
  <2>. QED BY <2>1 DEF BUCKET_ORDER
<1>6. CASE n > 120
  <2>1. ~(n <= 0) /\ n \notin 1 .. 30 /\ n \notin 31 .. 60 /\ n \notin 61 .. 90 /\ n \notin 91 .. 120
    BY <1>6
  <2>2. DpdToBucket(n) = "120+"
    BY <2>1, Zenon DEF DpdToBucket
  <2>. QED BY <2>2 DEF BUCKET_ORDER
<1>. QED
  BY <1>1, <1>2, <1>3, <1>4, <1>5, <1>6

LEMMA SixBuckets == IsFiniteSet(BUCKET_ORDER)
<1>1. /\ IsFiniteSet({"current"}) /\ IsFiniteSet({"1-30"}) /\ IsFiniteSet({"31-60"})
      /\ IsFiniteSet({"61-90"}) /\ IsFiniteSet({"91-120"}) /\ IsFiniteSet({"120+"})
  BY FS_Singleton
<1>2. IsFiniteSet({"current"} \cup {"1-30"} \cup {"31-60"})
  BY <1>1, FS_Union
<1>3. IsFiniteSet({"61-90"} \cup {"91-120"} \cup {"120+"})
  BY <1>1, FS_Union
<1>4. BUCKET_ORDER = ({"current"} \cup {"1-30"} \cup {"31-60"}) \cup ({"61-90"} \cup {"91-120"} \cup {"120+"})
  BY DEF BUCKET_ORDER
<1>. QED
  BY <1>2, <1>3, <1>4, FS_Union

(* A loan is in one bucket, with all its shares.                            *)
LEMMA AgedInOneBucket ==
  ASSUME PTypeInv, RowsInv, NEW d \in Days, NEW F, status \in AgingStatuses
  PROVE  AgedPastDue(AgingReport(Db, d, F, BUCKET_ORDER)) = TotalPastDue(Db, d, JoinRows(d, F))
<1>. DEFINE home == DpdToBucket(Latest(Db, TheLoan, d).dpd)
            report == AgingReport(Db, d, F, BUCKET_ORDER)
            g == [b \in BUCKET_ORDER |-> report[b].pastDue]
            f == [b \in {home} |-> report[b].pastDue]
            due == TotalPastDue(Db, d, JoinRows(d, F))
<1>1. status # "none"
  BY DEF AgingStatuses
<1>2. Join(Db, F, d, AgingStatuses) = JoinRows(d, F)
  BY <1>1, JoinOfFunds
<1>3. home \in BUCKET_ORDER
  BY LatestRecord, BucketOfDays
<1>4. ASSUME NEW b \in BUCKET_ORDER
      PROVE  InBucket(Db, d, F, BUCKET_ORDER, b) = IF b = home THEN JoinRows(d, F) ELSE {}
  <2>1. \A h \in JoinRows(d, F) : h.loan = TheLoan
    BY JoinRowFields DEF JoinRows
  <2>. QED
    BY <1>2, <2>1 DEF InBucket
<1>5. ASSUME NEW b \in BUCKET_ORDER
      PROVE  g[b] = TotalPastDue(Db, d, InBucket(Db, d, F, BUCKET_ORDER, b))
  BY DEF AgingReport
<1>6. TotalPastDue(Db, d, {}) = 0
  BY SumOfNone DEF TotalPastDue
<1>7. due \in Int
  BY PastDueOfJoin, PctIsInt, LatestRecord
<1>8. DOMAIN g = BUCKET_ORDER /\ DOMAIN f = {home} /\ AgedPastDue(report) = SumFunction(g)
  BY DEF AgedPastDue
<1>9. f[home] = g[home]
  BY <1>3
<1>. HIDE DEF g, f, home, due, report
<1>10. g[home] = due /\ \A b \in BUCKET_ORDER \ {home} : g[b] = 0
  BY <1>3, <1>4, <1>5, <1>6 DEF due
<1>11. IsFiniteSet(BUCKET_ORDER)
  BY SixBuckets
<1>12. Summable(g)
  BY <1>7, <1>8, <1>10, <1>11 DEF Summable
<1>13. SumFunction(f) = due
  BY <1>7, <1>8, <1>9, <1>10, SumOfOne
<1>14. SumFunction(f) = SumFunction(g)
  BY <1>3, <1>8, <1>9, <1>10, <1>12, SumOverSome
<1>. QED
  BY <1>8, <1>13, <1>14 DEF report, due

LEMMA SummaryColumns ==
  ASSUME NEW db, NEW d, NEW f
  PROVE  /\ SummaryRow(db, d, f).principal = TotalPrincipal(Join(db, {f}, d, SummaryStatuses))
         /\ SummaryRow(db, d, f).pastDue = TotalPastDue(db, d, Join(db, {f}, d, AllStatuses))
<1>. DEFINE joined == Join(db, {f}, d, SummaryStatuses)
            count == LoanCount(joined, SummaryStatuses \ {"paid_off", "charged_off"})
            byStatus == [s \in {"funded", "delinquent", "default", "workout", "paid_off"} |->
                           LoanCount(joined, {s})]
            shown == TotalPrincipal(joined)
            exposure == TotalExposure(joined)
            late == SummaryPastDue(db, d, f)
<1>1. SummaryRow(db, d, f) = [count |-> count, byStatus |-> byStatus, principal |-> shown,
                              exposure |-> exposure, pastDue |-> late]
  BY DEF SummaryRow
<1>2. late = TotalPastDue(db, d, Join(db, {f}, d, AllStatuses))
  BY DEF SummaryPastDue
<1>. HIDE DEF count, byStatus, shown, exposure, late
<1>3. SummaryRow(db, d, f).principal = shown /\ SummaryRow(db, d, f).pastDue = late
  BY <1>1
<1>. QED
  BY <1>2, <1>3 DEF shown

ReportInv == PTypeInv /\ RowsInv

LEMMA BoardedRows == PTypeInv /\ RowsInv /\ Board => RowsInv'
<1>. SUFFICES ASSUME PTypeInv, RowsInv, NEW from \in Days, rows' = {Row(LeadFund, Whole, from)},
                     NEW d \in Days
              PROVE  TypeOK' /\ WholeSet(ActiveOn(d)')
  BY DEF Board, RowsInv, WholeSet, PctOf
<1>. DEFINE r == Row(LeadFund, Whole, from)
<1>1. ActiveOn(d)' = {} \/ ActiveOn(d)' = {r}
  BY DEF ActiveOn
<1>2. r.pct = Whole /\ Whole \in Int
  BY WholeAssumption DEF Row
<1>3. TypeOK'
  BY AllocationAssumption, WholeAssumption DEF TypeOK, Rows, Row, OpenAt
<1>. HIDE DEF r
<1>4. PctOf({r}) = Whole
  <2>. DEFINE f == [q \in {r} |-> q.pct]
  <2>1. DOMAIN f = {r} /\ f[r] = Whole
    BY <1>2
  <2>. HIDE DEF f
  <2>2. SumFunction(f) = Whole
    BY <1>2, <2>1, SumOfOne
  <2>. QED
    BY <2>2 DEF PctOf, f
<1>5. IsFiniteSet({r}) /\ IsFiniteSet({})
  BY FS_Singleton, FS_EmptySet
<1>. QED
  BY <1>1, <1>3, <1>4, <1>5 DEF WholeSet, SumsOfSets

LEMMA NoRowsWhole == PInit => RowsInv
<1>. SUFFICES ASSUME rows = {} PROVE RowsInv
  BY DEF PInit
<1>1. \A d \in Days : ActiveOn(d) = {}
  BY DEF ActiveOn
<1>. QED
  BY <1>1, FS_EmptySet DEF RowsInv, TypeOK, WholeSet

LEMMA ReportInvHolds == PSpec => []ReportInv
<1>1. PInit => ReportInv
  BY PTypeInit, NoRowsWhole DEF ReportInv
<1>2. ReportInv /\ [PNext]_portfolioVars => ReportInv'
  <2>. SUFFICES ASSUME ReportInv, [PNext]_portfolioVars PROVE ReportInv'
    OBVIOUS
  <2>. QED
    BY PTypeNext, RowSteps, RowsNext, BoardedRows DEF ReportInv
<1>. QED
  BY <1>1, <1>2, PTL DEF PSpec

(* The principal that the summary shows for the active funds, with what     *)
(* closed funds hold, is the principal of the loan, to the tolerance.       *)
THEOREM SharesAlwaysAddUp == PSpec => []SharesAddUp
<1>1. ReportInv => SharesAddUp
  <2>. SUFFICES ASSUME ReportInv, NEW d \in Days, status \in SummaryStatuses, Owners(d) # {}
                PROVE  GrandPrincipal(PortfolioSummary(Db, d, Funds))
                         + TotalPrincipal(Join(Db, Funds \ Db.active, d, SummaryStatuses))
                         - owed * Whole \in -(PctTolerance * owed) .. PctTolerance * owed
    BY DEF SharesAddUp
  <2>. DEFINE active == Db.active
              closed == Funds \ active
              summary == PortfolioSummary(Db, d, Funds)
              shown == [f \in DOMAIN summary |-> summary[f].principal]
              P(F) == PctOf(HeldBy(d, F))
  <2>0. PTypeInv /\ RowsInv /\ owed \in Nat /\ Whole \in Nat /\ PctTolerance \in Nat
    BY AllocationAssumption, WholeAssumption DEF ReportInv, PTypeInv
  <2>1. status # "none" /\ active \subseteq Funds /\ closed \subseteq Funds
    BY DEF SummaryStatuses, AllStatuses, Db
  <2>2. DOMAIN summary = active /\ \A f \in active : summary[f] = SummaryRow(Db, d, f)
    BY <2>1 DEF PortfolioSummary
  <2>3. ASSUME NEW f \in active PROVE shown[f] = owed * P({f})
    <3>1. Join(Db, {f}, d, SummaryStatuses) = JoinRows(d, {f})
      BY <2>1, JoinOfFunds
    <3>2. summary[f].principal = TotalPrincipal(JoinRows(d, {f}))
      BY <2>2, <3>1, SummaryColumns
    <3>. QED
      BY <2>0, <2>2, <3>2, PrincipalOfJoin
  <2>4. DOMAIN shown = active /\ GrandPrincipal(summary) = SumFunction(shown)
    BY <2>2 DEF GrandPrincipal
  <2>5. TotalPrincipal(Join(Db, closed, d, SummaryStatuses)) = owed * P(closed)
    BY <2>0, <2>1, JoinOfFunds, PrincipalOfJoin
  <2>. HIDE DEF shown, summary, active
  <2>6. SumFunction(shown) = owed * P(active)
    BY <2>0, <2>1, <2>3, <2>4, FundsTogether
  <2>7. P(active) + P(closed) = PctOf(ActiveOn(d)) /\ P(active) \in Int /\ P(closed) \in Int
    BY <2>0, <2>1, TwoParts
  <2>8. PctOf(ActiveOn(d)) - Whole \in -PctTolerance .. PctTolerance
    BY <2>0, NearlyWhole DEF Owners
  <2>. HIDE DEF P, closed
  <2>. DEFINE x == P(active)
              y == P(closed)
  <2>9. owed * x + owed * y - owed * Whole \in -(PctTolerance * owed) .. PctTolerance * owed
    BY <2>0, <2>7, <2>8, Scaled
  <2>. QED
    BY <2>4, <2>5, <2>6, <2>9 DEF closed, active, summary
<1>. QED
  BY <1>1, ReportInvHolds, PTL

(* Whatever was recorded and however the loan was passed on, the summary    *)
(* and the aging report agree on what is past due, but for what a loan owed *)
(* when it left the statuses that the aging report looks at.                *)
THEOREM PastDueAlwaysReconciles == PSpec => []PastDueReconciles
<1>1. ReportInv => PastDueReconciles
  <2>. DEFINE active == Db.active
  <2>. SUFFICES ASSUME ReportInv, NEW d \in Days
                PROVE  GrandPastDue(PortfolioSummary(Db, d, active))
                         = IF status \in AgingStatuses
                           THEN AgedPastDue(AgingReport(Db, d, active, BUCKET_ORDER))
                           ELSE TotalPastDue(Db, d, Join(Db, active, d, {status}))
    BY DEF PastDueReconciles
  <2>. DEFINE w == Latest(Db, TheLoan, d).pastDue
              summary == PortfolioSummary(Db, d, active)
              shown == [f \in DOMAIN summary |-> summary[f].pastDue]
              P(F) == PctOf(HeldBy(d, F))
  <2>0. PTypeInv /\ RowsInv /\ w \in Int /\ active \subseteq Funds
    BY LatestRecord DEF ReportInv, Db
  <2>1. DOMAIN summary = active /\ \A f \in active : summary[f] = SummaryRow(Db, d, f)
    BY DEF PortfolioSummary
  <2>2. \A f \in active : shown[f] = TotalPastDue(Db, d, Join(Db, {f}, d, AllStatuses))
    BY <2>1, SummaryColumns
  <2>3. DOMAIN shown = active /\ GrandPastDue(summary) = SumFunction(shown)
    BY <2>1 DEF GrandPastDue
  <2>. HIDE DEF shown, summary, w
  <2>4. CASE status = "none"
    <3>1. \A F, S : Join(Db, F, d, S) = {}
      BY <2>4, JoinOfFunds
    <3>2. TotalPastDue(Db, d, {}) = 0
      BY SumOfNone DEF TotalPastDue
    <3>3. SumFunction(shown) = 0
      <4>1. \A f \in active : shown[f] = 0
        BY <2>2, <3>1, <3>2
      <4>2. Summable(shown)
        BY <2>0, <2>3, <4>1, AllocationAssumption, FS_Subset DEF Summable
      <4>. QED
        BY <2>3, <4>1, <4>2, SumOfZeros
    <3>. QED
      BY <2>3, <2>4, <3>1, <3>2, <3>3 DEF AgingStatuses, summary
  <2>5. CASE status # "none"
    <3>1. status \in AllStatuses
      BY <2>0, <2>5 DEF PTypeInv, KnownStatuses, AllStatuses
    <3>2. ASSUME NEW f \in active PROVE shown[f] = w * P({f})
      BY <2>0, <2>2, <2>5, <3>1, JoinOfFunds, PastDueOfJoin DEF w
    <3>3. SumFunction(shown) = w * P(active)
      <4>. HIDE DEF active
      <4>. QED
        BY <2>0, <2>3, <3>2, FundsTogether
    <3>4. \A S : status \in S => Join(Db, active, d, S) = JoinRows(d, active)
      BY <2>5, JoinOfFunds
    <3>5. TotalPastDue(Db, d, JoinRows(d, active)) = w * P(active)
      BY <2>0, PastDueOfJoin DEF w
    <3>6. TotalPastDue(Db, d, Join(Db, active, d, {status})) = w * P(active)
      BY <3>4, <3>5
    <3>7. CASE status \in AgingStatuses
      BY <2>0, <2>3, <3>3, <3>5, <3>7, AgedInOneBucket DEF summary
    <3>. QED
      BY <2>3, <3>3, <3>6, <3>7 DEF summary
  <2>. QED
    BY <2>4, <2>5
<1>. QED
  BY <1>1, ReportInvHolds, PTL

-----------------------------------------------------------------------------
(***************************************************************************)
(* The cash position: periods.                                             *)
(***************************************************************************)
LEMMA CashPeriod ==
  ASSUME NEW from \in Date, NEW end \in Date, ~Earlier(end, from),
         NEW frequency \in {"monthly", "quarterly", "custom"},
         NEW last, last = PeriodEnd(from, frequency, end),
         NEW next, next = NextPeriod(from, frequency)
  PROVE  /\ last \in Date /\ next \in Date
         /\ DayNumber(from) <= DayNumber(last) /\ DayNumber(last) <= DayNumber(end)
         /\ frequency = "custom" => last = end
         /\ frequency # "custom" => /\ Earlier(end, next) => last = end
                                    /\ ~Earlier(end, next) => DayNumber(next) = DayNumber(last) + 1
<1>. DEFINE y == from[1]
            m == LastMonth(from, frequency)
            close == <<y, m, MonthLength(y, m)>>
<1>1. y \in Int /\ from[2] \in 1 .. 12 /\ DayNumber(from) \in Int /\ DayNumber(end) \in Int
  BY DayNumberOf
<1>2. m \in 1 .. 12 /\ from[2] <= m
  <2>1. m = IF frequency = "quarterly" THEN ((from[2] + 2) \div 3) * 3 ELSE from[2]
    BY DEF LastMonth
  <2>. HIDE DEF m
  <2>. QED
    BY <1>1, <2>1
<1>3. next = IF m = 12 THEN <<y + 1, 1, 1>> ELSE <<y, m + 1, 1>>
  BY DEF NextPeriod
<1>4. last = IF frequency = "custom" THEN end ELSE EarlierOf(close, end)
  BY DEF PeriodEnd
<1>. HIDE DEF y, m
<1>5. close \in Date /\ next \in Date /\ DayNumber(next) = DayNumber(close) + 1
  BY <1>1, <1>2, <1>3, DayAfter
<1>6. DayNumber(from) <= DayNumber(close) /\ DayNumber(close) \in Int
  <2>1. DayNumber(close) \in Int
    BY <1>5, DayNumberOf
  <2>2. CASE from[2] < m
    <3>1. InLaterMonth(from, close)
      BY <2>2 DEF InLaterMonth, y
    <3>. QED
      BY <1>1, <1>5, <2>1, <3>1, LaterMonth
  <2>3. CASE from[2] = m
    <3>1. /\ DayNumber(from) = YearStart(y) + DaysBefore(y, m) + from[3]
          /\ from[3] <= MonthLength(y, m) /\ from[3] \in 1 .. 31
          /\ YearStart(y) \in Int /\ DaysBefore(y, m) \in Int
      BY <2>3, DayNumberOf DEF y
    <3>2. DayNumber(close) = YearStart(y) + DaysBefore(y, m) + MonthLength(y, m)
      BY <1>5, DayNumberOf
    <3>3. MonthLength(y, m) \in Int
      BY <1>1, <1>2, MonthLengths
    <3>. QED
      BY <3>1, <3>2, <3>3
  <2>. QED
    BY <1>1, <1>2, <2>1, <2>2, <2>3
<1>. HIDE DEF close
<1>7. DayNumber(from) <= DayNumber(end)
  BY <1>1 DEF Earlier
<1>8. CASE frequency = "custom"
  BY <1>1, <1>4, <1>5, <1>7, <1>8
<1>9. CASE frequency # "custom" /\ Earlier(end, close)
  <2>1. last = end /\ DayNumber(end) < DayNumber(close)
    BY <1>4, <1>9 DEF EarlierOf, Earlier
  <2>2. Earlier(end, next)
    BY <1>1, <1>5, <1>6, <2>1 DEF Earlier
  <2>. QED
    BY <1>1, <1>5, <1>7, <1>9, <2>1, <2>2
<1>10. CASE frequency # "custom" /\ ~Earlier(end, close)
  <2>1. last = close /\ DayNumber(close) <= DayNumber(end)
    BY <1>1, <1>4, <1>6, <1>10 DEF EarlierOf, Earlier
  <2>2. Earlier(end, next) => close = end
    BY <1>1, <1>5, <1>6, <2>1, DatesAreNumbered DEF Earlier
  <2>. QED
    BY <1>5, <1>6, <1>10, <2>1, <2>2
<1>. QED
  BY <1>8, <1>9, <1>10

Start(p, i) == DayNumber(p[i][1])
End(p, i) == DayNumber(p[i][2])
Tiles(p) ==
  /\ \A i \in 1 .. Len(p) : Start(p, i) <= End(p, i)
  /\ \A i \in 2 .. Len(p) : Start(p, i) = End(p, i - 1) + 1
  /\ \A i, j \in 1 .. Len(p) : i < j => End(p, i) < Start(p, j)
CallMade == \E c \in Calls : snapshot = c.db /\ asked = c.asked
CashInv ==
  /\ CallMade /\ current \in Date /\ cashPeriods \in Seq(Date \X Date)
  /\ cashPeriods = <<>> => current = asked.start
  /\ cashPeriods # <<>> =>
       /\ cashPeriods[1][1] = asked.start
       /\ PeriodsBuilt => cashPeriods[Len(cashPeriods)][2] = asked.end
       /\ ~PeriodsBuilt => DayNumber(current) = End(cashPeriods, Len(cashPeriods)) + 1
  /\ Tiles(cashPeriods)

\* A period can be put after those of p.
Fits(p, new) ==
  /\ p \in Seq(Date \X Date) /\ Tiles(p) /\ new \in Date \X Date
  /\ DayNumber(new[1]) <= DayNumber(new[2])
  /\ p # <<>> => DayNumber(new[1]) = End(p, Len(p)) + 1

LEMMA NextTile ==
  ASSUME NEW p, NEW new, Fits(p, new), NEW q, q = Append(p, new)
  PROVE  /\ Tiles(q) /\ q \in Seq(Date \X Date) /\ q # <<>> /\ q[Len(q)] = new
         /\ p = <<>> => q[1] = new
         /\ p # <<>> => q[1] = p[1]
<1>. DEFINE from == new[1]
            to == new[2]
<1>0. /\ p \in Seq(Date \X Date) /\ Tiles(p) /\ from \in Date /\ to \in Date
      /\ DayNumber(from) <= DayNumber(to)
      /\ p # <<>> => DayNumber(from) = End(p, Len(p)) + 1
  BY DEF Fits
<1>. DEFINE n == Len(p)
<1>1. n \in Nat /\ new \in Date \X Date /\ new[1] = from /\ new[2] = to
  BY <1>0 DEF Fits
<1>2. n = 0 <=> p = <<>>
  BY <1>0
<1>. HIDE DEF from, to
<1>3. /\ q \in Seq(Date \X Date) /\ Len(q) = n + 1 /\ q[n + 1] = new
      /\ \A i \in 1 .. n : q[i] = p[i]
  BY <1>0, <1>1
<1>4. \A i \in 1 .. n : Start(q, i) = Start(p, i) /\ End(q, i) = End(p, i)
  BY <1>3 DEF Start, End
<1>5. Start(q, n + 1) = DayNumber(from) /\ End(q, n + 1) = DayNumber(to)
  BY <1>1, <1>3 DEF Start, End
<1>6. DayNumber(from) \in Int /\ DayNumber(to) \in Int
  BY <1>0, DayNumberOf
<1>7. \A i \in 1 .. n : Start(p, i) \in Int /\ End(p, i) \in Int
  <2>1. \A i \in 1 .. n : p[i][1] \in Date /\ p[i][2] \in Date
    BY <1>0
  <2>. QED
    BY <2>1, DayNumberOf DEF Start, End
<1>8. n > 0 => DayNumber(from) = End(p, n) + 1
  BY <1>0, <1>1, <1>2
<1>9. /\ \A i \in 1 .. n : Start(p, i) <= End(p, i)
      /\ \A i \in 2 .. n : Start(p, i) = End(p, i - 1) + 1
      /\ \A i, j \in 1 .. n : i < j => End(p, i) < Start(p, j)
  BY <1>0 DEF Tiles
<1>10. (p = <<>> => q[1] = new) /\ (p # <<>> => q[1] = p[1])
  BY <1>1, <1>2, <1>3
<1>. HIDE DEF n
<1>11. \A i \in 1 .. n : End(p, i) < DayNumber(from)
  <2>. SUFFICES ASSUME NEW i \in 1 .. n PROVE End(p, i) < DayNumber(from)
    OBVIOUS
  <2>1. CASE i = n
    BY <1>1, <1>7, <1>8, <2>1
  <2>2. CASE i < n
    <3>1. End(p, i) < Start(p, n) /\ Start(p, n) <= End(p, n) /\ n \in 1 .. n
      BY <1>1, <1>9, <2>2
    <3>. QED
      BY <1>1, <1>6, <1>7, <1>8, <3>1
  <2>. QED
    BY <1>1, <2>1, <2>2
<1>12. \A i \in 1 .. n + 1 : Start(q, i) <= End(q, i)
  BY <1>0, <1>1, <1>4, <1>5, <1>9
<1>13. ASSUME NEW i \in 2 .. n + 1 PROVE Start(q, i) = End(q, i - 1) + 1
  <2>1. CASE i = n + 1
    <3>1. n > 0 /\ i - 1 = n /\ n \in 1 .. n
      BY <1>1, <2>1
    <3>. QED
      BY <1>4, <1>5, <1>8, <2>1, <3>1
  <2>2. CASE i # n + 1
    <3>1. i \in 2 .. n /\ i \in 1 .. n /\ i - 1 \in 1 .. n
      BY <1>1, <2>2
    <3>. QED
      BY <1>4, <1>9, <3>1
  <2>. QED
    BY <2>1, <2>2
<1>14. ASSUME NEW i \in 1 .. n + 1, NEW j \in 1 .. n + 1, i < j PROVE End(q, i) < Start(q, j)
  <2>1. i \in 1 .. n /\ (j \in 1 .. n \/ j = n + 1)
    BY <1>1, <1>14
  <2>. QED
    BY <1>4, <1>5, <1>9, <1>11, <1>14, <2>1
<1>15. Tiles(q)
  BY <1>3, <1>12, <1>13, <1>14 DEF Tiles
<1>. QED
  BY <1>3, <1>10, <1>15 DEF n

LEMMA WhatIsAsked ==
  ASSUME CallMade
  PROVE  /\ asked \in Asked /\ ~Earlier(asked.end, asked.start) /\ Tables(snapshot)
         /\ WholeLoans(snapshot, asked.day, asked.funds)
         /\ asked.start \in Date /\ asked.end \in Date
         /\ asked.frequency \in {"monthly", "quarterly", "custom"}
         /\ asked.day \in Nat /\ IsFiniteSet(asked.funds)
<1>1. /\ asked \in Asked /\ ~Earlier(asked.end, asked.start) /\ Tables(snapshot)
      /\ WholeLoans(snapshot, asked.day, asked.funds)
  BY ReportAssumption DEF CallMade
<1>. QED
  BY <1>1 DEF Asked

LEMMA CashBegins == ReportInit => CashInv
<1>. SUFFICES ASSUME ReportInit PROVE CashInv
  OBVIOUS
<1>1. CallMade /\ cashPeriods = <<>> /\ current = asked.start
  BY DEF ReportInit, CallMade
<1>2. asked.start \in Date
  BY <1>1, WhatIsAsked
<1>3. Tiles(<<>>) /\ <<>> \in Seq(Date \X Date)
  BY DEF Tiles
<1>. QED
  BY <1>1, <1>2, <1>3 DEF CashInv

\* A round of the loop.
LEMMA CashRound ==
  ASSUME CashInv, ~PeriodsBuilt,
         NEW last, last = PeriodEnd(current, asked.frequency, asked.end),
         NEW next, next = NextPeriod(current, asked.frequency),
         NEW q, q = Append(cashPeriods, <<current, last>>)
  PROVE  /\ next \in Date /\ Tiles(q) /\ q \in Seq(Date \X Date) /\ q # <<>>
         /\ q[1][1] = asked.start /\ q[Len(q)][2] = last
         /\ asked.frequency = "custom" => last = asked.end
         /\ asked.frequency # "custom" =>
              /\ Earlier(asked.end, next) => last = asked.end
              /\ ~Earlier(asked.end, next) => DayNumber(next) = DayNumber(last) + 1
<1>. DEFINE period == <<current, last>>
<1>1. /\ cashPeriods \in Seq(Date \X Date) /\ Tiles(cashPeriods) /\ current \in Date
      /\ asked.start \in Date /\ asked.end \in Date /\ ~Earlier(asked.end, asked.start)
      /\ asked.frequency \in {"monthly", "quarterly", "custom"}
      /\ cashPeriods = <<>> => current = asked.start
      /\ cashPeriods # <<>> => /\ cashPeriods[1][1] = asked.start
                               /\ DayNumber(current) = End(cashPeriods, Len(cashPeriods)) + 1
  BY WhatIsAsked DEF CashInv
<1>2. ~Earlier(asked.end, current)
  BY <1>1 DEF PeriodsBuilt
<1>3. /\ last \in Date /\ next \in Date /\ DayNumber(current) <= DayNumber(last)
      /\ asked.frequency = "custom" => last = asked.end
      /\ asked.frequency # "custom" =>
           /\ Earlier(asked.end, next) => last = asked.end
           /\ ~Earlier(asked.end, next) => DayNumber(next) = DayNumber(last) + 1
  BY <1>1, <1>2, CashPeriod
<1>4. Fits(cashPeriods, period) /\ period[1] = current /\ period[2] = last
  BY <1>1, <1>3 DEF Fits
<1>5. q = Append(cashPeriods, period)
  OBVIOUS
<1>. HIDE DEF period
<1>6. /\ Tiles(q) /\ q \in Seq(Date \X Date) /\ q # <<>> /\ q[Len(q)] = period
      /\ cashPeriods = <<>> => q[1] = period
      /\ cashPeriods # <<>> => q[1] = cashPeriods[1]
  BY ONLY <1>4, <1>5, NextTile
<1>. QED
  BY <1>1, <1>3, <1>4, <1>6

LEMMA CashGoesOn == CashInv /\ [AddCashPeriod]_reportVars => CashInv'
<1>1. CASE UNCHANGED reportVars
  BY <1>1 DEF reportVars, CashInv, CallMade, PeriodsBuilt
<1>2. ASSUME CashInv, AddCashPeriod PROVE CashInv'
  <2>. DEFINE last == PeriodEnd(current, asked.frequency, asked.end)
              next == NextPeriod(current, asked.frequency)
              q == Append(cashPeriods, <<current, last>>)
  <2>1. /\ ~PeriodsBuilt /\ cashPeriods' = q /\ current' = next
        /\ snapshot' = snapshot /\ asked' = asked
    BY <1>2 DEF AddCashPeriod
  <2>2. /\ next \in Date /\ Tiles(q) /\ q \in Seq(Date \X Date) /\ q # <<>>
        /\ q[1][1] = asked.start /\ q[Len(q)][2] = last
        /\ asked.frequency = "custom" => last = asked.end
        /\ asked.frequency # "custom" =>
             /\ Earlier(asked.end, next) => last = asked.end
             /\ ~Earlier(asked.end, next) => DayNumber(next) = DayNumber(last) + 1
    <3>1. /\ last = PeriodEnd(current, asked.frequency, asked.end)
          /\ next = NextPeriod(current, asked.frequency)
          /\ q = Append(cashPeriods, <<current, last>>)
      OBVIOUS
    <3>. HIDE DEF last, next, q
    <3>. QED
      BY <1>2, <2>1, <3>1, CashRound, Zenon
  <2>. HIDE DEF last, next, q
  <2>3. /\ PeriodsBuilt' => last = asked.end
        /\ ~PeriodsBuilt' => DayNumber(next) = End(q, Len(q)) + 1
    BY <2>1, <2>2 DEF PeriodsBuilt, End
  <2>4. CallMade'
    BY <1>2, <2>1 DEF CallMade, CashInv
  <2>. QED
    BY <2>1, <2>2, <2>3, <2>4, Zenon DEF CashInv
<1>. QED
  BY <1>1, <1>2

(* The periods of a window hold each of its days once.                      *)
LEMMA DaysInPeriods ==
  ASSUME CashInv, PeriodsBuilt, NEW n, n = Len(cashPeriods),
         NEW first, first = DayNumber(asked.start), NEW final, final = DayNumber(asked.end)
  PROVE  /\ n \in Nat /\ n > 0 /\ Start(cashPeriods, 1) = first /\ End(cashPeriods, n) = final
         /\ \A i \in 1 .. n : /\ Start(cashPeriods, i) \in Int /\ End(cashPeriods, i) \in Int
                              /\ first <= Start(cashPeriods, i) /\ End(cashPeriods, i) <= final
         /\ \A d \in first .. final : \E i \in 1 .. n :
              d \in Start(cashPeriods, i) .. End(cashPeriods, i)
         /\ \A d \in Int, i, j \in 1 .. n :
              (d \in Start(cashPeriods, i) .. End(cashPeriods, i)
                /\ d \in Start(cashPeriods, j) .. End(cashPeriods, j)) => i = j
<1>. DEFINE S(i) == Start(cashPeriods, i)
            E(i) == End(cashPeriods, i)
<1>1. /\ cashPeriods \in Seq(Date \X Date) /\ Tiles(cashPeriods)
      /\ cashPeriods = <<>> => current = asked.start
      /\ cashPeriods # <<>> => /\ cashPeriods[1][1] = asked.start
                               /\ cashPeriods[Len(cashPeriods)][2] = asked.end
      /\ ~Earlier(asked.end, asked.start)
  BY WhatIsAsked DEF CashInv
<1>2. cashPeriods # <<>>
  BY <1>1 DEF PeriodsBuilt
<1>3. n \in Nat /\ n > 0
  BY <1>1, <1>2
<1>4. S(1) = first /\ E(n) = final
  BY <1>1, <1>2 DEF Start, End
<1>5. \A i \in 1 .. n : S(i) \in Int /\ E(i) \in Int
  <2>1. \A i \in 1 .. n : cashPeriods[i][1] \in Date /\ cashPeriods[i][2] \in Date
    BY <1>1
  <2>. QED
    BY <2>1, DayNumberOf DEF Start, End
<1>6. /\ \A i \in 1 .. n : S(i) <= E(i)
      /\ \A i \in 2 .. n : S(i) = E(i - 1) + 1
      /\ \A i, j \in 1 .. n : i < j => E(i) < S(j)
  BY <1>1 DEF Tiles
<1>. HIDE DEF S, E
<1>7. 1 \in 1 .. n /\ n \in 1 .. n
  BY <1>3
<1>8. ASSUME NEW i \in 1 .. n PROVE first <= S(i) /\ E(i) <= final
  <2>1. S(1) <= S(i)
    <3>1. CASE i = 1
      BY <1>5, <3>1
    <3>2. CASE 1 < i
      <4>1. S(1) <= E(1) /\ E(1) < S(i)
        BY <1>6, <1>7, <3>2
      <4>. QED
        BY <1>5, <1>7, <4>1
    <3>. QED
      BY <3>1, <3>2
  <2>2. E(i) <= E(n)
    <3>1. CASE i = n
      BY <1>5, <3>1
    <3>2. CASE i < n
      <4>1. E(i) < S(n) /\ S(n) <= E(n)
        BY <1>6, <1>7, <3>2
      <4>. QED
        BY <1>5, <1>7, <4>1
    <3>. QED
      BY <1>3, <3>1, <3>2
  <2>. QED
    BY <1>4, <2>1, <2>2
<1>9. ASSUME NEW d \in first .. final PROVE \E i \in 1 .. n : d \in S(i) .. E(i)
  <2>. DEFINE T == {i \in 1 .. n : d <= E(i)}
  <2>0. first \in Int /\ final \in Int /\ d \in Int
    BY <1>4, <1>5, <1>7
  <2>1. n \in T /\ T \in SUBSET Nat /\ T # {}
    BY <1>4, <1>7
  <2>2. PICK i \in T : \A k \in T : i <= k
    <3>. HIDE DEF T
    <3>. QED
      BY <2>1, LeastExists
  <2>3. i \in 1 .. n /\ d <= E(i)
    BY <2>2
  <2>4. S(i) <= d
    <3>1. CASE i = 1
      BY <1>4, <3>1
    <3>2. CASE i > 1
      <4>1. i - 1 \in 1 .. n /\ i \in 2 .. n
        BY <1>3, <2>3, <3>2
      <4>2. ~(d <= E(i - 1))
        BY <2>2, <4>1
      <4>. QED
        BY <1>5, <1>6, <2>0, <4>1, <4>2
    <3>. QED
      BY <2>3, <3>1, <3>2
  <2>. QED
    BY <1>5, <2>0, <2>3, <2>4
<1>10. ASSUME NEW d \in Int, NEW i \in 1 .. n, NEW j \in 1 .. n, d \in S(i) .. E(i), d \in S(j) .. E(j)
       PROVE  i = j
  <2>1. CASE i < j
    BY <1>5, <1>6, <1>10, <2>1
  <2>2. CASE j < i
    BY <1>5, <1>6, <1>10, <2>2
  <2>. QED
    BY <2>1, <2>2
<1>. QED
  BY <1>3, <1>4, <1>5, <1>8, <1>9, <1>10 DEF S, E

LEMMA FinitePairs ==
  ASSUME NEW A, IsFiniteSet(A), NEW B, IsFiniteSet(B)
  PROVE  IsFiniteSet([entry : A, share : B]) /\ IsFiniteSet([loan : A, share : B])
<1>. DEFINE e == [p \in A \X B |-> [entry |-> p[1], share |-> p[2]]]
            l == [p \in A \X B |-> [loan |-> p[1], share |-> p[2]]]
<1>1. IsFiniteSet(A \X B)
  BY FS_Product
<1>2. e \in Surjection(A \X B, [entry : A, share : B])
  <2>1. e \in [A \X B -> [entry : A, share : B]]
    OBVIOUS
  <2>2. ASSUME NEW x \in [entry : A, share : B] PROVE \E p \in A \X B : e[p] = x
    <3>1. <<x.entry, x.share>> \in A \X B /\ e[<<x.entry, x.share>>] = x
      OBVIOUS
    <3>. QED
      BY <3>1
  <2>. HIDE DEF e
  <2>. QED
    BY <2>1, <2>2 DEF Surjection
<1>3. l \in Surjection(A \X B, [loan : A, share : B])
  <2>1. l \in [A \X B -> [loan : A, share : B]]
    OBVIOUS
  <2>2. ASSUME NEW x \in [loan : A, share : B] PROVE \E p \in A \X B : l[p] = x
    <3>1. <<x.loan, x.share>> \in A \X B /\ l[<<x.loan, x.share>>] = x
      OBVIOUS
    <3>. QED
      BY <3>1
  <2>. HIDE DEF l
  <2>. QED
    BY <2>1, <2>2 DEF Surjection
<1>. HIDE DEF e, l
<1>. QED
  BY <1>1, <1>2, <1>3, FS_Surjection

(* What entries of some days come to, by the open shares of the funds.      *)
CashRows(E) ==
  {x \in [entry : E, share : snapshot.allocations] :
     x.share.loan = x.entry.loan /\ x.share.fund \in asked.funds /\ x.share.to = NoEnd}
CashTerms(E) == [x \in CashRows(E) |-> x.entry.amount * x.share.pct]
Inside(D, day, a, b) == {e \in D : day[e] \in a .. b}

LEMMA CashIsSum == ASSUME NEW E PROVE Cash(snapshot, asked.funds, E) = SumFunction(CashTerms(E))
BY DEF Cash, CashTerms, CashRows

LEMMA CashOfWindow ==
  ASSUME CashInv, PeriodsBuilt, NEW n, n = Len(cashPeriods),
         NEW D, IsFiniteSet(D), NEW day, \A e \in D : day[e] \in Int /\ e.amount \in Int,
         NEW g, DOMAIN g = 1 .. n,
         \A i \in 1 .. n : g[i] = Cash(snapshot, asked.funds,
                                       Inside(D, day, Start(cashPeriods, i), End(cashPeriods, i)))
  PROVE  SumFunction(g) = Cash(snapshot, asked.funds,
                               Inside(D, day, DayNumber(asked.start), DayNumber(asked.end)))
<1>. DEFINE first == DayNumber(asked.start)
            final == DayNumber(asked.end)
            S(i) == Start(cashPeriods, i)
            E(i) == End(cashPeriods, i)
            of(i) == Inside(D, day, S(i), E(i))
            all == Inside(D, day, first, final)
            f == CashTerms(all)
            key == [x \in CashRows(all) |-> CHOOSE i \in 1 .. n : day[x.entry] \in S(i) .. E(i)]
            part == [i \in 1 .. n |-> CashTerms(of(i))]
<1>1. /\ n \in Nat
      /\ \A i \in 1 .. n : S(i) \in Int /\ E(i) \in Int /\ first <= S(i) /\ E(i) <= final
      /\ \A d \in first .. final : \E i \in 1 .. n : d \in S(i) .. E(i)
      /\ \A d \in Int, i, j \in 1 .. n : (d \in S(i) .. E(i) /\ d \in S(j) .. E(j)) => i = j
  BY DaysInPeriods
<1>2. first \in Int /\ final \in Int
  <2>1. asked.start \in Date /\ asked.end \in Date
    BY WhatIsAsked DEF CashInv
  <2>. QED
    BY <2>1, DayNumberOf
<1>3. IsFiniteSet(snapshot.allocations) /\ \A a \in snapshot.allocations : a.pct \in Int
  <2>1. Tables(snapshot)
    BY WhatIsAsked DEF CashInv
  <2>. QED
    BY <2>1 DEF Tables
<1>. HIDE DEF first, final, S, E
<1>4. all \in SUBSET D /\ \A e \in all : day[e] \in first .. final /\ day[e] \in Int /\ e.amount \in Int
  BY DEF Inside
<1>5. ASSUME NEW i \in 1 .. n
      PROVE  /\ of(i) \in SUBSET all
             /\ \A e \in all : e \in of(i) <=> day[e] \in S(i) .. E(i)
  <2>1. \A d \in Int : d \in S(i) .. E(i) => d \in first .. final
    BY <1>1, <1>2
  <2>2. \A e : e \in of(i) <=> e \in D /\ day[e] \in S(i) .. E(i)
    BY DEF Inside
  <2>3. \A e : e \in all <=> e \in D /\ day[e] \in first .. final
    BY DEF Inside
  <2>. HIDE DEF of, all
  <2>. QED
    BY <2>1, <2>2, <2>3
<1>6. /\ CashRows(all) = {x \in [entry : all, share : snapshot.allocations] :
            x.share.loan = x.entry.loan /\ x.share.fund \in asked.funds /\ x.share.to = NoEnd}
      /\ DOMAIN f = CashRows(all) /\ \A x \in CashRows(all) : f[x] = x.entry.amount * x.share.pct
  BY DEF CashRows, CashTerms
<1>7. ASSUME NEW i \in 1 .. n
      PROVE  /\ CashRows(of(i)) \subseteq CashRows(all)
             /\ \A x \in CashRows(all) : x \in CashRows(of(i)) <=> x.entry \in of(i)
             /\ DOMAIN part[i] = CashRows(of(i)) /\ SumFunction(part[i]) = g[i]
             /\ \A x \in CashRows(of(i)) : part[i][x] = x.entry.amount * x.share.pct
  <2>1. /\ CashRows(of(i)) \subseteq CashRows(all)
        /\ \A x \in CashRows(all) : x \in CashRows(of(i)) <=> x.entry \in of(i)
    <3>1. of(i) \subseteq all
      BY <1>5
    <3>. HIDE DEF of, all
    <3>. QED
      BY <3>1 DEF CashRows
  <2>2. part[i] = CashTerms(of(i))
    OBVIOUS
  <2>3. g[i] = SumFunction(CashTerms(of(i)))
    BY CashIsSum DEF S, E
  <2>. HIDE DEF part, of
  <2>. QED
    BY <2>1, <2>2, <2>3 DEF CashTerms
<1>8. IsFiniteSet(CashRows(all))
  <2>1. IsFiniteSet(all)
    BY <1>4, FS_Subset
  <2>. HIDE DEF all
  <2>2. IsFiniteSet([entry : all, share : snapshot.allocations])
    BY <1>3, <2>1, FinitePairs
  <2>. QED
    BY <1>6, <2>2, FS_Subset
<1>9. \A x \in CashRows(all) : /\ x.entry \in all /\ x.share \in snapshot.allocations
                               /\ x.entry.amount * x.share.pct \in Int
  <2>1. \A x \in CashRows(all) : x.entry \in all /\ x.share \in snapshot.allocations
    BY <1>6
  <2>. HIDE DEF all, f
  <2>. QED
    BY <1>3, <1>4, <2>1
<1>10. Summable(f)
  <2>. HIDE DEF f
  <2>. QED
    BY <1>6, <1>8, <1>9 DEF Summable
<1>11. ASSUME NEW x \in CashRows(all)
       PROVE  /\ key[x] \in 1 .. n
              /\ \A i \in 1 .. n : key[x] = i <=> day[x.entry] \in S(i) .. E(i)
  <2>1. key[x] = CHOOSE i \in 1 .. n : day[x.entry] \in S(i) .. E(i)
    OBVIOUS
  <2>2. day[x.entry] \in first .. final /\ day[x.entry] \in Int
    BY <1>4, <1>9
  <2>. HIDE DEF key, all
  <2>3. key[x] \in 1 .. n /\ day[x.entry] \in S(key[x]) .. E(key[x])
    BY <1>1, <2>1, <2>2
  <2>. QED
    BY <1>1, <2>2, <2>3
<1>. HIDE DEF all, of, f, key, part
<1>12. PartsByKey(f, 1 .. n, key, part, g)
  <2>1. \A i \in 1 .. n : \A x \in DOMAIN f : x \in DOMAIN part[i] <=> key[x] = i
    BY <1>5, <1>6, <1>7, <1>9, <1>11
  <2>2. \A i \in 1 .. n : /\ DOMAIN part[i] \subseteq DOMAIN f /\ g[i] = SumFunction(part[i])
                          /\ \A x \in DOMAIN part[i] : part[i][x] = f[x]
    BY <1>6, <1>7
  <2>3. IsFiniteSet(1 .. n)
    BY <1>1, FS_Interval
  <2>4. \A x \in DOMAIN f : key[x] \in 1 .. n
    BY <1>6, <1>11
  <2>. QED
    BY <1>10, <2>1, <2>2, <2>3, <2>4 DEF PartsByKey
<1>13. SumFunction(g) = SumFunction(f)
  BY <1>12, SumByKey
<1>. QED
  BY <1>13, CashIsSum DEF f, all, first, final

(* The entries of the report: rows of the schedule by their due date, and   *)
(* payments by their day.                                                   *)
DueRows == {s \in snapshot.schedule : s.current}
DueOn == [s \in DueRows |-> s.due]
PaidRows == {p \in snapshot.payments : p.status \in {"posted", "returned"}}
PaidOn == [p \in PaidRows |-> p.day]

LEMMA EntriesInside ==
  ASSUME NEW from, NEW to
  PROVE  /\ Scheduled(snapshot, asked.funds, from, to)
              = Cash(snapshot, asked.funds, Inside(DueRows, DueOn, DayNumber(from), DayNumber(to)))
         /\ Collected(snapshot, asked.funds, from, to)
              = Cash(snapshot, asked.funds, Inside(PaidRows, PaidOn, DayNumber(from), DayNumber(to)))
<1>1. {s \in snapshot.schedule : s.current /\ Within(s.due, from, to)}
        = Inside(DueRows, DueOn, DayNumber(from), DayNumber(to))
  BY DEF Inside, DueRows, DueOn, Within
<1>2. {p \in snapshot.payments : p.status \in {"posted", "returned"} /\ Within(p.day, from, to)}
        = Inside(PaidRows, PaidOn, DayNumber(from), DayNumber(to))
  BY DEF Inside, PaidRows, PaidOn, Within
<1>. QED
  BY <1>1, <1>2, Zenon DEF Scheduled, Collected

LEMMA EntriesAreFinite ==
  ASSUME CallMade
  PROVE  /\ IsFiniteSet(DueRows) /\ \A s \in DueRows : DueOn[s] \in Int /\ s.amount \in Int
         /\ IsFiniteSet(PaidRows) /\ \A p \in PaidRows : PaidOn[p] \in Int /\ p.amount \in Int
<1>1. /\ IsFiniteSet(snapshot.schedule) /\ IsFiniteSet(snapshot.payments)
      /\ \A s \in snapshot.schedule : s.due \in Int /\ s.amount \in Int
      /\ \A p \in snapshot.payments : p.day \in Int /\ p.amount \in Int
  <2>1. Tables(snapshot)
    BY WhatIsAsked
  <2>. QED
    BY <2>1 DEF Tables
<1>2. DueRows \subseteq snapshot.schedule /\ PaidRows \subseteq snapshot.payments
  BY DEF DueRows, PaidRows
<1>. QED
  BY <1>1, <1>2, FS_Subset DEF DueOn, PaidOn

LEMMA CashColumns ==
  ASSUME NEW report, report = CashPosition(snapshot, asked.funds, cashPeriods)
  PROVE  /\ report.scheduled = SumFunction([i \in DOMAIN cashPeriods |->
              Scheduled(snapshot, asked.funds, cashPeriods[i][1], cashPeriods[i][2])])
         /\ report.collected = SumFunction([i \in DOMAIN cashPeriods |->
              Collected(snapshot, asked.funds, cashPeriods[i][1], cashPeriods[i][2])])
<1>. DEFINE lines == [i \in DOMAIN cashPeriods |->
                        [from |-> cashPeriods[i][1], to |-> cashPeriods[i][2],
                         scheduled |-> Scheduled(snapshot, asked.funds, cashPeriods[i][1], cashPeriods[i][2]),
                         collected |-> Collected(snapshot, asked.funds, cashPeriods[i][1], cashPeriods[i][2])]]
            due == SumFunction([i \in DOMAIN lines |-> lines[i].scheduled])
            paid == SumFunction([i \in DOMAIN lines |-> lines[i].collected])
<1>1. report = [periods |-> lines, scheduled |-> due, collected |-> paid]
  BY DEF CashPosition
<1>2. /\ [i \in DOMAIN lines |-> lines[i].scheduled]
           = [i \in DOMAIN cashPeriods |->
                Scheduled(snapshot, asked.funds, cashPeriods[i][1], cashPeriods[i][2])]
      /\ [i \in DOMAIN lines |-> lines[i].collected]
           = [i \in DOMAIN cashPeriods |->
                Collected(snapshot, asked.funds, cashPeriods[i][1], cashPeriods[i][2])]
  OBVIOUS
<1>3. /\ due = SumFunction([i \in DOMAIN cashPeriods |->
              Scheduled(snapshot, asked.funds, cashPeriods[i][1], cashPeriods[i][2])])
      /\ paid = SumFunction([i \in DOMAIN cashPeriods |->
              Collected(snapshot, asked.funds, cashPeriods[i][1], cashPeriods[i][2])])
  BY <1>2, Zenon
<1>. HIDE DEF lines, due, paid
<1>4. report.scheduled = due /\ report.collected = paid
  BY <1>1
<1>. QED
  BY <1>3, <1>4, Zenon

(* The totals of the periods are those of the window.                       *)
LEMMA CashAddsUp ==
  ASSUME CashInv, PeriodsBuilt, NEW report, report = CashPosition(snapshot, asked.funds, cashPeriods)
  PROVE  /\ report.scheduled = Scheduled(snapshot, asked.funds, asked.start, asked.end)
         /\ report.collected = Collected(snapshot, asked.funds, asked.start, asked.end)
<1>. DEFINE n == Len(cashPeriods)
            due == [i \in DOMAIN cashPeriods |->
                      Scheduled(snapshot, asked.funds, cashPeriods[i][1], cashPeriods[i][2])]
            paid == [i \in DOMAIN cashPeriods |->
                      Collected(snapshot, asked.funds, cashPeriods[i][1], cashPeriods[i][2])]
<1>1. DOMAIN cashPeriods = 1 .. n
  BY DEF CashInv
<1>2. report.scheduled = SumFunction(due) /\ report.collected = SumFunction(paid)
  BY CashColumns, Zenon
<1>3. /\ DOMAIN due = 1 .. n /\ DOMAIN paid = 1 .. n
      /\ \A i \in 1 .. n :
           /\ due[i] = Cash(snapshot, asked.funds,
                            Inside(DueRows, DueOn, Start(cashPeriods, i), End(cashPeriods, i)))
           /\ paid[i] = Cash(snapshot, asked.funds,
                             Inside(PaidRows, PaidOn, Start(cashPeriods, i), End(cashPeriods, i)))
  BY <1>1, EntriesInside DEF Start, End
<1>. HIDE DEF due, paid, n
<1>4. n = Len(cashPeriods) /\ CallMade
  BY DEF n, CashInv
<1>5. SumFunction(due) = Cash(snapshot, asked.funds,
                              Inside(DueRows, DueOn, DayNumber(asked.start), DayNumber(asked.end)))
  BY <1>3, <1>4, EntriesAreFinite, CashOfWindow
<1>6. SumFunction(paid) = Cash(snapshot, asked.funds,
                               Inside(PaidRows, PaidOn, DayNumber(asked.start), DayNumber(asked.end)))
  BY <1>3, <1>4, EntriesAreFinite, CashOfWindow
<1>. QED
  BY <1>2, <1>5, <1>6, EntriesInside

LEMMA ForwardIsScheduled ==
  ASSUME CallMade,
         NEW unpaid, unpaid = [snapshot EXCEPT !.schedule = {s \in @ : s.status \in {"open", "partial"}}]
  PROVE  ForwardExpected(snapshot, asked.funds, DayNumber(asked.start) - 1,
                         DaysBetween(asked.start, asked.end) + 1)
           = Scheduled(unpaid, asked.funds, asked.start, asked.end)
<1>. DEFINE first == DayNumber(asked.start)
            final == DayNumber(asked.end)
            ahead == {s \in snapshot.schedule : /\ s.current /\ s.status \in {"open", "partial"}
                                               /\ s.due > first - 1
                                               /\ s.due <= first - 1 + (final - first + 1)}
            within == {s \in unpaid.schedule : s.current /\ Within(s.due, asked.start, asked.end)}
<1>1. asked.start \in Date /\ asked.end \in Date /\ Tables(snapshot)
  BY WhatIsAsked
<1>2. first \in Int /\ final \in Int
  BY <1>1, DayNumberOf
<1>3. \A s \in snapshot.schedule : s.due \in Int
  BY <1>1 DEF Tables
<1>. HIDE DEF first, final
<1>4. unpaid.schedule = {s \in snapshot.schedule : s.status \in {"open", "partial"}}
      /\ unpaid.allocations = snapshot.allocations
  <2>1. DOMAIN snapshot = TableNames
    BY <1>1 DEF Tables
  <2>2. "schedule" \in DOMAIN snapshot /\ "allocations" \in DOMAIN snapshot
    BY <2>1 DEF TableNames
  <2>. QED
    BY <2>2
<1>5. ahead = within
  BY <1>2, <1>3, <1>4 DEF Within, first, final
<1>6. ForwardExpected(snapshot, asked.funds, DayNumber(asked.start) - 1,
                      DaysBetween(asked.start, asked.end) + 1) = Cash(snapshot, asked.funds, ahead)
  BY DEF ForwardExpected, DaysBetween, first, final
<1>7. Scheduled(unpaid, asked.funds, asked.start, asked.end) = Cash(unpaid, asked.funds, within)
  BY DEF Scheduled
<1>. HIDE DEF ahead, within
<1>8. Cash(unpaid, asked.funds, ahead) = Cash(snapshot, asked.funds, ahead)
  BY <1>4 DEF Cash
<1>. QED
  BY <1>5, <1>6, <1>7, <1>8

(* Whatever window is asked for, by month, by quarter or at once, in every    *)
(* round of the loop: the periods follow one another day by day, when it ends *)
(* they are the window, what they have scheduled and collected adds up to the *)
(* window's, and the forward look expects what is scheduled and not paid.     *)
THEOREM CashPeriodsHold == ReportSpec => []CashPeriodsTile
<1>1. CashInv => CashPeriodsTile
  <2>. SUFFICES ASSUME CashInv PROVE CashPeriodsTile
    OBVIOUS
  <2>. DEFINE ends == Len(cashPeriods)
              Day(i) == DayNumber(cashPeriods[i][1]) .. DayNumber(cashPeriods[i][2])
              report == CashPosition(snapshot, asked.funds, cashPeriods)
              unpaid == [snapshot EXCEPT !.schedule = {s \in @ : s.status \in {"open", "partial"}}]
  <2>1. CallMade /\ Tiles(cashPeriods) /\ cashPeriods \in Seq(Date \X Date)
    BY DEF CashInv
  <2>2. \A i \in 1 .. ends : Day(i) # {}
    <3>1. TAKE i \in 1 .. ends
    <3>2. cashPeriods[i] \in Date \X Date
      BY <2>1
    <3>3. DayNumber(cashPeriods[i][1]) \in Int /\ DayNumber(cashPeriods[i][2]) \in Int
      BY <3>2, DayNumberOf
    <3>4. DayNumber(cashPeriods[i][1]) <= DayNumber(cashPeriods[i][2])
      BY <2>1 DEF Tiles, Start, End
    <3>5. DayNumber(cashPeriods[i][1]) \in Day(i)
      BY <3>3, <3>4
    <3>. QED
      BY <3>5
  <2>3. \A i \in 2 .. ends :
          DayNumber(cashPeriods[i][1]) = DayNumber(cashPeriods[i - 1][2]) + 1
    BY <2>1 DEF Tiles, Start, End
  <2>4. ASSUME PeriodsBuilt
        PROVE  /\ ends > 0 /\ cashPeriods[1][1] = asked.start /\ cashPeriods[ends][2] = asked.end
               /\ report.scheduled = Scheduled(snapshot, asked.funds, asked.start, asked.end)
               /\ report.collected = Collected(snapshot, asked.funds, asked.start, asked.end)
    <3>1. ends > 0
      BY <2>4, DaysInPeriods
    <3>2. cashPeriods # <<>>
      BY <3>1
    <3>. QED
      BY <2>4, <3>1, <3>2, CashAddsUp DEF CashInv
  <2>5. ForwardExpected(snapshot, asked.funds, DayNumber(asked.start) - 1,
                        DaysBetween(asked.start, asked.end) + 1)
          = Scheduled(unpaid, asked.funds, asked.start, asked.end)
    BY <2>1, ForwardIsScheduled
  <2>. HIDE DEF report, unpaid
  <2>. QED
    BY <2>2, <2>3, <2>4, <2>5 DEF CashPeriodsTile, report, unpaid
<1>. QED
  BY <1>1, CashBegins, CashGoesOn, PTL DEF ReportSpec

-----------------------------------------------------------------------------
(***************************************************************************)
(* The other reports: what they total in parts is the total.               *)
(***************************************************************************)
(* The shares of a loan make it whole, and so those of some loans.          *)
LEMMA LoansByShares ==
  ASSUME CallMade, NEW L \in SUBSET snapshot.loans, NEW R, NEW of,
         \A l \in L : of[l] \in SUBSET snapshot.allocations /\ PctSum(of[l]) = Whole,
         R = {h \in [loan : L, share : snapshot.allocations] : h.share \in of[h.loan]}
  PROVE  TotalPrincipal(R) = PrincipalOfLoans(L) * Whole
<1>. DEFINE f == [h \in R |-> ProRata(h.loan.principal, h)]
            key == [h \in R |-> h.loan]
            g == [l \in L |-> SumFunction(Restrict(f, {h \in R : key[h] = l}))]
            v == [l \in L |-> l.principal]
<1>1. /\ IsFiniteSet(snapshot.loans) /\ IsFiniteSet(snapshot.allocations)
      /\ \A l \in L : l.principal \in Int
      /\ \A a \in snapshot.allocations : a.pct \in Int
  <2>1. Tables(snapshot)
    BY WhatIsAsked
  <2>. QED
    BY <2>1 DEF Tables
<1>2. IsFiniteSet(L) /\ IsFiniteSet(R)
  <2>1. IsFiniteSet(L)
    BY <1>1, FS_Subset
  <2>2. IsFiniteSet([loan : L, share : snapshot.allocations])
    BY <1>1, <2>1, FinitePairs
  <2>3. R \subseteq [loan : L, share : snapshot.allocations]
    OBVIOUS
  <2>. QED
    BY <2>1, <2>2, <2>3, FS_Subset
<1>3. /\ DOMAIN f = R /\ \A h \in R : f[h] = h.loan.principal * h.share.pct
      /\ \A h \in R : h.loan \in L /\ h.share \in of[h.loan] /\ h.share \in snapshot.allocations
      /\ DOMAIN key = R /\ \A h \in R : key[h] = h.loan
      /\ DOMAIN g = L /\ DOMAIN v = L /\ \A l \in L : v[l] = l.principal
  BY DEF ProRata
<1>4. \A l \in L : \A a \in of[l] : [loan |-> l, share |-> a] \in R
  OBVIOUS
<1>5. \A h \in R : h = [loan |-> h.loan, share |-> h.share]
  OBVIOUS
<1>6. TotalPrincipal(R) = SumFunction(f) /\ PrincipalOfLoans(L) = SumFunction(v)
  BY DEF TotalPrincipal, PrincipalOfLoans
<1>7. \A l \in L : g[l] = SumFunction(Restrict(f, {h \in R : key[h] = l}))
  OBVIOUS
<1>. HIDE DEF f, key, g, v
<1>8. Summable(f)
  <2>1. \A h \in R : h.loan.principal * h.share.pct \in Int
    BY <1>1, <1>3
  <2>. QED
    BY <1>2, <1>3, <2>1 DEF Summable
<1>9. Summable(v)
  BY <1>1, <1>2, <1>3 DEF Summable
<1>10. Whole \in Int
  BY WholeAssumption
<1>11. ASSUME NEW l \in L PROVE g[l] = Whole * v[l]
  <2>. DEFINE S == of[l]
              own == Restrict(f, {h \in R : key[h] = l})
              pct == [a \in S |-> a.pct]
              times == [a \in S |-> l.principal * a.pct]
              b == [a \in S |-> [loan |-> l, share |-> a]]
  <2>1. DOMAIN own = {h \in R : h.loan = l} /\ \A h \in DOMAIN own : own[h] = f[h]
    BY <1>3 DEF Restrict
  <2>2. /\ DOMAIN pct = S /\ DOMAIN times = S /\ DOMAIN b = S
        /\ \A a \in S : /\ pct[a] = a.pct /\ times[a] = l.principal * pct[a]
                        /\ b[a].loan = l /\ b[a].share = a /\ b[a] \in R
    BY <1>4
  <2>3. PctSum(S) = SumFunction(pct)
    BY DEF PctSum
  <2>4. PctSum(S) = Whole
    OBVIOUS
  <2>5. \A h \in DOMAIN own : h.share \in S /\ b[h.share] = h
    BY <1>3, <1>5, <2>1
  <2>6. S \in SUBSET snapshot.allocations
    OBVIOUS
  <2>. HIDE DEF S, own, pct, times, b
  <2>7. Summable(pct)
    <3>1. IsFiniteSet(S)
      BY <1>1, <2>6, FS_Subset
    <3>. QED
      BY <1>1, <2>2, <2>6, <3>1 DEF Summable
  <2>8. Summable(times) /\ SumFunction(times) = l.principal * Whole
    <3>. DEFINE c == l.principal
    <3>1. c \in Int /\ \A a \in S : times[a] = c * pct[a]
      BY <1>1, <2>2
    <3>. HIDE DEF c
    <3>2. Summable(times) /\ SumFunction(times) = c * SumFunction(pct)
      BY <2>2, <2>7, <3>1, SumTimes
    <3>. QED
      BY <2>3, <2>4, <3>2 DEF c
  <2>9. b \in [DOMAIN times -> DOMAIN own]
    <3>1. \A a \in S : b[a] \in DOMAIN own
      BY <2>1, <2>2
    <3>2. b = [a \in S |-> b[a]]
      BY DEF b
    <3>. QED
      BY <2>2, <3>1, <3>2
  <2>10. \A x, y \in DOMAIN times : b[x] = b[y] => x = y
    BY <2>2
  <2>11. \A h \in DOMAIN own : \E a \in DOMAIN times : b[a] = h
    BY <2>2, <2>5
  <2>12. \A a \in DOMAIN times : times[a] = own[b[a]]
    <3>. SUFFICES ASSUME NEW a \in S PROVE times[a] = own[b[a]]
      BY <2>2
    <3>1. b[a] \in DOMAIN own
      BY <2>1, <2>2
    <3>2. own[b[a]] = f[b[a]] /\ f[b[a]] = l.principal * a.pct
      BY <1>3, <2>1, <2>2, <3>1
    <3>. QED
      BY <2>2, <3>2
  <2>13. SumFunction(own) = SumFunction(times)
    BY <2>8, <2>9, <2>10, <2>11, <2>12, SumRenamed
  <2>14. g[l] = SumFunction(own)
    BY <1>7 DEF own
  <2>15. v[l] \in Int /\ v[l] = l.principal
    BY <1>1, <1>3
  <2>16. l.principal * Whole = Whole * v[l]
    BY <1>10, <2>15
  <2>. QED
    BY <2>8, <2>13, <2>14, <2>16
<1>12. Summable(g) /\ SumFunction(g) = Whole * SumFunction(v)
  BY <1>3, <1>9, <1>10, <1>11, SumTimes
<1>13. SumFunction(g) = SumFunction(f)
  <2>1. \A h \in DOMAIN f : key[h] \in L
    BY <1>3
  <2>2. \A l \in L : g[l] = SumFunction(Restrict(f, {h \in DOMAIN f : key[h] = l}))
    BY <1>3, <1>7
  <2>. QED
    BY <1>2, <1>3, <1>8, <2>1, <2>2, SumByClass
<1>14. SumFunction(v) \in Int
  BY <1>9, SumIsInt
<1>. QED
  BY <1>6, <1>10, <1>12, <1>13, <1>14

(* A join with the shares in force, and with the open ones.                 *)
LEMMA JoinIsWhole ==
  ASSUME CallMade, NEW statuses
  PROVE  TotalPrincipal(Join(snapshot, asked.funds, asked.day, statuses))
           = PrincipalOfLoans({l \in snapshot.loans : l.status \in statuses}) * Whole
<1>. DEFINE L == {l \in snapshot.loans : l.status \in statuses}
            of == [l \in L |-> {a \in SharesOf(snapshot, l.id, asked.funds) : InForce(a, asked.day)}]
            R == {h \in [loan : L, share : snapshot.allocations] : h.share \in of[h.loan]}
<1>1. \A l \in snapshot.loans :
        PctSum({a \in SharesOf(snapshot, l.id, asked.funds) : InForce(a, asked.day)}) = Whole
  BY WhatIsAsked DEF WholeLoans
<1>2. \A l \in L : of[l] \in SUBSET snapshot.allocations /\ PctSum(of[l]) = Whole
  BY <1>1 DEF SharesOf
<1>3. Join(snapshot, asked.funds, asked.day, statuses) = R
  BY DEF Join, SharesOf
<1>4. L \in SUBSET snapshot.loans
  OBVIOUS
<1>5. R = {h \in [loan : L, share : snapshot.allocations] : h.share \in of[h.loan]}
  OBVIOUS
<1>. HIDE DEF L, of, R
<1>6. TotalPrincipal(R) = PrincipalOfLoans(L) * Whole
  BY <1>2, <1>4, <1>5, LoansByShares
<1>. QED
  BY <1>3, <1>6 DEF L

LEMMA OpenSharesAreWhole ==
  ASSUME CallMade
  PROVE  TotalPrincipal(OpenShares(snapshot, asked.funds)) = PrincipalOfLoans(snapshot.loans) * Whole
<1>. DEFINE L == snapshot.loans
            of == [l \in L |-> {a \in SharesOf(snapshot, l.id, asked.funds) : a.to = NoEnd}]
            R == {h \in [loan : L, share : snapshot.allocations] : h.share \in of[h.loan]}
<1>1. \A l \in snapshot.loans :
        PctSum({a \in SharesOf(snapshot, l.id, asked.funds) : a.to = NoEnd}) = Whole
  BY WhatIsAsked DEF WholeLoans
<1>2. \A l \in L : of[l] \in SUBSET snapshot.allocations /\ PctSum(of[l]) = Whole
  BY <1>1 DEF SharesOf
<1>3. OpenShares(snapshot, asked.funds) = R
  BY DEF OpenShares, SharesOf
<1>4. L \in SUBSET snapshot.loans
  OBVIOUS
<1>5. R = {h \in [loan : L, share : snapshot.allocations] : h.share \in of[h.loan]}
  OBVIOUS
<1>. HIDE DEF L, of, R
<1>6. TotalPrincipal(R) = PrincipalOfLoans(L) * Whole
  BY <1>2, <1>4, <1>5, LoansByShares
<1>. QED
  BY <1>3, <1>6 DEF L

(* The rows of a query, and what one of them adds.                          *)
LEMMA RowsOfJoins ==
  ASSUME CallMade,
         NEW h \in [loan : snapshot.loans, share : snapshot.allocations]
  PROVE  /\ ProRata(h.loan.principal, h) \in Int /\ ProRata(Exposure(h.loan), h) \in Int
         /\ h.loan.maturity \in Int
<1>1. Tables(snapshot)
  BY WhatIsAsked
<1>2. /\ h.loan \in snapshot.loans /\ h.share \in snapshot.allocations
      /\ h.loan.principal \in Int /\ h.loan.interest \in Int /\ h.loan.fees \in Int
      /\ h.loan.maturity \in Int /\ h.share.pct \in Int
  BY <1>1 DEF Tables
<1>. QED
  BY <1>2 DEF ProRata, Exposure

LEMMA QueriesAreFinite ==
  ASSUME CallMade, NEW R \in SUBSET [loan : snapshot.loans, share : snapshot.allocations]
  PROVE  IsFiniteSet(R)
<1>1. IsFiniteSet(snapshot.loans) /\ IsFiniteSet(snapshot.allocations)
  <2>1. Tables(snapshot)
    BY WhatIsAsked
  <2>. QED
    BY <2>1 DEF Tables
<1>. QED
  BY <1>1, FinitePairs, FS_Subset

LEMMA RollupColumn ==
  ASSUME NEW F PROVE Rollup(snapshot, F).principal = TotalPrincipal(OpenShares(snapshot, F))
<1>. DEFINE held == OpenShares(snapshot, F)
            loans(statuses) == Cardinality({h.loan : h \in {x \in held : x.loan.status \in statuses}})
            active == loans(AllStatuses \ {"paid_off"})
            all == loans(AllStatuses)
            late == loans({"delinquent"})
            bad == loans({"default"})
            owing == TotalPrincipal(held)
<1>1. Rollup(snapshot, F) = [active |-> active, all |-> all, delinquent |-> late, default |-> bad,
                             principal |-> owing]
  BY DEF Rollup
<1>. HIDE DEF active, all, late, bad, owing
<1>2. Rollup(snapshot, F).principal = owing
  BY <1>1
<1>. QED
  BY <1>2 DEF owing

(* The rollups of the funds, one by one, add up to the loans.               *)
LEMMA RollupsAddUp ==
  ASSUME CallMade
  PROVE  SumFunction([f \in asked.funds |-> Rollup(snapshot, {f}).principal])
           = PrincipalOfLoans(snapshot.loans) * Whole
<1>. DEFINE F == asked.funds
            R == OpenShares(snapshot, F)
            t == [h \in R |-> ProRata(h.loan.principal, h)]
            key == [h \in R |-> h.share.fund]
            g == [f \in F |-> Rollup(snapshot, {f}).principal]
<1>1. R \in SUBSET [loan : snapshot.loans, share : snapshot.allocations]
  BY DEF OpenShares
<1>2. IsFiniteSet(F)
  BY WhatIsAsked
<1>3. \A h \in R : key[h] \in F /\ key[h] = h.share.fund
  BY DEF OpenShares
<1>4. ASSUME NEW f \in F
      PROVE  g[f] = SumFunction(Restrict(t, {h \in R : key[h] = f}))
  <2>. DEFINE own == {h \in R : key[h] = f}
  <2>1. OpenShares(snapshot, {f}) = own
    BY <1>3 DEF OpenShares
  <2>2. [h \in own |-> ProRata(h.loan.principal, h)] = Restrict(t, own)
    BY DEF Restrict
  <2>3. g[f] = TotalPrincipal(OpenShares(snapshot, {f}))
    BY RollupColumn
  <2>. HIDE DEF own, t, g, R
  <2>4. TotalPrincipal(own) = SumFunction(Restrict(t, own))
    BY <2>2 DEF TotalPrincipal
  <2>. QED
    BY <2>1, <2>3, <2>4 DEF own
<1>5. /\ DOMAIN t = R /\ DOMAIN g = F /\ TotalPrincipal(R) = SumFunction(t)
      /\ \A h \in R : t[h] = ProRata(h.loan.principal, h)
  BY DEF TotalPrincipal
<1>. HIDE DEF F, R, t, key, g
<1>6. Summable(t)
  <2>1. IsFiniteSet(R)
    BY <1>1, QueriesAreFinite
  <2>2. \A h \in R : t[h] \in Int
    BY <1>1, <1>5, RowsOfJoins
  <2>. QED
    BY <1>5, <2>1, <2>2 DEF Summable
<1>7. SumFunction(g) = SumFunction(t)
  BY <1>2, <1>3, <1>4, <1>5, <1>6, SumByClass
<1>. QED
  BY <1>5, <1>7, OpenSharesAreWhole DEF F, R, g

(* Aging: every row of the join is in one bucket.                           *)
LEMMA LatestOfLoan ==
  ASSUME CallMade, NEW loan PROVE Latest(snapshot, loan, asked.day).dpd \in Int
<1>. DEFINE upTo == {r \in snapshot.records : r.loan = loan.id /\ r.day <= asked.day}
            T == {r.day : r \in upTo}
<1>1. asked.day \in Nat /\ \A r \in snapshot.records : r.day \in Nat /\ r.dpd \in Int
  <2>1. Tables(snapshot) /\ asked.day \in Nat
    BY WhatIsAsked
  <2>. QED
    BY <2>1 DEF Tables
<1>2. Latest(snapshot, loan, asked.day)
        = IF upTo = {} THEN NoRecord ELSE CHOOSE r \in upTo : \A q \in upTo : q.day <= r.day
  BY DEF Latest
<1>3. \A r \in upTo : r.day \in Nat /\ r.day <= asked.day /\ r.dpd \in Int
  BY <1>1
<1>. HIDE DEF upTo
<1>4. CASE upTo = {}
  BY <1>2, <1>4 DEF NoRecord
<1>5. CASE upTo # {}
  <2>1. T \in SUBSET Nat /\ T # {} /\ \A y \in T : y <= asked.day
    BY <1>3, <1>5
  <2>2. \E x \in T : \A y \in T : y <= x
    BY <1>1, <2>1, GreatestExists
  <2>3. \E r \in upTo : \A q \in upTo : q.day <= r.day
    BY <2>2
  <2>4. Latest(snapshot, loan, asked.day) \in upTo
    BY <1>2, <1>5, <2>3
  <2>. QED
    BY <1>3, <2>4
<1>. QED
  BY <1>4, <1>5

LEMMA AgingColumn ==
  ASSUME NEW filter, NEW b \in BUCKET_ORDER
  PROVE  AgingReport(snapshot, asked.day, asked.funds, filter)[b].principal
           = TotalPrincipal(InBucket(snapshot, asked.day, asked.funds, filter, b))
<1>. DEFINE held == InBucket(snapshot, asked.day, asked.funds, filter, b)
            count == Cardinality(held)
            owing == TotalPrincipal(held)
            late == TotalPastDue(snapshot, asked.day, held)
<1>1. AgingReport(snapshot, asked.day, asked.funds, filter)[b]
        = [count |-> count, principal |-> owing, pastDue |-> late]
  BY DEF AgingReport
<1>. HIDE DEF count, owing, late
<1>2. AgingReport(snapshot, asked.day, asked.funds, filter)[b].principal = owing
  BY <1>1
<1>. QED
  BY <1>2 DEF owing

LEMMA FilteredAging ==
  ASSUME NEW b \in BUCKET_ORDER
  PROVE  AgingReport(snapshot, asked.day, asked.funds, {b})[b]
           = AgingReport(snapshot, asked.day, asked.funds, BUCKET_ORDER)[b]
<1>1. InBucket(snapshot, asked.day, asked.funds, {b}, b)
        = InBucket(snapshot, asked.day, asked.funds, BUCKET_ORDER, b)
  BY DEF InBucket
<1>. QED
  BY <1>1 DEF AgingReport

LEMMA AgedAddsUp ==
  ASSUME CallMade
  PROVE  AgedPrincipal(AgingReport(snapshot, asked.day, asked.funds, BUCKET_ORDER))
           = PrincipalOfLoans({l \in snapshot.loans : l.status \in AgingStatuses}) * Whole
<1>. DEFINE R == Join(snapshot, asked.funds, asked.day, AgingStatuses)
            t == [h \in R |-> ProRata(h.loan.principal, h)]
            key == [h \in R |-> DpdToBucket(Latest(snapshot, h.loan, asked.day).dpd)]
            report == AgingReport(snapshot, asked.day, asked.funds, BUCKET_ORDER)
            g == [b \in BUCKET_ORDER |-> report[b].principal]
<1>1. R \in SUBSET [loan : snapshot.loans, share : snapshot.allocations]
  BY DEF Join
<1>2. \A h \in R : key[h] \in BUCKET_ORDER
  BY LatestOfLoan, BucketOfDays
<1>3. ASSUME NEW b \in BUCKET_ORDER
      PROVE  g[b] = SumFunction(Restrict(t, {h \in R : key[h] = b}))
  <2>. DEFINE own == {h \in R : key[h] = b}
  <2>1. InBucket(snapshot, asked.day, asked.funds, BUCKET_ORDER, b) = own
    BY DEF InBucket
  <2>2. [h \in own |-> ProRata(h.loan.principal, h)] = Restrict(t, own)
    BY DEF Restrict
  <2>3. g[b] = TotalPrincipal(InBucket(snapshot, asked.day, asked.funds, BUCKET_ORDER, b))
    BY AgingColumn
  <2>. HIDE DEF own, t, g, R
  <2>4. TotalPrincipal(own) = SumFunction(Restrict(t, own))
    BY <2>2 DEF TotalPrincipal
  <2>. QED
    BY <2>1, <2>3, <2>4 DEF own
<1>4. /\ DOMAIN t = R /\ DOMAIN g = BUCKET_ORDER /\ TotalPrincipal(R) = SumFunction(t)
      /\ \A h \in R : t[h] = ProRata(h.loan.principal, h)
      /\ AgedPrincipal(report) = SumFunction(g)
  BY DEF TotalPrincipal, AgedPrincipal
<1>. HIDE DEF R, t, key, g, report
<1>5. Summable(t)
  <2>1. IsFiniteSet(R)
    BY <1>1, QueriesAreFinite
  <2>2. \A h \in R : t[h] \in Int
    BY <1>1, <1>4, RowsOfJoins
  <2>. QED
    BY <1>4, <2>1, <2>2 DEF Summable
<1>6. SumFunction(g) = SumFunction(t)
  BY <1>2, <1>3, <1>4, <1>5, SixBuckets, SumByClass
<1>. QED
  BY <1>4, <1>6, JoinIsWhole DEF R, report

(* Maturity: every row up to the horizon is in one bucket.                  *)
LEMMA BucketAhead ==
  ASSUME NEW n \in Int
  PROVE  /\ MaturityBucket(n) \in MATURITY_BUCKETS
         /\ MaturityBucket(n) \in {"overdue", "0-30", "31-60", "61-90"} <=> n <= 90
         /\ MaturityBucket(n) \in {"overdue", "0-30", "31-60", "61-90", "91-180", "181-365"} <=> n <= 365
<1>1. CASE n < 0
  <2>1. MaturityBucket(n) = "overdue"
    BY <1>1 DEF MaturityBucket
  <2>. QED BY <1>1, <2>1 DEF MATURITY_BUCKETS
<1>2. CASE n \in 0 .. 30
  <2>1. MaturityBucket(n) = "0-30"
    BY <1>2 DEF MaturityBucket
  <2>. QED BY <1>2, <2>1 DEF MATURITY_BUCKETS
<1>3. CASE n \in 31 .. 60
  <2>1. MaturityBucket(n) = "31-60"
    BY <1>3 DEF MaturityBucket
  <2>. QED BY <1>3, <2>1 DEF MATURITY_BUCKETS
<1>4. CASE n \in 61 .. 90
  <2>1. MaturityBucket(n) = "61-90"
    BY <1>4 DEF MaturityBucket
  <2>. QED BY <1>4, <2>1 DEF MATURITY_BUCKETS
<1>5. CASE n \in 91 .. 180
  <2>1. MaturityBucket(n) = "91-180"
    BY <1>5 DEF MaturityBucket
  <2>. QED BY <1>5, <2>1 DEF MATURITY_BUCKETS
<1>6. CASE n \in 181 .. 365
  <2>1. MaturityBucket(n) = "181-365"
    BY <1>6 DEF MaturityBucket
  <2>. QED BY <1>6, <2>1 DEF MATURITY_BUCKETS
<1>7. CASE n > 365
  <2>1. /\ ~(n < 0) /\ n \notin 0 .. 30 /\ n \notin 31 .. 60 /\ n \notin 61 .. 90
        /\ n \notin 91 .. 180 /\ n \notin 181 .. 365
    BY <1>7
  <2>2. MaturityBucket(n) = "365+"
    BY <2>1, Zenon DEF MaturityBucket
  <2>. QED BY <1>7, <2>2 DEF MATURITY_BUCKETS
<1>. QED
  BY <1>1, <1>2, <1>3, <1>4, <1>5, <1>6, <1>7

LEMMA AheadIsFinite == IsFiniteSet(MATURITY_BUCKETS)
<1>1. /\ IsFiniteSet({"overdue"}) /\ IsFiniteSet({"0-30"}) /\ IsFiniteSet({"31-60"})
      /\ IsFiniteSet({"61-90"}) /\ IsFiniteSet({"91-180"}) /\ IsFiniteSet({"181-365"})
      /\ IsFiniteSet({"365+"})
  BY FS_Singleton
<1>2. IsFiniteSet({"overdue"} \cup {"0-30"} \cup {"31-60"})
  BY <1>1, FS_Union
<1>3. IsFiniteSet({"61-90"} \cup {"91-180"} \cup {"181-365"} \cup {"365+"})
  BY <1>1, FS_Union
<1>4. MATURITY_BUCKETS = ({"overdue"} \cup {"0-30"} \cup {"31-60"})
                           \cup ({"61-90"} \cup {"91-180"} \cup {"181-365"} \cup {"365+"})
  BY DEF MATURITY_BUCKETS
<1>. QED
  BY <1>2, <1>3, <1>4, FS_Union

TheMaturing == Maturing(snapshot, asked.day, asked.funds, asked.horizon)
Ahead(h) == h.loan.maturity - asked.day
ExposureWithin(n) == TotalExposure({h \in TheMaturing : Ahead(h) <= n})

LEMMA PipelineColumns ==
  ASSUME NEW pipeline, pipeline = MaturityPipeline(snapshot, asked.day, asked.funds, asked.horizon)
  PROVE  /\ pipeline.in3m = ExposureWithin(90) /\ pipeline.in12m = ExposureWithin(365)
         /\ DOMAIN pipeline.buckets = MATURITY_BUCKETS
         /\ \A b \in MATURITY_BUCKETS :
              pipeline.buckets[b] = TotalExposure({h \in TheMaturing : MaturityBucket(Ahead(h)) = b})
<1>. DEFINE buckets == [b \in MATURITY_BUCKETS |->
                          TotalExposure({h \in TheMaturing : MaturityBucket(h.loan.maturity - asked.day) = b})]
            near == TotalExposure({h \in TheMaturing : h.loan.maturity - asked.day <= 90})
            far == TotalExposure({h \in TheMaturing : h.loan.maturity - asked.day <= 365})
            late == Cardinality({h \in TheMaturing : h.loan.maturity < asked.day})
<1>1. pipeline = [buckets |-> buckets, in3m |-> near, in12m |-> far, overdue |-> late]
  BY DEF MaturityPipeline, TheMaturing
<1>2. /\ DOMAIN buckets = MATURITY_BUCKETS
      /\ \A b \in MATURITY_BUCKETS :
           buckets[b] = TotalExposure({h \in TheMaturing : MaturityBucket(Ahead(h)) = b})
      /\ near = ExposureWithin(90) /\ far = ExposureWithin(365)
  BY DEF ExposureWithin, Ahead
<1>. HIDE DEF buckets, near, far, late
<1>3. pipeline.buckets = buckets /\ pipeline.in3m = near /\ pipeline.in12m = far
  BY <1>1
<1>. QED
  BY <1>2, <1>3

(* Some buckets together are the loans that are in one of them.             *)
LEMMA BucketsAddUp ==
  ASSUME CallMade, NEW S \in SUBSET MATURITY_BUCKETS,
         NEW buckets, DOMAIN buckets = MATURITY_BUCKETS,
         \A b \in MATURITY_BUCKETS :
           buckets[b] = TotalExposure({h \in TheMaturing : MaturityBucket(Ahead(h)) = b}),
         NEW R, R = {h \in TheMaturing : MaturityBucket(Ahead(h)) \in S}
  PROVE  SumFunction([b \in S \cap DOMAIN buckets |-> buckets[b]]) = TotalExposure(R)
<1>. DEFINE t == [h \in R |-> ProRata(Exposure(h.loan), h)]
            key == [h \in R |-> MaturityBucket(Ahead(h))]
            g == [b \in S \cap DOMAIN buckets |-> buckets[b]]
<1>1. R \in SUBSET [loan : snapshot.loans, share : snapshot.allocations]
  BY DEF TheMaturing, Maturing, Join
<1>2. \A h \in R : key[h] \in S
  OBVIOUS
<1>3. ASSUME NEW b \in S
      PROVE  g[b] = SumFunction(Restrict(t, {h \in R : key[h] = b}))
  <2>. DEFINE own == {h \in R : key[h] = b}
  <2>1. {h \in TheMaturing : MaturityBucket(Ahead(h)) = b} = own
    OBVIOUS
  <2>2. [h \in own |-> ProRata(Exposure(h.loan), h)] = Restrict(t, own)
    BY DEF Restrict
  <2>3. g[b] = TotalExposure({h \in TheMaturing : MaturityBucket(Ahead(h)) = b})
    OBVIOUS
  <2>. HIDE DEF own, t, g
  <2>4. TotalExposure(own) = SumFunction(Restrict(t, own))
    BY <2>2 DEF TotalExposure
  <2>. QED
    BY <2>1, <2>3, <2>4 DEF own
<1>4. /\ DOMAIN t = R /\ DOMAIN g = S /\ TotalExposure(R) = SumFunction(t)
      /\ \A h \in R : t[h] = ProRata(Exposure(h.loan), h)
  BY DEF TotalExposure
<1>. HIDE DEF t, key, g
<1>5. Summable(t)
  <2>1. IsFiniteSet(R)
    BY <1>1, QueriesAreFinite
  <2>2. \A h \in R : t[h] \in Int
    BY <1>1, <1>4, RowsOfJoins
  <2>. QED
    BY <1>4, <2>1, <2>2 DEF Summable
<1>6. IsFiniteSet(S)
  BY AheadIsFinite, FS_Subset
<1>7. SumFunction(g) = SumFunction(t)
  BY <1>2, <1>3, <1>4, <1>5, <1>6, SumByClass
<1>. QED
  BY <1>4, <1>7 DEF g

LEMMA PipelineAddsUp ==
  ASSUME CallMade,
         NEW pipeline, pipeline = MaturityPipeline(snapshot, asked.day, asked.funds, asked.horizon),
         NEW over, over = [S \in SUBSET MATURITY_BUCKETS |->
           SumFunction([b \in S \cap DOMAIN pipeline.buckets |-> pipeline.buckets[b]])],
         NEW near, near = {"overdue", "0-30", "31-60", "61-90"}
  PROVE  /\ over[MATURITY_BUCKETS] = TotalExposure(TheMaturing)
         /\ pipeline.in3m = over[near]
         /\ pipeline.in12m = over[near \cup {"91-180", "181-365"}]
         /\ near \in SUBSET MATURITY_BUCKETS
         /\ near \cup {"91-180", "181-365"} \in SUBSET MATURITY_BUCKETS
<1>. DEFINE far == {"overdue", "0-30", "31-60", "61-90", "91-180", "181-365"}
<1>1. /\ near \in SUBSET MATURITY_BUCKETS /\ far \in SUBSET MATURITY_BUCKETS
      /\ near \cup {"91-180", "181-365"} = far
  BY DEF MATURITY_BUCKETS
<1>2. ASSUME NEW S \in SUBSET MATURITY_BUCKETS
      PROVE  over[S] = TotalExposure({h \in TheMaturing : MaturityBucket(Ahead(h)) \in S})
  <2>. DEFINE buckets == pipeline.buckets
  <2>1. /\ DOMAIN buckets = MATURITY_BUCKETS
        /\ \A b \in MATURITY_BUCKETS :
             buckets[b] = TotalExposure({h \in TheMaturing : MaturityBucket(Ahead(h)) = b})
    BY PipelineColumns
  <2>2. over[S] = SumFunction([b \in S \cap DOMAIN buckets |-> buckets[b]])
    OBVIOUS
  <2>. HIDE DEF buckets
  <2>. QED
    BY <2>1, <2>2, BucketsAddUp
<1>3. \A h \in TheMaturing : Ahead(h) \in Int
  <2>1. asked.day \in Int
    BY WhatIsAsked
  <2>2. \A h \in TheMaturing : h.loan.maturity \in Int
    BY RowsOfJoins DEF TheMaturing, Maturing, Join
  <2>. QED
    BY <2>1, <2>2 DEF Ahead
<1>4. {h \in TheMaturing : MaturityBucket(Ahead(h)) \in MATURITY_BUCKETS} = TheMaturing
  BY <1>3, BucketAhead
<1>5. {h \in TheMaturing : MaturityBucket(Ahead(h)) \in near} = {h \in TheMaturing : Ahead(h) <= 90}
  BY <1>3, BucketAhead
<1>6. {h \in TheMaturing : MaturityBucket(Ahead(h)) \in far} = {h \in TheMaturing : Ahead(h) <= 365}
  BY <1>3, BucketAhead
<1>. HIDE DEF far
<1>7. /\ over[MATURITY_BUCKETS] = TotalExposure(TheMaturing)
      /\ over[near] = ExposureWithin(90) /\ over[far] = ExposureWithin(365)
  <2>1. over[MATURITY_BUCKETS] = TotalExposure(TheMaturing)
    <3>1. MATURITY_BUCKETS \in SUBSET MATURITY_BUCKETS
      OBVIOUS
    <3>. QED
      BY <1>2, <1>4, <3>1
  <2>2. over[near] = TotalExposure({h \in TheMaturing : MaturityBucket(Ahead(h)) \in near})
    BY <1>1, <1>2
  <2>3. over[far] = TotalExposure({h \in TheMaturing : MaturityBucket(Ahead(h)) \in far})
    BY <1>1, <1>2
  <2>. QED
    BY <1>5, <1>6, <2>1, <2>2, <2>3 DEF ExposureWithin
<1>8. pipeline.in3m = ExposureWithin(90) /\ pipeline.in12m = ExposureWithin(365)
  BY PipelineColumns
<1>. QED
  BY <1>1, <1>7, <1>8

(* Exceptions: every task has one priority.                                 *)
Priorities == {"critical", "high", "normal", "low"}
LEMMA FourPriorities == IsFiniteSet(Priorities)
<1>1. /\ IsFiniteSet({"critical"}) /\ IsFiniteSet({"high"}) /\ IsFiniteSet({"normal"})
      /\ IsFiniteSet({"low"})
  BY FS_Singleton
<1>2. IsFiniteSet({"critical"} \cup {"high"} \cup {"normal"} \cup {"low"})
  BY <1>1, FS_Union
<1>3. Priorities = {"critical"} \cup {"high"} \cup {"normal"} \cup {"low"}
  BY DEF Priorities
<1>. QED
  BY <1>2, <1>3

LEMMA ExceptionsAddUp ==
  ASSUME CallMade, NEW F, NEW report, report = ExceptionReport(snapshot, asked.day, F)
  PROVE  SumFunction(report.counts) = report.total
<1>. DEFINE Held(t) == \E a \in snapshot.allocations :
                          a.loan = t.loan /\ a.fund \in F /\ InForce(a, asked.day)
            Of(t) == CHOOSE l \in snapshot.loans : l.id = t.loan
            R == {t \in snapshot.tasks : t.status \in {"open", "in_progress", "escalated"} /\ Held(t)}
            counts == [p \in Priorities |-> Cardinality({t \in R : t.priority = p})]
            total == Cardinality(R)
            flagged == SumFunction([t \in R |-> Of(t).principal])
            one == [t \in R |-> 1]
            key == [t \in R |-> t.priority]
<1>1. report = [counts |-> counts, total |-> total, flagged |-> flagged]
  BY DEF ExceptionReport, Priorities
<1>2. IsFiniteSet(R) /\ \A t \in R : t.priority \in Priorities
  <2>1. IsFiniteSet(snapshot.tasks)
        /\ \A t \in snapshot.tasks : t.priority \in {"critical", "high", "normal", "low"}
    <3>1. Tables(snapshot)
      BY WhatIsAsked
    <3>. QED
      BY <3>1 DEF Tables
  <2>2. R \subseteq snapshot.tasks
    OBVIOUS
  <2>. HIDE DEF R
  <2>. QED
    BY <2>1, <2>2, FS_Subset DEF Priorities
<1>. HIDE DEF R
<1>3. /\ DOMAIN one = R /\ \A t \in R : one[t] = 1 /\ key[t] = t.priority
      /\ DOMAIN counts = Priorities
      /\ \A p \in Priorities : counts[p] = Cardinality({t \in R : key[t] = p})
  <2>1. \A p \in Priorities : {t \in R : key[t] = p} = {t \in R : t.priority = p}
    OBVIOUS
  <2>. QED
    BY <2>1
<1>. HIDE DEF one, key, counts, total, flagged
<1>4. report.counts = counts /\ report.total = total
  BY <1>1
<1>5. Summable(one) /\ SumFunction(one) = Cardinality(R)
  BY <1>2, <1>3, CountIsSum
<1>6. ASSUME NEW p \in Priorities
      PROVE  counts[p] = SumFunction(Restrict(one, {t \in R : key[t] = p}))
  <2>. DEFINE own == {t \in R : key[t] = p}
              ones == Restrict(one, own)
  <2>1. DOMAIN ones = own /\ \A t \in own : ones[t] = 1
    BY <1>3 DEF Restrict
  <2>2. IsFiniteSet(own)
    BY <1>2, FS_Subset
  <2>3. counts[p] = Cardinality(own)
    BY <1>3
  <2>. HIDE DEF own, ones
  <2>4. SumFunction(ones) = Cardinality(own)
    BY <2>1, <2>2, CountIsSum
  <2>. QED
    BY <2>3, <2>4 DEF ones, own
<1>7. SumFunction(counts) = SumFunction(one)
  <2>1. \A t \in DOMAIN one : key[t] \in Priorities
    BY <1>2, <1>3
  <2>2. \A p \in Priorities : counts[p] = SumFunction(Restrict(one, {t \in DOMAIN one : key[t] = p}))
    BY <1>3, <1>6
  <2>. QED
    BY <1>3, <1>5, <2>1, <2>2, FourPriorities, SumByClass
<1>. QED
  BY <1>4, <1>5, <1>7 DEF total

(* Whatever the tables hold, as long as the funds asked for own the loans:   *)
(* the parts of every report are its total.                                  *)
THEOREM ReportsHold == ReportSpec => []ReportsPartition
<1>1. CallMade => ReportsPartition
  <2>. SUFFICES ASSUME CallMade PROVE ReportsPartition
    OBVIOUS
  <2>. DEFINE pipeline == MaturityPipeline(snapshot, asked.day, asked.funds, asked.horizon)
              aging == AgingReport(snapshot, asked.day, asked.funds, BUCKET_ORDER)
              over == [S \in SUBSET MATURITY_BUCKETS |->
                SumFunction([b \in S \cap DOMAIN pipeline.buckets |-> pipeline.buckets[b]])]
              near == {"overdue", "0-30", "31-60", "61-90"}
  <2>1. /\ over[MATURITY_BUCKETS] = TotalExposure(TheMaturing)
        /\ pipeline.in3m = over[near]
        /\ pipeline.in12m = over[near \cup {"91-180", "181-365"}]
        /\ near \in SUBSET MATURITY_BUCKETS
        /\ near \cup {"91-180", "181-365"} \in SUBSET MATURITY_BUCKETS
    BY PipelineAddsUp
  <2>2. /\ SumFunction([b \in MATURITY_BUCKETS \cap DOMAIN pipeline.buckets |-> pipeline.buckets[b]])
             = TotalExposure(TheMaturing)
        /\ pipeline.in3m = SumFunction([b \in near \cap DOMAIN pipeline.buckets |-> pipeline.buckets[b]])
        /\ pipeline.in12m = SumFunction([b \in (near \cup {"91-180", "181-365"})
                                           \cap DOMAIN pipeline.buckets |-> pipeline.buckets[b]])
    <3>. HIDE DEF pipeline, near
    <3>. QED
      BY <2>1
  <2>3. AgedPrincipal(aging)
          = PrincipalOfLoans({l \in snapshot.loans : l.status \in AgingStatuses}) * Whole
    BY AgedAddsUp
  <2>4. \A b \in BUCKET_ORDER :
          AgingReport(snapshot, asked.day, asked.funds, {b})[b] = aging[b]
    BY FilteredAging
  <2>5. ASSUME NEW F \in SUBSET asked.funds, NEW tasks, tasks = ExceptionReport(snapshot, asked.day, F)
        PROVE  SumFunction(tasks.counts) = tasks.total
    BY <2>5, ExceptionsAddUp
  <2>6. SumFunction([f \in asked.funds |-> Rollup(snapshot, {f}).principal])
          = PrincipalOfLoans(snapshot.loans) * Whole
    BY RollupsAddUp
  <2>. HIDE DEF pipeline, aging, near
  <2>. QED
    BY <2>2, <2>3, <2>4, <2>5, <2>6 DEF ReportsPartition, pipeline, aging, near, TheMaturing
<1>2. ReportInit => CallMade
  BY DEF ReportInit, CallMade
<1>3. CallMade /\ [AddCashPeriod]_reportVars => CallMade'
  BY DEF CallMade, AddCashPeriod, reportVars
<1>. QED
  BY <1>1, <1>2, <1>3, PTL DEF ReportSpec
=============================================================================
