------------------------ MODULE RolePermissionsProofs ------------------------
(* Theorems about RolePermissions, for any number of requests, roles,      *)
(* permissions and rows.                                                   *)
EXTENDS RolePermissions, WellFoundedInduction, TLAPS

\* The rows that the DELETE of transaction s has found or deleted, and those that s has
\* inserted, before it commits.
Touched(s) == IF IsAssignment(s) THEN req[s].found \cup req[s].gone ELSE {}
Own(s) == IF IsAssignment(s) THEN req[s].own ELSE {}

\* How far the transaction of s has come.
Progress(s) ==
    IsAssignment(s) =>
        /\ req[s].wanted \subseteq Permissions
        /\ req[s].left \subseteq req[s].wanted
        /\ req[s].pc = "insert" => req[s].left # {}
        /\ req[s].pc \in {"delete", "locks"} => req[s].left = req[s].wanted
        /\ req[s].pc # "locks" => req[s].found = {}
        /\ req[s].pc \notin {"exists", "insert"} => req[s].gone = {} /\ req[s].own = {}
        /\ ~req[s].replace => req[s].gone = {} /\ req[s].pc \notin {"delete", "locks"}

\* The rows of s are of its role, those it has deleted are still in the table, and those
\* it has inserted are not yet.
RowsOf(s) ==
    IsAssignment(s) =>
        /\ \A g \in Touched(s) \cup Own(s) : g.role = req[s].role /\ g.id < nextId
        /\ req[s].gone \subseteq grants
        /\ req[s].own \cap grants = {}

\* What the loop of s has been through it sees, but for what others have taken; what has
\* been assigned is in the table, with the same exception.
Kept(s) ==
    /\ At(s, "exists") \/ At(s, "insert") =>
           \A p \in req[s].wanted \ req[s].left :
               Has(Visible(s), req[s].role, p) \/ p \in req[s].taken
    /\ At(s, "assigned") =>
           \A p \in req[s].wanted : Has(grants, req[s].role, p) \/ p \in req[s].taken

\* Of two transactions on one role, the DELETE that looked later has found what is left of
\* the rows of the other; so one waits for the other, and only one has rows deleted.
Apart(s, t) ==
    /\ Own(s) \cap (Own(t) \cup Touched(t)) = {}
    /\ IsAssignment(s) /\ IsAssignment(t) /\ req[s].role = req[t].role =>
           /\ \/ Touched(s) \cap grants \subseteq Touched(t)
              \/ Touched(t) \cap grants \subseteq Touched(s)
           /\ req[s].gone = {} \/ req[t].gone = {}

IInv ==
    /\ TypeOK
    /\ \A g \in grants : g.id < nextId
    /\ \A s \in Slots : Progress(s) /\ RowsOf(s) /\ Kept(s)
    /\ \A s, t \in Slots : s # t => Apart(s, t)

-----------------------------------------------------------------------------
\* Every set of natural numbers that is not empty has a least element.
LEMMA MinIn ==
    ASSUME NEW S, S \subseteq Nat, S # {}
    PROVE  Min(S) \in S
<1> DEFINE R == OpToRel(<, Nat)
<1>1. R = {ss \in Nat \X Nat : ss[1] < ss[2]}
    BY DEF OpToRel
<1>2. IsWellFoundedOn(R, Nat)
    BY NatLessThanWellFounded, Zenon
<1> HIDE DEF R
<1>3. PICK x \in S : \A y \in S : ~ (<<y, x>> \in R)
    BY <1>2, WFMin, Zenon
<1>4. \A y \in S : x <= y
  <2> TAKE y \in S
  <2>1. ~(y < x)
    BY <1>1, <1>3
  <2> QED
    BY <2>1
<1> QED
    BY <1>3, <1>4 DEF Min

LEMMA InvInit == Init => IInv
<1> SUFFICES ASSUME Init PROVE IInv
    OBVIOUS
<1>1. TypeOK
    BY ConstantsAssumption DEF Init, TypeOK
<1>2. \A s \in Slots : req[s] = Idle
    BY DEF Init
<1>3. \A s \in Slots : Touched(s) = {} /\ Own(s) = {}
    BY <1>2 DEF Touched, Own, IsAssignment
<1>4. \A s \in Slots : Progress(s) /\ RowsOf(s) /\ Kept(s)
    BY <1>2 DEF Progress, RowsOf, Kept, IsAssignment, At, Idle, Refused
<1>5. \A s, t \in Slots : Apart(s, t)
    BY <1>2, <1>3 DEF Apart, IsAssignment
<1> QED
    BY <1>1, <1>4, <1>5 DEF IInv, Init

-----------------------------------------------------------------------------
(* Steps of one request that leave the table alone                         *)

\* When slot s alone steps and the table stays as it is, everything said of the others
\* stays true; of s and of the pairs it is in, it has to be shown.
LEMMA OwnStep ==
    ASSUME IInv, NEW s \in Slots, NEW r \in {Idle, Refused} \cup Assignment,
           req' = [req EXCEPT ![s] = r], grants' = grants,
           nextId' \in nextId..(MaxGrants + 1),
           Progress(s)', RowsOf(s)', Kept(s)',
           \A t \in Slots \ {s} : Apart(s, t)' /\ Apart(t, s)'
    PROVE  IInv'
<1>1. TypeOK'
    BY ConstantsAssumption DEF IInv, TypeOK
<1>2. ASSUME NEW t \in Slots \ {s} PROVE req'[t] = req[t]
    BY DEF IInv, TypeOK
<1>3. nextId \in Nat /\ nextId' \in Nat /\ nextId <= nextId'
    BY ConstantsAssumption DEF IInv, TypeOK
<1>4. \A g \in grants' : g.id < nextId'
    BY <1>3 DEF IInv, TypeOK, Grant
<1>5. ASSUME NEW t \in Slots \ {s} PROVE Progress(t)' /\ Kept(t)'
    BY <1>2 DEF IInv, Progress, Kept, At, IsAssignment, Visible, Has, Idle, Refused
<1>6. ASSUME NEW t \in Slots \ {s} PROVE RowsOf(t)'
  <2>1. Touched(t)' = Touched(t) /\ Own(t)' = Own(t)
    BY <1>2 DEF Touched, Own, IsAssignment
  <2>2. \A g \in Touched(t) \cup Own(t) : g.id \in Nat
    BY DEF IInv, TypeOK, Touched, Own, IsAssignment, Assignment, Grant
  <2> QED
    BY <1>2, <1>3, <2>1, <2>2 DEF IInv, RowsOf, IsAssignment
<1>7. ASSUME NEW t \in Slots \ {s}, NEW u \in Slots \ {s}, t # u PROVE Apart(t, u)'
  <2>1. req'[t] = req[t] /\ req'[u] = req[u]
    BY <1>2
  <2>2. /\ Touched(t)' = Touched(t) /\ Own(t)' = Own(t)
        /\ Touched(u)' = Touched(u) /\ Own(u)' = Own(u)
    BY <2>1 DEF Touched, Own, IsAssignment
  <2>3. Apart(t, u)
    BY <1>7 DEF IInv
  <2> QED
    BY <2>1, <2>2, <2>3 DEF Apart, IsAssignment
<1> QED
    BY <1>1, <1>4, <1>5, <1>6, <1>7 DEF IInv

\* A request is refused, its transaction rolled back, or its answer sent.
LEMMA EndInv ==
    ASSUME IInv, NEW s \in Slots, NEW r \in {Idle, Refused}, Becomes(s, r),
           UNCHANGED <<grants, nextId>>
    PROVE  IInv'
<1>1. req' = [req EXCEPT ![s] = r] /\ grants' = grants /\ nextId' = nextId
    BY DEF Becomes
<1>2. req'[s] = r
    BY <1>1 DEF IInv, TypeOK
<1>3. ~IsAssignment(s)' /\ Touched(s)' = {} /\ Own(s)' = {}
    BY <1>2 DEF IsAssignment, Touched, Own
<1>4. Progress(s)' /\ RowsOf(s)' /\ Kept(s)'
    BY <1>2, <1>3 DEF Progress, RowsOf, Kept, At, Idle, Refused
<1>5. \A t \in Slots \ {s} : Apart(s, t)' /\ Apart(t, s)'
    BY <1>3 DEF Apart
<1>6. nextId' \in nextId..(MaxGrants + 1)
    BY <1>1, ConstantsAssumption DEF IInv, TypeOK
<1> QED
    BY <1>1, <1>4, <1>5, <1>6, OwnStep

\* A request arrives, and its role and permissions are found.
LEMMA BegunInv ==
    ASSUME IInv, NEW s \in Slots, NEW role \in Roles, NEW wanted \in SUBSET Listed,
           NEW replace \in BOOLEAN, wanted \subseteq Permissions,
           Becomes(s, Begun(role, wanted, replace)), UNCHANGED <<grants, nextId>>
    PROVE  IInv'
<1> DEFINE r == Begun(role, wanted, replace)
<1>1. r \in Assignment
    BY DEF Assignment, Begun
<1>2. req' = [req EXCEPT ![s] = r] /\ grants' = grants /\ nextId' = nextId
    BY DEF Becomes
<1>3. /\ req'[s] = r /\ r.pc = (IF replace THEN "delete" ELSE "exists")
      /\ r.role = role /\ r.wanted = wanted /\ r.left = wanted /\ r.replace = replace
      /\ r.found = {} /\ r.gone = {} /\ r.own = {}
    BY <1>2 DEF IInv, TypeOK, Begun
<1> HIDE DEF r
<1>4. Progress(s)' /\ Kept(s)'
    BY <1>3 DEF Progress, Kept, At, IsAssignment
<1>5. Touched(s)' = {} /\ Own(s)' = {}
    BY <1>3 DEF Touched, Own
<1>6. RowsOf(s)'
    BY <1>3, <1>5 DEF RowsOf
<1>7. \A t \in Slots \ {s} : Apart(s, t)' /\ Apart(t, s)'
    BY <1>3, <1>5 DEF Apart
<1>8. nextId' \in nextId..(MaxGrants + 1)
    BY <1>2, ConstantsAssumption DEF IInv, TypeOK
<1> QED
    BY <1>1, <1>2, <1>4, <1>6, <1>7, <1>8, OwnStep

LEMMA AssignPermissionsInv ==
    ASSUME IInv, NEW s \in Slots, NEW role \in NamedRoles, NEW wanted \in SUBSET Listed,
           NEW repeated \in BOOLEAN, NEW replace \in BOOLEAN,
           AssignPermissions(s, role, wanted, repeated, replace)
    PROVE  IInv'
<1>1. CASE role \in Roles /\ wanted \subseteq Permissions /\ ~repeated
    BY <1>1, BegunInv DEF AssignPermissions
<1>2. CASE ~(role \in Roles /\ wanted \subseteq Permissions /\ ~repeated)
    BY <1>2, EndInv DEF AssignPermissions
<1> QED
    BY <1>1, <1>2

LEMMA RollBackInv ==
    ASSUME IInv, NEW s \in Slots, RollBack(s)
    PROVE  IInv'
BY EndInv DEF RollBack

LEMMA RespondInv ==
    ASSUME IInv, NEW s \in Slots, Respond(s)
    PROVE  IInv'
BY EndInv DEF Respond

\* DELETE finds the rows of its role: none that another transaction has inserted and not
\* committed, and all that is left of what another one of the role has found.
LEMMA StartDeleteInv ==
    ASSUME IInv, NEW s \in Slots, StartDelete(s)
    PROVE  IInv'
<1> DEFINE rows == {g \in grants : g.role = req[s].role}
           r == [req[s] EXCEPT !.pc = "locks", !.found = rows]
<1>0. req[s] \in Assignment /\ req[s].pc = "delete" /\ IsAssignment(s)
    BY DEF IInv, TypeOK, StartDelete, At, IsAssignment, Idle, Refused, Assignment
<1>1. r \in Assignment
    BY <1>0 DEF IInv, TypeOK, Assignment
<1>2. req' = [req EXCEPT ![s] = r] /\ grants' = grants /\ nextId' = nextId
    BY DEF StartDelete, Becomes
<1>3. req'[s] = r
    BY <1>2 DEF IInv, TypeOK
<1>4. /\ r.pc = "locks" /\ r.found = rows /\ r.gone = {} /\ r.own = {}
      /\ r.role = req[s].role /\ r.left = req[s].left /\ r.wanted = req[s].wanted
      /\ r.replace = req[s].replace
    BY <1>0 DEF Assignment, IInv, Progress
<1> HIDE DEF r
<1>5. IsAssignment(s)' /\ Touched(s)' = rows /\ Own(s)' = {}
    BY <1>3, <1>4 DEF Touched, Own, IsAssignment, Idle, Refused
<1>6. Progress(s)' /\ Kept(s)'
    BY <1>0, <1>3, <1>4 DEF IInv, Progress, Kept, At
<1>7. RowsOf(s)'
    BY <1>2, <1>3, <1>4, <1>5 DEF RowsOf, IInv
<1>8. ASSUME NEW t \in Slots \ {s} PROVE Apart(s, t)' /\ Apart(t, s)'
  <2>1. req'[t] = req[t]
    BY <1>2 DEF IInv, TypeOK
  <2>2. Touched(t)' = Touched(t) /\ Own(t)' = Own(t) /\ (IsAssignment(t)' <=> IsAssignment(t))
    BY <2>1 DEF Touched, Own, IsAssignment
  <2>3. Own(t) \cap grants = {}
    BY DEF Own, IInv, RowsOf
  <2>4. IsAssignment(t) /\ req[t].role = req[s].role => Touched(t) \cap grants \subseteq rows
    BY DEF IInv, RowsOf
  <2> QED
    BY <1>2, <1>3, <1>4, <1>5, <2>1, <2>2, <2>3, <2>4 DEF Apart
<1>9. nextId' \in nextId..(MaxGrants + 1)
    BY <1>2, ConstantsAssumption DEF IInv, TypeOK
<1> QED
    BY <1>1, <1>2, <1>6, <1>7, <1>8, <1>9, OwnStep

\* It goes on when it has every lock: then no other transaction on the role holds any.
LEMMA FinishDeleteInv ==
    ASSUME IInv, NEW s \in Slots, FinishDelete(s)
    PROVE  IInv'
<1> DEFINE r == [req[s] EXCEPT !.pc = "exists", !.found = {},
                               !.gone = req[s].found \cap grants]
<1>0. req[s] \in Assignment /\ req[s].pc = "locks" /\ IsAssignment(s)
    BY DEF IInv, TypeOK, FinishDelete, At, IsAssignment, Idle, Refused, Assignment
<1>1. r \in Assignment
    BY <1>0 DEF Assignment
<1>2. req' = [req EXCEPT ![s] = r] /\ grants' = grants /\ nextId' = nextId
    BY DEF FinishDelete, Becomes
<1>3. req'[s] = r
    BY <1>2 DEF IInv, TypeOK
<1>4. /\ r.pc = "exists" /\ r.found = {} /\ r.gone = req[s].found \cap grants
      /\ r.own = {} /\ r.role = req[s].role /\ r.left = req[s].left
      /\ r.wanted = req[s].wanted /\ r.replace = req[s].replace
    BY <1>0 DEF Assignment, IInv, Progress
<1> HIDE DEF r
<1>5. /\ IsAssignment(s)' /\ Touched(s)' = req[s].found \cap grants /\ Own(s)' = {}
      /\ Touched(s) = req[s].found
    BY <1>0, <1>3, <1>4 DEF Touched, Own, IsAssignment, Idle, Refused, IInv, Progress
<1>6. Progress(s)' /\ Kept(s)'
    BY <1>0, <1>3, <1>4 DEF IInv, Progress, Kept, At
<1>7. RowsOf(s)'
    BY <1>0, <1>2, <1>3, <1>4, <1>5 DEF RowsOf, IInv
<1>8. ASSUME NEW t \in Slots \ {s} PROVE Apart(s, t)' /\ Apart(t, s)'
  <2>1. req'[t] = req[t]
    BY <1>2 DEF IInv, TypeOK
  <2>2. Touched(t)' = Touched(t) /\ Own(t)' = Own(t) /\ (IsAssignment(t)' <=> IsAssignment(t))
    BY <2>1 DEF Touched, Own, IsAssignment
  <2>3. Apart(s, t) /\ Apart(t, s)
    BY DEF IInv
  <2>4. Own(t) \cap (req[s].found \cap grants) = {}
    BY <1>5, <2>3 DEF Apart
  <2>5. CASE IsAssignment(t) /\ req[t].role = req[s].role
    <3>1. \/ req[s].found \cap grants \subseteq Touched(t)
          \/ Touched(t) \cap grants \subseteq req[s].found \cap grants
      BY <1>0, <1>5, <2>3, <2>5 DEF Apart
    <3>2. req[s].found \cap req[t].gone = {}
      BY <2>5 DEF FinishDelete, LockedBy
    <3>3. req[t].gone \subseteq grants /\ (req[t].found = {} \/ req[t].gone = {})
      BY <2>5 DEF IInv, RowsOf, Progress
    <3>4. Touched(t) = req[t].found \cup req[t].gone
      BY <2>5 DEF Touched
    <3>5. req[s].found \cap grants = {} \/ req[t].gone = {}
      BY <3>1, <3>2, <3>3, <3>4
    <3> QED
      BY <1>2, <1>3, <1>4, <1>5, <2>1, <2>2, <2>4, <3>1, <3>5 DEF Apart
  <2>6. CASE ~(IsAssignment(t) /\ req[t].role = req[s].role)
    BY <1>2, <1>3, <1>4, <1>5, <2>1, <2>2, <2>4, <2>6 DEF Apart
  <2> QED
    BY <2>5, <2>6
<1>9. nextId' \in nextId..(MaxGrants + 1)
    BY <1>2, ConstantsAssumption DEF IInv, TypeOK
<1> QED
    BY <1>1, <1>2, <1>6, <1>7, <1>8, <1>9, OwnStep

\* The least of the permissions left is one of them, and a permission.
LEMMA LeastLeft ==
    ASSUME IInv, NEW s \in Slots, req[s].left # {}, At(s, "exists") \/ At(s, "insert")
    PROVE  /\ req[s] \in Assignment /\ IsAssignment(s)
           /\ Min(req[s].left) \in req[s].left
           /\ Min(req[s].left) \in Permissions
<1>1. req[s] \in Assignment /\ IsAssignment(s)
    BY DEF IInv, TypeOK, At, IsAssignment, Idle, Refused, Assignment
<1>2. req[s].left \subseteq Nat
    BY <1>1, ConstantsAssumption DEF Assignment
<1>3. Min(req[s].left) \in req[s].left
    BY <1>2, MinIn
<1>4. req[s].left \subseteq Permissions
    BY <1>1 DEF IInv, Progress, At
<1> QED
    BY <1>1, <1>3, <1>4

LEMMA LookUpInv ==
    ASSUME IInv, NEW s \in Slots, LookUp(s)
    PROVE  IInv'
<1> DEFINE p == Min(req[s].left)
           r == IF Has(Visible(s), req[s].role, p)
                THEN [req[s] EXCEPT !.left = @ \ {p}]
                ELSE [req[s] EXCEPT !.pc = "insert"]
<1>0. /\ req[s] \in Assignment /\ req[s].pc = "exists" /\ IsAssignment(s)
      /\ p \in req[s].left /\ p \in Permissions
    BY LeastLeft DEF LookUp, At
<1>1. r \in Assignment
    BY <1>0 DEF Assignment
<1>2. req' = [req EXCEPT ![s] = r] /\ grants' = grants /\ nextId' = nextId
    BY DEF LookUp, Becomes
<1>3. req'[s] = r
    BY <1>2 DEF IInv, TypeOK
<1>4. /\ r.found = req[s].found /\ r.gone = req[s].gone /\ r.own = req[s].own
      /\ r.role = req[s].role /\ r.wanted = req[s].wanted /\ r.replace = req[s].replace
      /\ r.taken = req[s].taken
      /\ \/ r.pc = "exists" /\ r.left = req[s].left \ {p} /\ Has(Visible(s), req[s].role, p)
         \/ r.pc = "insert" /\ r.left = req[s].left
    BY <1>0 DEF Assignment
<1> HIDE DEF r, p
<1>5. IsAssignment(s)' /\ Touched(s)' = Touched(s) /\ Own(s)' = Own(s)
    BY <1>0, <1>3, <1>4 DEF Touched, Own, IsAssignment, Idle, Refused
<1>6. Visible(s)' = Visible(s)
    BY <1>2, <1>3, <1>4 DEF Visible
<1>7. Progress(s)'
    BY <1>0, <1>3, <1>4 DEF IInv, Progress
<1>8. Kept(s)'
    BY <1>0, <1>3, <1>4, <1>6 DEF IInv, Kept, At, Has
<1>9. RowsOf(s)'
    BY <1>0, <1>2, <1>3, <1>4, <1>5 DEF RowsOf, IInv
<1>10. ASSUME NEW t \in Slots \ {s} PROVE Apart(s, t)' /\ Apart(t, s)'
  <2>1. req'[t] = req[t]
    BY <1>2 DEF IInv, TypeOK
  <2>2. Touched(t)' = Touched(t) /\ Own(t)' = Own(t) /\ (IsAssignment(t)' <=> IsAssignment(t))
    BY <2>1 DEF Touched, Own, IsAssignment
  <2>3. Apart(s, t) /\ Apart(t, s)
    BY DEF IInv
  <2> QED
    BY <1>0, <1>2, <1>3, <1>4, <1>5, <2>1, <2>2, <2>3 DEF Apart
<1>11. nextId' \in nextId..(MaxGrants + 1)
    BY <1>2, ConstantsAssumption DEF IInv, TypeOK
<1> QED
    BY <1>1, <1>2, <1>7, <1>8, <1>9, <1>10, <1>11, OwnStep

\* The new row has an id of its own, so nobody has found it.
LEMMA InsertGrantInv ==
    ASSUME IInv, NEW s \in Slots, InsertGrant(s)
    PROVE  IInv'
<1> DEFINE p == Min(req[s].left)
           row == [id |-> nextId, role |-> req[s].role, permission |-> p]
           r == [req[s] EXCEPT !.pc = "exists", !.left = @ \ {p}, !.own = @ \cup {row}]
<1>0. /\ req[s] \in Assignment /\ req[s].pc = "insert" /\ IsAssignment(s)
      /\ p \in req[s].left /\ p \in Permissions
  <2>1. At(s, "insert") /\ req[s] \in Assignment /\ IsAssignment(s)
    BY DEF InsertGrant, At, IInv, TypeOK, IsAssignment, Idle, Refused, Assignment
  <2>2. req[s].left # {}
    BY <2>1 DEF IInv, Progress, At
  <2> QED
    BY <2>1, <2>2, LeastLeft DEF At
<1>1. nextId \in 1..MaxGrants /\ nextId' = nextId + 1 /\ MaxGrants \in Nat
    BY ConstantsAssumption DEF InsertGrant, IInv, TypeOK
<1>2. row \in Grant /\ row.id = nextId /\ row.role = req[s].role /\ row.permission = p
    BY <1>0, <1>1 DEF Grant, Assignment
<1>3. req' = [req EXCEPT ![s] = r] /\ grants' = grants
    BY DEF InsertGrant, Becomes
<1> HIDE DEF row, p
<1>4. r \in Assignment
    BY <1>0, <1>2 DEF Assignment
<1>5. req'[s] = r
    BY <1>3 DEF IInv, TypeOK
<1>6. /\ r.found = req[s].found /\ r.gone = req[s].gone /\ r.own = req[s].own \cup {row}
      /\ r.role = req[s].role /\ r.wanted = req[s].wanted /\ r.replace = req[s].replace
      /\ r.taken = req[s].taken /\ r.pc = "exists" /\ r.left = req[s].left \ {p}
    BY <1>0 DEF Assignment
<1> HIDE DEF r
<1>7. IsAssignment(s)' /\ Touched(s)' = Touched(s) /\ Own(s)' = Own(s) \cup {row}
    BY <1>0, <1>5, <1>6 DEF Touched, Own, IsAssignment, Idle, Refused
<1>8. Visible(s)' = Visible(s) \cup {row}
    BY <1>3, <1>5, <1>6 DEF Visible
<1>9. Progress(s)'
    BY <1>0, <1>5, <1>6 DEF IInv, Progress
<1>10. Kept(s)'
    BY <1>0, <1>2, <1>5, <1>6, <1>8 DEF IInv, Kept, At, Has
<1>11. ASSUME NEW t \in Slots PROVE row \notin Touched(t) \cup Own(t)
  <2>1. \A g \in Touched(t) \cup Own(t) : g.id < nextId
    BY DEF IInv, RowsOf, Touched, Own
  <2> QED
    BY <1>1, <1>2, <2>1
<1>12. row \notin grants
    BY <1>1, <1>2 DEF IInv
<1>13. RowsOf(s)'
  <2>1. \A g \in Touched(s) \cup Own(s) : g.id \in Nat
    BY DEF IInv, TypeOK, Touched, Own, IsAssignment, Assignment, Grant
  <2>2. \A g \in Touched(s) \cup Own(s) : g.role = req[s].role /\ g.id < nextId
    BY <1>0 DEF IInv, RowsOf
  <2> QED
    BY <1>0, <1>1, <1>2, <1>3, <1>5, <1>6, <1>7, <1>12, <2>1, <2>2 DEF RowsOf, IInv
<1>14. ASSUME NEW t \in Slots \ {s} PROVE Apart(s, t)' /\ Apart(t, s)'
  <2>1. req'[t] = req[t]
    BY <1>3 DEF IInv, TypeOK
  <2>2. Touched(t)' = Touched(t) /\ Own(t)' = Own(t) /\ (IsAssignment(t)' <=> IsAssignment(t))
    BY <2>1 DEF Touched, Own, IsAssignment
  <2>3. Apart(s, t) /\ Apart(t, s)
    BY DEF IInv
  <2> QED
    BY <1>0, <1>3, <1>5, <1>6, <1>7, <1>11, <2>1, <2>2, <2>3 DEF Apart
<1>15. nextId' \in nextId..(MaxGrants + 1)
    BY <1>1
<1> QED
    BY <1>3, <1>4, <1>9, <1>10, <1>13, <1>14, <1>15, OwnStep

-----------------------------------------------------------------------------
(* Steps that change the table                                             *)

\* When another one changes the table, all that changes of an assignment is what has been
\* taken from its role.
LEMMA TakenOnly ==
    ASSUME NEW r \in Assignment, NEW lost \in SUBSET Permissions
    PROVE  LET q == [r EXCEPT !.taken = @ \cup lost]
           IN  /\ q \in Assignment /\ q \notin {Idle, Refused}
               /\ q.pc = r.pc /\ q.role = r.role /\ q.wanted = r.wanted
               /\ q.replace = r.replace /\ q.found = r.found /\ q.gone = r.gone
               /\ q.own = r.own /\ q.left = r.left /\ q.taken = r.taken \cup lost
<1> DEFINE q == [r EXCEPT !.taken = @ \cup lost]
<1>1. q \in Assignment
    BY DEF Assignment
<1>2. q.pc = r.pc
    BY DEF Assignment
<1>3. q \notin {Idle, Refused}
    BY <1>2 DEF Assignment, Idle, Refused
<1> QED
    BY <1>1, <1>3 DEF Assignment

\* What a commit of s changes: the table becomes what s sees, s holds no rows any more,
\* and the others note what their role has lost.
LEMMA CommitStep ==
    ASSUME IInv, NEW s \in Slots, CommitAssignment(s)
    PROVE  /\ req[s] \in Assignment /\ IsAssignment(s) /\ req[s].pc = "exists"
           /\ req[s].left = {}
           /\ grants' = (grants \ req[s].gone) \cup req[s].own /\ nextId' = nextId
           /\ req' \in [Slots -> {Idle, Refused} \cup Assignment]
           /\ IsAssignment(s)' /\ req'[s].pc = "assigned" /\ Touched(s)' = {} /\ Own(s)' = {}
           /\ req'[s].wanted = req[s].wanted /\ req'[s].role = req[s].role
           /\ req'[s].left = req[s].left /\ req'[s].taken = req[s].taken
           /\ req'[s].found = {} /\ req'[s].gone = {} /\ req'[s].own = {}
           /\ \A t \in Slots \ {s} :
                /\ ~IsAssignment(t) => req'[t] = req[t]
                /\ IsAssignment(t) =>
                    LET lost == {p \in Permissions : /\ Has(grants, req[t].role, p)
                                                   /\ ~Has(grants', req[t].role, p)}
                    IN  req'[t] = [req[t] EXCEPT !.taken = @ \cup lost]
<1> DEFINE r == [req[s] EXCEPT !.pc = "assigned", !.gone = {}, !.own = {}]
           lost(role) == {p \in Permissions : Has(grants, role, p) /\ ~Has(Visible(s), role, p)}
<1>1. req[s] \in Assignment /\ IsAssignment(s) /\ req[s].pc = "exists" /\ req[s].left = {}
    BY DEF IInv, TypeOK, CommitAssignment, At, IsAssignment, Idle, Refused, Assignment
<1>2. /\ grants' = Visible(s) /\ nextId' = nextId
      /\ req' = [t \in Slots |->
            IF t = s THEN r
            ELSE IF IsAssignment(t) THEN [req[t] EXCEPT !.taken = @ \cup lost(req[t].role)]
            ELSE req[t]]
    BY DEF CommitAssignment, Commit
<1>3. /\ r \in Assignment /\ r.pc = "assigned" /\ r.gone = {} /\ r.own = {}
      /\ r.found = {} /\ r.role = req[s].role /\ r.wanted = req[s].wanted
      /\ r.left = req[s].left /\ r.taken = req[s].taken
    BY <1>1 DEF Assignment, IInv, Progress
<1> HIDE DEF r
<1>4. req'[s] = r
    BY <1>2
<1>5. ASSUME NEW t \in Slots \ {s}
      PROVE  /\ ~IsAssignment(t) => req'[t] = req[t]
             /\ IsAssignment(t) => req'[t] = [req[t] EXCEPT !.taken = @ \cup lost(req[t].role)]
    BY <1>2 DEF IsAssignment
<1>6. ASSUME NEW t \in Slots PROVE req'[t] \in {Idle, Refused} \cup Assignment
  <2>1. CASE t = s
    BY <1>3, <1>4, <2>1
  <2>2. CASE t # s /\ ~IsAssignment(t)
    BY <1>5, <2>2 DEF IInv, TypeOK
  <2>3. CASE t # s /\ IsAssignment(t)
    <3>1. req[t] \in Assignment /\ IsAssignment(t)
      BY <2>3 DEF IInv, TypeOK, IsAssignment
    <3>2. lost(req[t].role) \subseteq Permissions
      OBVIOUS
    <3>3. req'[t] = [req[t] EXCEPT !.taken = @ \cup lost(req[t].role)]
      BY <1>5, <2>3, <3>1
    <3> HIDE DEF lost
    <3>4. [req[t] EXCEPT !.taken = @ \cup lost(req[t].role)] \in Assignment
      BY <3>1, <3>2, TakenOnly
    <3> QED
      BY <3>3, <3>4
  <2> QED
    BY <2>1, <2>2, <2>3
<1>7. req' \in [Slots -> {Idle, Refused} \cup Assignment]
    BY <1>2, <1>6
<1>8. IsAssignment(s)' /\ Touched(s)' = {} /\ Own(s)' = {}
    BY <1>3, <1>4 DEF IsAssignment, Touched, Own, Idle, Refused
<1>9. grants' = (grants \ req[s].gone) \cup req[s].own
    BY <1>2 DEF Visible
<1>10. \A role : lost(role) = {p \in Permissions : Has(grants, role, p) /\ ~Has(grants', role, p)}
    BY <1>2
<1> HIDE DEF lost
<1> QED
    BY <1>1, <1>2, <1>3, <1>4, <1>5, <1>7, <1>8, <1>9, <1>10

\* The same of a removal, for which s is nobody: `gone` holds the row.
LEMMA RemoveStep ==
    ASSUME IInv, NEW g \in grants, RemoveAssignment(g)
    PROVE  /\ grants' = grants \ {g} /\ nextId' = nextId /\ g \in Grant
           /\ req' \in [Slots -> {Idle, Refused} \cup Assignment]
           /\ \A t \in Slots :
                /\ ~IsAssignment(t) => req'[t] = req[t]
                /\ IsAssignment(t) =>
                    LET lost == IF g.role = req[t].role THEN {g.permission} ELSE {}
                    IN  /\ g \notin req[t].gone
                        /\ req'[t] = [req[t] EXCEPT !.taken = @ \cup lost]
<1>1. /\ grants' = grants \ {g} /\ nextId' = nextId /\ g \in Grant
      /\ req' = [t \in Slots |->
            IF IsAssignment(t) /\ g.role = req[t].role
            THEN [req[t] EXCEPT !.taken = @ \cup {g.permission}]
            ELSE req[t]]
    BY DEF RemoveAssignment, IInv, TypeOK
<1>2. g.permission \in Permissions
    BY <1>1 DEF Grant
<1>3. ASSUME NEW t \in Slots
      PROVE  /\ req'[t] \in {Idle, Refused} \cup Assignment
             /\ ~IsAssignment(t) => req'[t] = req[t]
             /\ IsAssignment(t) =>
                 LET lost == IF g.role = req[t].role THEN {g.permission} ELSE {}
                 IN  /\ g \notin req[t].gone
                     /\ req'[t] = [req[t] EXCEPT !.taken = @ \cup lost]
  <2>1. CASE ~IsAssignment(t)
    BY <1>1, <2>1 DEF IInv, TypeOK
  <2>2. CASE IsAssignment(t)
    <3>1. req[t] \in Assignment /\ IsAssignment(t)
      BY <2>2 DEF IInv, TypeOK, IsAssignment
    <3>2. g \notin req[t].gone
      BY <3>1 DEF RemoveAssignment, LockedBy
    <3>3. CASE g.role = req[t].role
      BY <1>1, <1>2, <2>2, <3>1, <3>2, <3>3, TakenOnly
    <3>4. CASE g.role # req[t].role
      <4>1. req'[t] = req[t]
        BY <1>1, <3>4
      <4>2. req[t] = [req[t] EXCEPT !.taken = @ \cup {}]
        BY <3>1 DEF Assignment
      <4> QED
        BY <2>2, <3>1, <3>2, <3>4, <4>1, <4>2
    <3> QED
      BY <3>3, <3>4
  <2> QED
    BY <2>1, <2>2
<1> QED
    BY <1>1, <1>3

\* What has to be known of another one's change of the table to see that an assignment
\* keeps its invariants: its rows are not touched, and what it no longer sees is noted.
LEMMA OtherKept ==
    ASSUME IInv, NEW t \in Slots, IsAssignment(t),
           NEW lost \in SUBSET Permissions,
           req'[t] = [req[t] EXCEPT !.taken = @ \cup lost],
           nextId' = nextId,
           req[t].gone \subseteq grants', req[t].own \cap grants' = {},
           \A p \in Permissions :
               Has(grants, req[t].role, p) /\ ~Has(grants', req[t].role, p) => p \in lost,
           \A p \in Permissions :
               Has(Visible(t), req[t].role, p)
               /\ ~Has((grants' \ req[t].gone) \cup req[t].own, req[t].role, p) => p \in lost
    PROVE  /\ IsAssignment(t)' /\ req'[t].role = req[t].role /\ req'[t].gone = req[t].gone
           /\ Touched(t)' = Touched(t) /\ Own(t)' = Own(t)
           /\ Progress(t)' /\ RowsOf(t)' /\ Kept(t)'
<1>0. req[t] \in Assignment
    BY DEF IInv, TypeOK, IsAssignment
<1>1. /\ req'[t] \notin {Idle, Refused}
      /\ req'[t].pc = req[t].pc /\ req'[t].role = req[t].role
      /\ req'[t].wanted = req[t].wanted /\ req'[t].replace = req[t].replace
      /\ req'[t].found = req[t].found /\ req'[t].gone = req[t].gone
      /\ req'[t].own = req[t].own /\ req'[t].left = req[t].left
      /\ req'[t].taken = req[t].taken \cup lost
    BY <1>0, TakenOnly
<1>2. IsAssignment(t)' /\ Touched(t)' = Touched(t) /\ Own(t)' = Own(t)
    BY <1>1 DEF IsAssignment, Touched, Own
<1>3. Progress(t)'
    BY <1>1, <1>2 DEF IInv, Progress
<1>4. RowsOf(t)'
    BY <1>1, <1>2 DEF IInv, RowsOf
<1>5. Visible(t)' = (grants' \ req[t].gone) \cup req[t].own
    BY <1>1 DEF Visible
<1>6. Kept(t)'
  <2>1. CASE At(t, "exists") \/ At(t, "insert")
    <3>1. req[t].wanted \subseteq Permissions
      BY <2>1 DEF IInv, Progress, At
    <3>2. ASSUME NEW p \in req[t].wanted \ req[t].left
          PROVE  Has(Visible(t), req[t].role, p)' \/ p \in req'[t].taken
      <4>1. Has(Visible(t), req[t].role, p) \/ p \in req[t].taken
        BY <2>1 DEF IInv, Kept
      <4> QED
        BY <1>1, <1>5, <3>1, <4>1 DEF Has
    <3>3. req'[t].pc # "assigned"
      BY <1>1, <2>1 DEF At
    <3> QED
      BY <1>1, <3>2, <3>3 DEF Kept, At
  <2>2. CASE At(t, "assigned")
    <3>1. req[t].wanted \subseteq Permissions
      BY <2>2 DEF IInv, Progress, At
    <3>2. \A p \in req[t].wanted : Has(grants, req[t].role, p) \/ p \in req[t].taken
      BY <2>2 DEF IInv, Kept
    <3> QED
      BY <1>1, <2>2, <3>1, <3>2 DEF Kept, At, Has
  <2>3. CASE ~(At(t, "exists") \/ At(t, "insert") \/ At(t, "assigned"))
    BY <1>1, <2>3 DEF Kept, At
  <2> QED
    BY <2>1, <2>2, <2>3
<1> QED
    BY <1>1, <1>2, <1>3, <1>4, <1>6

LEMMA CommitInv ==
    ASSUME IInv, NEW s \in Slots, CommitAssignment(s)
    PROVE  IInv'
<1> DEFINE lost(role) == {p \in Permissions : Has(grants, role, p) /\ ~Has(grants', role, p)}
<1>1. /\ req[s] \in Assignment /\ IsAssignment(s) /\ req[s].pc = "exists"
      /\ req[s].left = {}
      /\ grants' = (grants \ req[s].gone) \cup req[s].own /\ nextId' = nextId
      /\ req' \in [Slots -> {Idle, Refused} \cup Assignment]
      /\ IsAssignment(s)' /\ req'[s].pc = "assigned" /\ Touched(s)' = {} /\ Own(s)' = {}
      /\ req'[s].wanted = req[s].wanted /\ req'[s].role = req[s].role
      /\ req'[s].left = req[s].left /\ req'[s].taken = req[s].taken
      /\ req'[s].found = {} /\ req'[s].gone = {} /\ req'[s].own = {}
    BY CommitStep
<1>2. ASSUME NEW t \in Slots \ {s}
      PROVE  /\ ~IsAssignment(t) => req'[t] = req[t]
             /\ IsAssignment(t) => req'[t] = [req[t] EXCEPT !.taken = @ \cup lost(req[t].role)]
    BY CommitStep
<1>3. /\ \A g \in req[s].gone \cup req[s].own : g.role = req[s].role /\ g.id < nextId
      /\ Touched(s) \cup Own(s) \subseteq req[s].found \cup req[s].gone \cup req[s].own
      /\ Own(s) = req[s].own /\ req[s].gone \subseteq Touched(s)
    BY <1>1 DEF IInv, RowsOf, Touched, Own
<1>4. TypeOK'
    BY <1>1, ConstantsAssumption DEF IInv, TypeOK, Assignment
<1>5. \A g \in grants' : g.id < nextId'
    BY <1>1, <1>3 DEF IInv
<1>6. Progress(s)' /\ RowsOf(s)'
    BY <1>1 DEF IInv, Progress, RowsOf
<1>7. Kept(s)'
  <2>1. grants' = Visible(s)
    BY <1>1 DEF Visible
  <2>2. \A p \in req[s].wanted : Has(Visible(s), req[s].role, p) \/ p \in req[s].taken
    BY <1>1 DEF IInv, Kept, At
  <2> QED
    BY <1>1, <2>1, <2>2 DEF Kept, At, Has
<1>8. ASSUME NEW t \in Slots \ {s}, IsAssignment(t)
      PROVE  /\ IsAssignment(t)' /\ req'[t].role = req[t].role /\ req'[t].gone = req[t].gone
             /\ Touched(t)' = Touched(t) /\ Own(t)' = Own(t)
             /\ Progress(t)' /\ RowsOf(t)' /\ Kept(t)'
  <2>1. /\ lost(req[t].role) \in SUBSET Permissions
        /\ req'[t] = [req[t] EXCEPT !.taken = @ \cup lost(req[t].role)]
    BY <1>2, <1>8
  <2>2. Apart(s, t) /\ Apart(t, s)
    BY DEF IInv
  <2>3. /\ Touched(t) = req[t].found \cup req[t].gone /\ Own(t) = req[t].own
        /\ \A g \in req[t].gone \cup req[t].own : g.role = req[t].role
        /\ req[t].gone \subseteq grants /\ req[t].own \cap grants = {}
    BY <1>8 DEF IInv, RowsOf, Touched, Own
  <2>4. req[t].role = req[s].role => req[s].gone = {} \/ req[t].gone = {}
    BY <1>1, <1>8, <2>2 DEF Apart
  <2>5. req[t].gone \subseteq grants'
    BY <1>1, <1>3, <2>3, <2>4
  <2>6. req[t].own \cap grants' = {}
    BY <1>1, <1>3, <2>2, <2>3 DEF Apart
  <2>7. \A p \in Permissions :
            Has(grants, req[t].role, p) /\ ~Has(grants', req[t].role, p)
                => p \in lost(req[t].role)
    OBVIOUS
  <2>8. ASSUME NEW p \in Permissions, Has(Visible(t), req[t].role, p),
               ~Has((grants' \ req[t].gone) \cup req[t].own, req[t].role, p)
        PROVE  p \in lost(req[t].role)
    <3>1. PICK g \in Visible(t) : g.role = req[t].role /\ g.permission = p
      BY <2>8 DEF Has
    <3>2. g \in grants \ req[t].gone /\ g \notin grants'
      BY <2>8, <3>1 DEF Has, Visible
    <3>3. g \in req[s].gone
      BY <1>1, <3>2
    <3>4. req[t].gone = {}
      BY <1>3, <2>4, <3>1, <3>3
    <3> QED
      BY <2>8, <3>1, <3>2, <3>4 DEF Has
  <2> HIDE DEF lost
  <2> QED
    BY <1>1, <1>8, <2>1, <2>5, <2>6, <2>7, <2>8, OtherKept
<1>9. ASSUME NEW t \in Slots \ {s}, ~IsAssignment(t)
      PROVE  /\ ~IsAssignment(t)' /\ Touched(t)' = {} /\ Own(t)' = {}
             /\ Touched(t) = {} /\ Own(t) = {}
             /\ Progress(t)' /\ RowsOf(t)' /\ Kept(t)'
  <2>1. req'[t] = req[t] /\ req[t] \in {Idle, Refused}
    BY <1>2, <1>9 DEF IsAssignment
  <2> QED
    BY <1>9, <2>1 DEF IsAssignment, Touched, Own, Progress, RowsOf, Kept, At, Idle, Refused
<1>10. ASSUME NEW t \in Slots \ {s}
       PROVE  /\ Touched(t)' = Touched(t) /\ Own(t)' = Own(t)
              /\ (IsAssignment(t)' <=> IsAssignment(t))
              /\ IsAssignment(t) => req'[t].role = req[t].role /\ req'[t].gone = req[t].gone
              /\ Progress(t)' /\ RowsOf(t)' /\ Kept(t)'
  <2>1. CASE IsAssignment(t)
    BY <1>8, <2>1
  <2>2. CASE ~IsAssignment(t)
    BY <1>9, <2>2
  <2> QED
    BY <2>1, <2>2
<1> HIDE DEF lost
<1>11. ASSUME NEW t \in Slots, NEW u \in Slots, t # u PROVE Apart(t, u)'
  <2>1. CASE t = s \/ u = s
    BY <1>1, <2>1 DEF Apart
  <2>2. CASE t # s /\ u # s
    <3>1. Apart(t, u) /\ Apart(s, t) /\ Apart(s, u)
      BY <1>11, <2>2 DEF IInv
    <3>2. Own(s) \cap (Touched(t) \cup Touched(u)) = {}
      BY <3>1 DEF Apart
    <3>3. (Touched(t) \cap grants \subseteq Touched(u) => Touched(t) \cap grants' \subseteq Touched(u))
          /\ (Touched(u) \cap grants \subseteq Touched(t) => Touched(u) \cap grants' \subseteq Touched(t))
      BY <1>1, <1>3, <3>2
    <3> QED
      BY <1>10, <2>2, <3>1, <3>3 DEF Apart
  <2> QED
    BY <2>1, <2>2
<1> QED
    BY <1>4, <1>5, <1>6, <1>7, <1>10, <1>11 DEF IInv

LEMMA RemoveInv ==
    ASSUME IInv, NEW g \in grants, RemoveAssignment(g)
    PROVE  IInv'
<1> DEFINE lost(role) == IF g.role = role THEN {g.permission} ELSE {}
<1>1. /\ grants' = grants \ {g} /\ nextId' = nextId /\ g \in Grant
      /\ req' \in [Slots -> {Idle, Refused} \cup Assignment]
    BY RemoveStep
<1>2. ASSUME NEW t \in Slots
      PROVE  /\ ~IsAssignment(t) => req'[t] = req[t]
             /\ IsAssignment(t) =>
                    /\ g \notin req[t].gone
                    /\ req'[t] = [req[t] EXCEPT !.taken = @ \cup lost(req[t].role)]
    BY RemoveStep
<1>3. TypeOK'
    BY <1>1, ConstantsAssumption DEF IInv, TypeOK
<1>4. \A h \in grants' : h.id < nextId'
    BY <1>1 DEF IInv
<1>5. ASSUME NEW t \in Slots, IsAssignment(t)
      PROVE  /\ IsAssignment(t)' /\ req'[t].role = req[t].role /\ req'[t].gone = req[t].gone
             /\ Touched(t)' = Touched(t) /\ Own(t)' = Own(t)
             /\ Progress(t)' /\ RowsOf(t)' /\ Kept(t)'
  <2>1. /\ lost(req[t].role) \in SUBSET Permissions
        /\ req'[t] = [req[t] EXCEPT !.taken = @ \cup lost(req[t].role)]
        /\ g \notin req[t].gone
    BY <1>1, <1>2, <1>5 DEF Grant
  <2>2. req[t].gone \subseteq grants' /\ req[t].own \cap grants' = {}
    BY <1>1, <1>5, <2>1 DEF IInv, RowsOf
  <2>3. \A p \in Permissions :
            Has(grants, req[t].role, p) /\ ~Has(grants', req[t].role, p)
                => p \in lost(req[t].role)
    BY <1>1 DEF Has
  <2>4. \A p \in Permissions :
            Has(Visible(t), req[t].role, p)
            /\ ~Has((grants' \ req[t].gone) \cup req[t].own, req[t].role, p)
                => p \in lost(req[t].role)
    BY <1>1 DEF Has, Visible
  <2> HIDE DEF lost
  <2> QED
    BY <1>1, <1>5, <2>1, <2>2, <2>3, <2>4, OtherKept
<1>6. ASSUME NEW t \in Slots, ~IsAssignment(t)
      PROVE  /\ ~IsAssignment(t)' /\ Touched(t)' = {} /\ Own(t)' = {}
             /\ Touched(t) = {} /\ Own(t) = {}
             /\ Progress(t)' /\ RowsOf(t)' /\ Kept(t)'
  <2>1. req'[t] = req[t] /\ req[t] \in {Idle, Refused}
    BY <1>2, <1>6 DEF IsAssignment
  <2> QED
    BY <1>6, <2>1 DEF IsAssignment, Touched, Own, Progress, RowsOf, Kept, At, Idle, Refused
<1>7. ASSUME NEW t \in Slots
      PROVE  /\ Touched(t)' = Touched(t) /\ Own(t)' = Own(t)
             /\ (IsAssignment(t)' <=> IsAssignment(t))
             /\ IsAssignment(t) => req'[t].role = req[t].role /\ req'[t].gone = req[t].gone
             /\ Progress(t)' /\ RowsOf(t)' /\ Kept(t)'
  <2>1. CASE IsAssignment(t)
    BY <1>5, <2>1
  <2>2. CASE ~IsAssignment(t)
    BY <1>6, <2>2
  <2> QED
    BY <2>1, <2>2
<1> HIDE DEF lost
<1>8. ASSUME NEW t \in Slots, NEW u \in Slots, t # u PROVE Apart(t, u)'
  <2>1. Apart(t, u)
    BY <1>8 DEF IInv
  <2> QED
    BY <1>1, <1>7, <2>1 DEF Apart
<1> QED
    BY <1>3, <1>4, <1>7, <1>8 DEF IInv

LEMMA CrashInv == IInv /\ Crash => IInv'
<1> SUFFICES ASSUME IInv, Crash PROVE IInv'
    OBVIOUS
<1>1. /\ req' = [s \in Slots |-> Idle] /\ grants' = grants /\ nextId' = nextId
    BY DEF Crash
<1>2. \A s \in Slots : Touched(s)' = {} /\ Own(s)' = {} /\ ~IsAssignment(s)'
    BY <1>1 DEF Touched, Own, IsAssignment
<1>3. \A s \in Slots : Progress(s)' /\ RowsOf(s)' /\ Kept(s)'
    BY <1>1, <1>2 DEF Progress, RowsOf, Kept, At, Idle, Refused
<1> QED
    BY <1>1, <1>2, <1>3 DEF IInv, TypeOK, Apart

LEMMA InvStep == IInv /\ [Next]_vars => IInv'
<1> SUFFICES ASSUME IInv, [Next]_vars PROVE IInv'
    OBVIOUS
<1>1. ASSUME NEW s \in Slots, Request(s) PROVE IInv'
    BY <1>1, AssignPermissionsInv DEF Request
<1>2. ASSUME NEW s \in Slots, Step(s) PROVE IInv'
    BY <1>2, StartDeleteInv, FinishDeleteInv, LookUpInv, InsertGrantInv, CommitInv,
       RollBackInv, RespondInv
    DEF Step
<1>3. ASSUME NEW g \in grants, RemoveAssignment(g) PROVE IInv'
    BY <1>3, RemoveInv
<1>4. CASE UNCHANGED vars
    BY <1>4 DEF vars, IInv, TypeOK, Progress, RowsOf, Kept, Apart, Touched, Own, IsAssignment,
                At, Has, Visible
<1> QED
    BY <1>1, <1>2, <1>3, <1>4, CrashInv DEF Next

-----------------------------------------------------------------------------
\* The inductive invariant holds in every reachable state.
THEOREM InvariantHolds == Spec => []IInv
BY InvInit, InvStep, PTL DEF Spec

\* Every variable keeps its type: no request inserts a row for a permission or with an id
\* that does not exist.
THEOREM TypeCorrect == Spec => []TypeOK
BY InvariantHolds, PTL DEF IInv

\* However many assignments, replacements and removals overlap, one that reports success
\* has left the role every permission it asked for that nobody has taken since.
THEOREM SuccessMeansHeld == Spec => []AssignedMeansHeld
<1>1. IInv => AssignedMeansHeld
    BY DEF IInv, Kept, AssignedMeansHeld
<1> QED
    BY <1>1, InvariantHolds, PTL

\* A role never lacks a permission that it had and that a replacement keeps.
THEOREM SharedKept == Spec => ReplaceKeepsShared
<1> DEFINE A == \A role \in Roles, p \in Permissions :
              Has(grants, role, p) /\ ~Has(grants', role, p) =>
                  \/ \E s \in Slots :
                         /\ At(s, "exists") /\ req'[s].pc = "assigned"
                         /\ req[s].replace /\ (p \in req[s].wanted => p \in req[s].taken)
                  \/ \A s \in Slots : req'[s].pc = req[s].pc
<1>1. ASSUME IInv, [Next]_vars PROVE A
  <2>1. ASSUME NEW s \in Slots, CommitAssignment(s) PROVE A
    <3>1. /\ req[s] \in Assignment /\ IsAssignment(s) /\ req[s].pc = "exists"
          /\ req[s].left = {}
          /\ grants' = (grants \ req[s].gone) \cup req[s].own /\ req'[s].pc = "assigned"
      BY <1>1, <2>1, CommitStep
    <3>2. /\ \A g \in req[s].gone : g.role = req[s].role
          /\ ~req[s].replace => req[s].gone = {}
          /\ req[s].replace \in BOOLEAN
      BY <1>1, <3>1 DEF IInv, RowsOf, Progress, Touched, Assignment
    <3>3. \A p \in req[s].wanted : Has(grants', req[s].role, p) \/ p \in req[s].taken
      BY <1>1, <3>1 DEF IInv, Kept, At, Visible, Has
    <3>4. ASSUME NEW role \in Roles, NEW p \in Permissions,
                 Has(grants, role, p), ~Has(grants', role, p)
          PROVE  /\ At(s, "exists") /\ req'[s].pc = "assigned"
                 /\ req[s].replace /\ (p \in req[s].wanted => p \in req[s].taken)
      <4>1. PICK g \in req[s].gone : g.role = role
        BY <3>1, <3>4 DEF Has
      <4>2. role = req[s].role /\ req[s].replace
        BY <3>2, <4>1
      <4> QED
        BY <3>1, <3>3, <3>4, <4>2 DEF At
    <3> QED
      BY <3>4
  <2>2. ASSUME NEW g \in grants, RemoveAssignment(g) PROVE A
    <3>1. ASSUME NEW s \in Slots PROVE req'[s].pc = req[s].pc
      <4>1. CASE ~IsAssignment(s)
        BY <1>1, <2>2, <4>1, RemoveStep
      <4>2. CASE IsAssignment(s)
        <5>1. req[s] \in Assignment /\ IsAssignment(s)
          BY <1>1, <4>2 DEF IInv, TypeOK, IsAssignment
        <5>2. g.permission \in Permissions
          BY <1>1 DEF IInv, TypeOK, Grant
        <5> DEFINE lost == IF g.role = req[s].role THEN {g.permission} ELSE {}
        <5>3. req'[s] = [req[s] EXCEPT !.taken = @ \cup lost]
          BY <1>1, <2>2, <5>1, RemoveStep
        <5>4. lost \in SUBSET Permissions
          BY <5>2
        <5> HIDE DEF lost
        <5> QED
          BY <5>1, <5>3, <5>4, TakenOnly
      <4> QED
        BY <4>1, <4>2
    <3> QED
      BY <3>1
  <2>3. CASE grants' = grants
    BY <2>3
  <2>4. ASSUME NEW s \in Slots, Request(s) \/ Step(s) PROVE A
    BY <2>1, <2>3, <2>4 DEF Request, Step, AssignPermissions, StartDelete, FinishDelete, LookUp,
                            InsertGrant, RollBack, Respond
  <2> QED
    BY <1>1, <2>2, <2>3, <2>4 DEF Next, Crash, vars
<1>2. IInv /\ [Next]_vars => [A]_vars
    BY <1>1
<1> QED
    BY <1>2, InvariantHolds, PTL DEF Spec, ReplaceKeepsShared
=============================================================================
