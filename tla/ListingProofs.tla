---------------------------- MODULE ListingProofs ----------------------------
(* Theorems about Listing and the admission of its requests, for any sets of  *)
(* requests, tenants and connections, any finite table, any endpoints and any *)
(* width of the offset.                                                       *)
EXTENDS Listing, FiniteSetTheorems, SequenceTheorems, TLAPS

-----------------------------------------------------------------------------
(* What the operators of a page return.                                       *)

\* The conversion of an offset yields an integer, and a limit is a positive one.
LEMMA OffsetsAreIntegers ==
    ASSUME NEW a \in [page : Int, limit : Int, walk : BOOLEAN]
    PROVE  /\ Offset(a) \in Int /\ LimitOf(a) \in Nat
           /\ (PageOf(a) - 1) * LimitOf(a) \in Nat
           /\ (PageOf(a) - 1) * LimitOf(a) < Half => Offset(a) = (PageOf(a) - 1) * LimitOf(a)
<1> DEFINE x == (PageOf(a) - 1) * LimitOf(a)
<1>1. LimitOf(a) \in Nat
  BY LimitAssumption DEF LimitOf
<1>2. PageOf(a) - 1 \in Nat
  BY DEF PageOf
<1>3. x \in Nat
  <2> \A m, n \in Nat : m * n \in Nat
    OBVIOUS
  <2> QED
    BY <1>1, <1>2
<1> HIDE DEF x
<1>4. 2 * Half \in Nat \ {0} /\ Half \in Nat
  BY LimitAssumption
<1>5. /\ (x + Half) % (2 * Half) \in Int
      /\ x < Half => (x + Half) % (2 * Half) = x + Half
  <2> DEFINE w == 2 * Half
  <2>1. w \in Nat \ {0} /\ w = Half + Half
    BY <1>4
  <2> HIDE DEF w
  <2>2. (x + Half) % w \in Int /\ (x < Half => (x + Half) % w = x + Half)
    BY <1>3, <1>4, <2>1
  <2> QED
    BY <2>2 DEF w
<1>6. Offset(a) = ((x + Half) % (2 * Half)) - Half
  BY DEF Offset, Narrow, x
<1>7. Offset(a) \in Int /\ (x < Half => Offset(a) = x)
  BY <1>3, <1>4, <1>5, <1>6
<1> QED
  BY <1>1, <1>3, <1>7 DEF x

\* A window of an order of a finite set is a sequence of its elements.
LEMMA WindowsAreSequences ==
    ASSUME NEW S, IsFiniteSet(S), NEW s \in Orders(S), NEW o \in Nat, NEW l \in Nat
    PROVE  /\ Window(s, o, l) \in Seq(S)
           /\ Window(s, o, l) # <<>> =>
                 Len(Window(s, o, l)) > 0 /\ o + Len(Window(s, o, l)) <= Cardinality(S)
<1>1. Cardinality(S) \in Nat
  BY FS_CardinalityType
<1>2. s \in [1 .. Cardinality(S) -> S]
  BY DEF Orders, SetToSeqs
<1>3. s \in Seq(S) /\ Len(s) \in Nat /\ Len(s) = Cardinality(S)
  BY <1>1, <1>2
<1> DEFINE n == IF o + l < Len(s) THEN o + l ELSE Len(s)
<1>4. n \in Int /\ n <= Len(s)
  BY <1>3
<1> HIDE DEF n
<1>5. \A i \in o + 1 .. n : s[i] \in S
  BY <1>3, <1>4, ElementOfSeq
<1>6. /\ SubSeq(s, o + 1, n) \in Seq(S)
      /\ Len(SubSeq(s, o + 1, n)) = IF o + 1 <= n THEN n - (o + 1) + 1 ELSE 0
  BY <1>4, <1>5, SubSeqProperties
<1>7. n < o + 1 => SubSeq(s, o + 1, n) = <<>>
  BY <1>4, SubSeqEmpty
<1>8. Window(s, o, l) = SubSeq(s, o + 1, n)
  BY DEF Window, n
<1> QED
  BY <1>3, <1>4, <1>6, <1>7, <1>8

LEMMA RangeOfSequence ==
    ASSUME NEW S, NEW s \in Seq(S)
    PROVE  Range(s) \subseteq S
BY ElementOfSeq, LenProperties DEF Range

\* A statement reads no more than its WHERE clause lets through, all of it rows of
\* the table, and the policies hide some more.
LEMMA ReadableRows ==
    ASSUME NEW r, NEW c, NEW S, S \subseteq table, table \subseteq Row
    PROVE  /\ Readable(r, c, S) \subseteq S
           /\ IsFiniteSet(Readable(r, c, S))
           /\ Cardinality(Readable(r, c, S)) \in Nat
<1>1. Readable(r, c, S) \subseteq S
  BY DEF Readable
<1>2. Readable(r, c, S) \in SUBSET Row
  BY <1>1
<1>3. IsFiniteSet(Readable(r, c, S))
  BY <1>2, RowAssumption, FS_Subset
<1> QED
  BY <1>1, <1>3, FS_CardinalityType

-----------------------------------------------------------------------------
(* Types.                                                                     *)

\* What a SELECT answers with, and out of how many rows.
LEMMA SelectedRows ==
    ASSUME TypeOK, NEW r \in Request, Select(r)
    PROVE  \E c \in Conn : \E s \in Orders(Readable(r, c, Selected(r))) :
             LET found == Readable(r, c, Selected(r))
                 offset == IF endpoint[r].offset THEN Offset(ask[r]) ELSE 0
             IN  /\ found \subseteq Selected(r) /\ IsFiniteSet(found)
                 /\ offset \in Nat /\ LimitOf(ask[r]) \in Nat
                 /\ Window(s, offset, LimitOf(ask[r])) \in Seq(found)
                 /\ Window(s, offset, LimitOf(ask[r])) # <<>> =>
                       /\ Len(Window(s, offset, LimitOf(ask[r]))) > 0
                       /\ offset + Len(Window(s, offset, LimitOf(ask[r]))) <= Cardinality(found)
                 /\ rows' = [rows EXCEPT ![r] = Window(s, offset, LimitOf(ask[r]))]
                 /\ size' = [size EXCEPT ![r] = Cardinality(found)]
                 /\ Cardinality(found) \in Nat
                 /\ ~PolicyFails(r, c)
<1> DEFINE found(c) == Readable(r, c, Selected(r))
           offset == IF endpoint[r].offset THEN Offset(ask[r]) ELSE 0
<1>1. PICK c \in Conn :
        /\ ~PolicyFails(r, c) /\ offset >= 0
        /\ \E s \in Orders(found(c)) :
              rows' = [rows EXCEPT ![r] = Window(s, offset, LimitOf(ask[r]))]
        /\ size' = [size EXCEPT ![r] = Cardinality(found(c))]
  BY DEF Select
<1>2. PICK s \in Orders(found(c)) :
        rows' = [rows EXCEPT ![r] = Window(s, offset, LimitOf(ask[r]))]
  BY <1>1
<1>3. Selected(r) \subseteq table /\ table \subseteq Row
  BY DEF TypeOK, Selected
<1>4. found(c) \subseteq Selected(r) /\ IsFiniteSet(found(c)) /\ Cardinality(found(c)) \in Nat
  BY <1>3, ReadableRows
<1>5. ask[r] \in [page : Int, limit : Int, walk : BOOLEAN]
  BY DEF TypeOK
<1>6. offset \in Nat /\ LimitOf(ask[r]) \in Nat
  BY <1>1, <1>5, OffsetsAreIntegers
<1>7. /\ Window(s, offset, LimitOf(ask[r])) \in Seq(found(c))
      /\ Window(s, offset, LimitOf(ask[r])) # <<>> =>
            /\ Len(Window(s, offset, LimitOf(ask[r]))) > 0
            /\ offset + Len(Window(s, offset, LimitOf(ask[r]))) <= Cardinality(found(c))
  BY <1>2, <1>4, <1>6, WindowsAreSequences
<1> QED
  BY <1>1, <1>2, <1>4, <1>6, <1>7

LEMMA AdmissionTypes ==
    ASSUME AdmissionTypeOK, NEW r \in Request, AdmissionStep(r)
    PROVE  AdmissionTypeOK'
<1> USE DEF AdmissionTypeOK, Stages
<1>1. CASE Arrive(r)
  BY <1>1 DEF Arrive
<1>2. CASE StartFetch(r)
  BY <1>2 DEF StartFetch
<1>3. CASE EndFetch(r)
  BY <1>3 DEF EndFetch
<1>4. CASE KeysUnavailable(r)
  BY <1>4 DEF KeysUnavailable, Answer
<1>5. CASE Unauthorized(r)
  BY <1>5 DEF Unauthorized, Answer
<1>6. CASE Authorized(r)
  <2>1. cred[r].tenant \in Tenant \union {NoTenant}
    BY CredentialAssumption
  <2> QED
    BY <1>6, <2>1 DEF Authorized
<1>7. CASE SetTenant(r)
  <2>1. UNCHANGED setting \/ \E t : SetConfig(t)
    BY <1>7 DEF SetTenant
  <2>2. setting' \in [Conn -> Tenant \union {Unset, Blank}]
    BY <2>1 DEF SetConfig, SettingAfter
  <2> QED
    BY <1>7, <2>2 DEF SetTenant, Answer
<1> QED
  BY <1>1, <1>2, <1>3, <1>4, <1>5, <1>6, <1>7 DEF AdmissionStep

LEMMA TypeInit == Init => TypeOK
BY AskAssumption DEF Init, AdmissionInit, TypeOK, AdmissionTypeOK, Stages

\* The tenant that a statement sets never stays on its connection.
LEMMA SettingsType ==
    ASSUME setting \in [Conn -> Tenant \union {Unset, Blank}], NEW t, SetConfig(t)
    PROVE  setting' \in [Conn -> Tenant \union {Unset, Blank}]
BY DEF SetConfig, SettingAfter

\* A step of the listing leaves the admission of its request in its types.
LEMMA ListingStepTypes ==
    ASSUME AdmissionTypeOK, NEW r \in Request, ListStep(r) \/ NextPage(r)
    PROVE  AdmissionTypeOK'
<1>1. CASE SetTenantContext(r)
  <2>1. UNCHANGED setting \/ SetConfig(user[r])
    BY <1>1 DEF SetTenantContext
  <2>2. setting' \in [Conn -> Tenant \union {Unset, Blank}]
    BY <2>1, SettingsType DEF AdmissionTypeOK
  <2>3. pc' \in [Request -> Stages] /\ code' \in [Request -> {0, 200, 401, 500, 503}]
    BY <1>1 DEF SetTenantContext, Answer, Stages, AdmissionTypeOK
  <2> QED
    BY <1>1, <2>2, <2>3 DEF SetTenantContext, AdmissionTypeOK
<1>2. CASE Select(r)
  <2>1. \/ pc' = [pc EXCEPT ![r] = "done"] /\ code' = [code EXCEPT ![r] = 200]
        \/ pc' = [pc EXCEPT ![r] = "count"] /\ UNCHANGED code
    BY <1>2 DEF Select, Answer
  <2>2. UNCHANGED <<once, jwks, life, verdicts, setting, role, cred, user>>
    BY <1>2 DEF Select
  <2> QED
    BY <2>1, <2>2 DEF AdmissionTypeOK, Stages
<1>3. CASE Count(r)
  <2>1. pc' = [pc EXCEPT ![r] = "done"] /\ code' = [code EXCEPT ![r] = 200]
    BY <1>3 DEF Count, Answer
  <2>2. UNCHANGED <<once, jwks, life, verdicts, setting, role, cred, user>>
    BY <1>3 DEF Count
  <2> QED
    BY <2>1, <2>2 DEF AdmissionTypeOK, Stages
<1>4. CASE StatementFails(r)
  <2>1. /\ pc' = [pc EXCEPT ![r] = "done"]
        /\ \/ code' = [code EXCEPT ![r] = 200]
           \/ code' = [code EXCEPT ![r] = 500]
    BY <1>4 DEF StatementFails, Answer
  <2>2. UNCHANGED <<once, jwks, life, verdicts, setting, role, cred, user>>
    BY <1>4 DEF StatementFails
  <2> QED
    BY <2>1, <2>2 DEF AdmissionTypeOK, Stages
<1>5. CASE NextPage(r)
  <2>1. /\ pc' = [pc EXCEPT ![r] = "idle"] /\ code' = [code EXCEPT ![r] = 0]
        /\ user' = [user EXCEPT ![r] = NoUser]
        /\ UNCHANGED <<once, jwks, life, verdicts, setting, role, cred>>
    BY <1>5 DEF NextPage
  <2> QED
    BY <2>1 DEF AdmissionTypeOK, Stages
<1> QED
  BY <1>1, <1>2, <1>3, <1>4, <1>5 DEF ListStep

LEMMA TypeStep ==
    ASSUME TypeOK, [Next]_vars
    PROVE  TypeOK'
<1>0. AdmissionTypeOK
  BY DEF TypeOK
<1>1. ASSUME NEW r \in Request, Admit(r)
      PROVE  TypeOK'
  BY <1>1, AdmissionTypes DEF Admit, listingUnchanged, tableVars, pageVars, walkVars, TypeOK
<1>2. ASSUME NEW r \in Request, SetTenantContext(r)
      PROVE  TypeOK'
  <2>1. AdmissionTypeOK'
    BY <1>0, <1>2, ListingStepTypes DEF ListStep
  <2> QED
    BY <1>2, <2>1 DEF SetTenantContext, listingUnchanged, tableVars, pageVars, walkVars, TypeOK
<1>3. ASSUME NEW r \in Request, Select(r)
      PROVE  TypeOK'
  <2>1. rows' \in [Request -> Seq(Row)] /\ size' \in [Request -> Nat] /\ rows'[r] \in Seq(Row)
    <3>1. PICK w \in Seq(Row), n \in Nat :
                /\ rows' = [rows EXCEPT ![r] = w]
                /\ size' = [size EXCEPT ![r] = n]
      <4>1. Selected(r) \subseteq Row
        BY DEF Selected, TypeOK
      <4>2. \E c \in Conn : \E s \in Orders(Readable(r, c, Selected(r))) :
               LET found == Readable(r, c, Selected(r))
                   offset == IF endpoint[r].offset THEN Offset(ask[r]) ELSE 0
               IN  /\ found \subseteq Selected(r)
                   /\ Window(s, offset, LimitOf(ask[r])) \in Seq(found)
                   /\ rows' = [rows EXCEPT ![r] = Window(s, offset, LimitOf(ask[r]))]
                   /\ size' = [size EXCEPT ![r] = Cardinality(found)]
                   /\ Cardinality(found) \in Nat
        BY <1>3, SelectedRows
      <4>3. \A S \in SUBSET Selected(r) : \A w \in Seq(S) : w \in Seq(Row)
        BY <4>1, SeqMonotonic
      <4> QED
        BY <4>2, <4>3
    <3>2. rows \in [Request -> Seq(Row)] /\ size \in [Request -> Nat]
      BY DEF TypeOK
    <3> QED
      BY <3>1, <3>2
  <2>2. Range(rows'[r]) \subseteq Row
    BY <2>1, RangeOfSequence
  <2>3. seen' \in [Request -> SUBSET Row] /\ twice' \in [Request -> SUBSET Row]
    BY <1>3, <2>2 DEF Select, TypeOK
  <2>4. total' \in [Request -> Nat]
    <3>1. Len(rows'[r]) \in Nat /\ total \in [Request -> Nat]
      BY <2>1, LenProperties DEF TypeOK
    <3>2. total' = total \/ total' = [total EXCEPT ![r] = Len(rows'[r])]
      BY <1>3 DEF Select
    <3> QED
      BY <3>1, <3>2
  <2>5. AdmissionTypeOK'
    BY <1>0, <1>3, ListingStepTypes DEF ListStep
  <2>6. UNCHANGED <<table, future, endpoint, ask, steady, moved>>
    BY <1>3 DEF Select, tableVars
  <2>7. gone' \in [Request -> BOOLEAN]
    BY <1>3 DEF Select, TypeOK
  <2> QED
    BY <2>1, <2>3, <2>4, <2>5, <2>6, <2>7 DEF TypeOK
<1>4. ASSUME NEW r \in Request, Count(r)
      PROVE  TypeOK'
  <2>1. Counted(r) \subseteq table /\ table \subseteq Row
    BY DEF Counted, TypeOK
  <2>2. \A c \in Conn : Cardinality(Readable(r, c, Counted(r))) \in Nat
    BY <2>1, ReadableRows
  <2>3. total' \in [Request -> Nat]
    BY <1>4, <2>2 DEF Count, TypeOK
  <2>4. AdmissionTypeOK'
    BY <1>0, <1>4, ListingStepTypes DEF ListStep
  <2> QED
    BY <1>4, <2>3, <2>4 DEF Count, tableVars, walkVars, TypeOK
<1>5. ASSUME NEW r \in Request, StatementFails(r)
      PROVE  TypeOK'
  <2>1. AdmissionTypeOK'
    BY <1>0, <1>5, ListingStepTypes DEF ListStep
  <2>2. total \in [Request -> Nat] /\ (total' = total \/ total' = [total EXCEPT ![r] = 0])
    BY <1>5 DEF StatementFails, TypeOK
  <2>3. total' \in [Request -> Nat]
    BY <2>2
  <2>4. UNCHANGED <<table, future, endpoint, ask, rows, size, gone, seen, twice, steady, moved>>
    BY <1>5 DEF StatementFails, tableVars, walkVars
  <2> QED
    BY <2>1, <2>3, <2>4 DEF TypeOK
<1>6. ASSUME NEW r \in Request, NextPage(r)
      PROVE  TypeOK'
  <2>1. AdmissionTypeOK'
    BY <1>0, <1>6, ListingStepTypes
  <2>2. /\ ask \in [Request -> [page : Int, limit : Int, walk : BOOLEAN]]
        /\ ask' = [ask EXCEPT ![r].page = @ + 1]
    BY <1>6 DEF NextPage, TypeOK
  <2>3. ask' \in [Request -> [page : Int, limit : Int, walk : BOOLEAN]]
    BY <2>2
  <2> QED
    BY <1>6, <2>1, <2>3 DEF NextPage, tableVars, pageVars, walkVars, TypeOK
<1>7. ASSUME NEW x \in Row, Insert(x) \/ Delete(x)
      PROVE  TypeOK'
  <2>1. AdmissionTypeOK'
    <3>1. UNCHANGED admissionVars
      BY <1>7 DEF Insert, Delete
    <3> QED
      BY <1>0, <3>1 DEF admissionVars, AdmissionTypeOK
  <2>2. /\ table' \subseteq Row /\ future' \subseteq Row
        /\ gone' \in [Request -> BOOLEAN] /\ steady' \in [Request -> SUBSET Row]
        /\ moved' \in [Request -> SUBSET {"insert", "delete"}]
    <3>1. /\ table \subseteq Row /\ future \subseteq Row
          /\ gone \in [Request -> BOOLEAN] /\ steady \in [Request -> SUBSET Row]
          /\ moved \in [Request -> SUBSET {"insert", "delete"}]
      BY DEF TypeOK
    <3>2. CASE Insert(x)
      BY <3>1, <3>2 DEF Insert
    <3>3. CASE Delete(x)
      BY <3>1, <3>3 DEF Delete
    <3> QED
      BY <1>7, <3>2, <3>3
  <2>3. UNCHANGED <<endpoint, ask, rows, total, size, seen, twice>>
    BY <1>7 DEF Insert, Delete, pageVars
  <2> QED
    BY <2>1, <2>2, <2>3 DEF TypeOK
<1>8. CASE Crash
  <2>1. AdmissionTypeOK'
    BY <1>0, <1>8, LivesAssumption DEF Crash, Restart, InFlight, Stages, AdmissionTypeOK
  <2> QED
    BY <1>8, <2>1 DEF Crash, listingUnchanged, tableVars, pageVars, walkVars, TypeOK
<1>9. CASE UNCHANGED vars
  BY <1>9 DEF vars, admissionVars, tableVars, pageVars, walkVars, TypeOK, AdmissionTypeOK
<1> QED
  BY <1>1, <1>2, <1>3, <1>4, <1>5, <1>6, <1>7, <1>8, <1>9 DEF Next, ListStep

\* The types of all variables.
THEOREM TypeCorrect == Spec => []TypeOK
BY TypeInit, TypeStep, PTL DEF Spec

-----------------------------------------------------------------------------
(* The key set: whoever was told anything in this life was told it by the     *)
(* outcome of its one fetch.                                                  *)
KeysInv ==
    /\ "refused" \in verdicts => once = "done" /\ jwks = "error"
    /\ "admitted" \in verdicts => once = "done" /\ jwks # "error"
    /\ OneFetch

LEMMA KeysInit == Init => KeysInv
BY DEF Init, AdmissionInit, KeysInv, OneFetch

\* The Once is what no other step of a request touches.
LEMMA KeysKept ==
    ASSUME KeysInv, UNCHANGED <<once, jwks, verdicts>>,
           \A r \in Request : pc[r] = "fetching" <=> pc'[r] = "fetching"
    PROVE  KeysInv'
BY DEF KeysInv, OneFetch

LEMMA KeysStep ==
    ASSUME TypeOK, KeysInv, [Next]_vars
    PROVE  KeysInv'
<1>0. pc \in [Request -> Stages]
  BY DEF TypeOK, AdmissionTypeOK
<1>1. ASSUME NEW r \in Request, Arrive(r)
      PROVE  KeysInv'
  BY <1>0, <1>1, KeysKept DEF Arrive
<1>2. ASSUME NEW r \in Request, StartFetch(r)
      PROVE  KeysInv'
  BY <1>0, <1>2 DEF StartFetch, KeysInv, OneFetch
<1>3. ASSUME NEW r \in Request, EndFetch(r)
      PROVE  KeysInv'
  <2>1. once = "running" /\ pc[r] = "fetching"
    BY <1>3 DEF EndFetch, KeysInv, OneFetch
  <2>2. once' = "done" /\ pc' = [pc EXCEPT ![r] = "keys"] /\ UNCHANGED verdicts
    BY <1>3 DEF EndFetch
  <2> QED
    BY <1>0, <2>1, <2>2 DEF KeysInv, OneFetch
<1>4. ASSUME NEW r \in Request, KeysUnavailable(r)
      PROVE  KeysInv'
  <2>1. /\ once = "done" /\ jwks = "error" /\ UNCHANGED <<once, jwks>>
        /\ pc[r] = "keys" /\ pc' = [pc EXCEPT ![r] = "done"]
        /\ verdicts' = verdicts \union {"refused"}
    BY <1>4 DEF KeysUnavailable, Answer
  <2> QED
    BY <1>0, <2>1 DEF KeysInv, OneFetch
<1>5. ASSUME NEW r \in Request, Unauthorized(r)
      PROVE  KeysInv'
  BY <1>0, <1>5, KeysKept DEF Unauthorized, Answer
<1>6. ASSUME NEW r \in Request, Authorized(r)
      PROVE  KeysInv'
  <2>1. /\ once = "done" /\ jwks # "error" /\ UNCHANGED <<once, jwks>>
        /\ pc[r] = "keys" /\ pc' = [pc EXCEPT ![r] = "tenant"]
        /\ verdicts' = verdicts \union {"admitted"}
    BY <1>6 DEF Authorized
  <2> QED
    BY <1>0, <2>1 DEF KeysInv, OneFetch
<1>7. ASSUME NEW r \in Request, SetTenant(r)
      PROVE  KeysInv'
  BY <1>0, <1>7, KeysKept DEF SetTenant, Answer
<1>8. ASSUME NEW r \in Request, ListStep(r) \/ NextPage(r)
      PROVE  KeysInv'
  <2>1. UNCHANGED <<once, jwks, verdicts>>
    BY <1>8 DEF ListStep, SetTenantContext, Select, Count, StatementFails, NextPage
  <2>2. pc[r] # "fetching"
    BY <1>8 DEF ListStep, SetTenantContext, Select, Count, StatementFails, NextPage
  <2>3. \E p \in {"idle", "select", "count", "done"} : pc' = [pc EXCEPT ![r] = p]
    BY <1>8 DEF ListStep, SetTenantContext, Select, Count, StatementFails, NextPage, Answer
  <2> QED
    BY <1>0, <2>1, <2>2, <2>3, KeysKept
<1>9. ASSUME NEW x \in Row, Insert(x) \/ Delete(x)
      PROVE  KeysInv'
  BY <1>9, KeysKept DEF Insert, Delete, admissionVars
<1>10. CASE Crash
  BY <1>0, <1>10 DEF Crash, Restart, InFlight, KeysInv, OneFetch
<1>11. CASE UNCHANGED vars
  BY <1>11, KeysKept DEF vars, admissionVars
<1> QED
  BY <1>1, <1>2, <1>3, <1>4, <1>5, <1>6, <1>7, <1>8, <1>9, <1>10, <1>11
     DEF Next, Admit, AdmissionStep

\* Within one life of the process nobody is both told that the authentication service
\* is unavailable and admitted, however many requests race for the first fetch.
THEOREM OneVerdict == Spec => []OneVerdictPerLife
<1>1. KeysInv => OneVerdictPerLife
  BY DEF KeysInv, OneVerdictPerLife
<1> QED
  BY <1>1, TypeInit, TypeStep, KeysInit, KeysStep, PTL DEF Spec

-----------------------------------------------------------------------------
(* Tenants: no connection keeps the tenant of a request, and an answer is     *)
(* given once.                                                                *)

\* A connection without a tenant, and so every connection here, shows a bound role nothing:
\* the other side of PoliciesUseTheTenant.
NothingWhereBound ==
    \A r \in Request : Bound(r) => rows[r] = <<>>
OnlyOwnRows ==
    \A r \in Request : (pc[r] = "count" \/ Served(r)) /\ endpoint[r].tenant
        => \A x \in Range(rows[r]) : RowTenant[x] = user[r]
RowsApart == NothingWhereBound /\ OnlyOwnRows

ApartInv ==
    /\ \A c \in Conn : setting[c] \in {Unset, Blank}
    /\ \A r \in Request : code[r] # 0 => pc[r] = "done"
    /\ RowsApart

\* A SELECT finds nothing where the policies bind it, and everything elsewhere.
LEMMA ReadableByRole ==
    ASSUME TypeOK, ApartInv, NEW r \in Request, NEW c \in Conn, NEW S
    PROVE  /\ Bound(r) => Readable(r, c, S) = {}
           /\ ~Bound(r) => Readable(r, c, S) = S
<1>1. setting[c] \in {Unset, Blank} /\ role \in {"postgres", "orchestrix_app"}
  BY DEF ApartInv, TypeOK, AdmissionTypeOK
<1>2. role = "postgres" => PolicyOf(c) = "bypassed"
  BY DEF PolicyOf
<1>3. role = "orchestrix_app" => PolicyOf(c) \in {"nothing", "error"}
  BY <1>1 DEF PolicyOf
<1>4. CASE ~endpoint[r].policy
  BY <1>4 DEF Readable, Bound
<1>5. CASE endpoint[r].policy /\ role = "postgres"
  BY <1>1, <1>2, <1>5 DEF Readable, Bound
<1>6. CASE endpoint[r].policy /\ role = "orchestrix_app"
  BY <1>1, <1>3, <1>6 DEF Readable, Bound
<1> QED
  BY <1>1, <1>4, <1>5, <1>6

LEMMA ApartInit == Init => ApartInv
BY DEF Init, AdmissionInit, ApartInv, RowsApart, NothingWhereBound, OnlyOwnRows,
       Served, Range

\* A connection is left without a tenant, whichever statement sets one.
LEMMA SettingsStay ==
    ASSUME \A c \in Conn : setting[c] \in {Unset, Blank},
           setting \in [Conn -> Tenant \union {Unset, Blank}], NEW t, SetConfig(t)
    PROVE  \A c \in Conn : setting'[c] \in {Unset, Blank}
BY DEF SetConfig, SettingAfter

\* A step that gives no page, and answers a request that had none with an error.
LEMMA ApartKept ==
    ASSUME TypeOK, ApartInv, NEW r \in Request,
           \A c \in Conn : setting'[c] \in {Unset, Blank},
           UNCHANGED <<role, endpoint, rows>>,
           \A q \in Request :
               \/ q # r /\ UNCHANGED <<pc[q], user[q], code[q]>>
               \/ code'[q] \in {0, 401, 500, 503} /\ pc'[q] # "count"
                  /\ (code'[q] # 0 => pc'[q] = "done")
    PROVE  ApartInv'
BY DEF ApartInv, RowsApart, NothingWhereBound, OnlyOwnRows, Served, Bound

LEMMA ApartAdmission ==
    ASSUME TypeOK, ApartInv, NEW r \in Request, Admit(r)
    PROVE  ApartInv'
<1>1. UNCHANGED <<role, endpoint, rows>>
  BY DEF Admit, AdmissionStep, listingUnchanged, pageVars, Arrive, StartFetch, EndFetch,
         KeysUnavailable, Unauthorized, Authorized, SetTenant
<1>2. UNCHANGED setting \/ \E t : SetConfig(t)
  BY DEF Admit, AdmissionStep, Arrive, StartFetch, EndFetch,
         KeysUnavailable, Unauthorized, Authorized, SetTenant
<1>3. \A c \in Conn : setting'[c] \in {Unset, Blank}
  BY <1>2, SettingsStay DEF ApartInv, TypeOK, AdmissionTypeOK
<1>4. /\ pc \in [Request -> Stages] /\ code \in [Request -> {0, 200, 401, 500, 503}]
      /\ user \in [Request -> Tenant \union {NoTenant, NoUser}]
      /\ pc[r] # "done" /\ code[r] = 0
  BY DEF TypeOK, AdmissionTypeOK, ApartInv, Admit, AdmissionStep, Arrive, StartFetch, EndFetch,
         KeysUnavailable, Unauthorized, Authorized, SetTenant
<1>5. \/ \E p \in {"keys", "fetching", "tenant", "handler"} :
             pc' = [pc EXCEPT ![r] = p] /\ UNCHANGED code
      \/ \E s \in {401, 500, 503} :
             pc' = [pc EXCEPT ![r] = "done"] /\ code' = [code EXCEPT ![r] = s]
  BY DEF Admit, AdmissionStep, Arrive, StartFetch, EndFetch,
         KeysUnavailable, Unauthorized, Authorized, SetTenant, Answer
<1>6. \A q \in Request \ {r} : user'[q] = user[q]
  BY <1>4 DEF Admit, AdmissionStep, Arrive, StartFetch, EndFetch,
         KeysUnavailable, Unauthorized, Authorized, SetTenant
<1>7. \A q \in Request \ {r} : pc'[q] = pc[q] /\ code'[q] = code[q]
  BY <1>4, <1>5
<1>8. code'[r] \in {0, 401, 500, 503} /\ pc'[r] # "count" /\ (code'[r] # 0 => pc'[r] = "done")
  BY <1>4, <1>5
<1> QED
  BY <1>1, <1>3, <1>6, <1>7, <1>8, ApartKept

LEMMA ApartStep ==
    ASSUME TypeOK, ApartInv, [Next]_vars
    PROVE  ApartInv'
<1>0. /\ pc \in [Request -> Stages] /\ code \in [Request -> {0, 200, 401, 500, 503}]
      /\ user \in [Request -> Tenant \union {NoTenant, NoUser}]
      /\ rows \in [Request -> Seq(Row)]
      /\ setting \in [Conn -> Tenant \union {Unset, Blank}]
  BY DEF TypeOK, AdmissionTypeOK
<1>1. ASSUME NEW r \in Request, Admit(r)
      PROVE  ApartInv'
  BY <1>1, ApartAdmission
<1>2. ASSUME NEW r \in Request, SetTenantContext(r)
      PROVE  ApartInv'
  <2>1. \A c \in Conn : setting'[c] \in {Unset, Blank}
    <3>1. UNCHANGED setting \/ \E t : SetConfig(t)
      BY <1>2 DEF SetTenantContext
    <3> QED
      BY <1>0, <3>1, SettingsStay DEF ApartInv
  <2>2. UNCHANGED <<role, endpoint, rows, user>> /\ pc[r] = "handler" /\ code[r] = 0
    BY <1>2 DEF SetTenantContext, listingUnchanged, pageVars, ApartInv
  <2>3. \/ pc' = [pc EXCEPT ![r] = "select"] /\ UNCHANGED code
        \/ pc' = [pc EXCEPT ![r] = "done"] /\ code' = [code EXCEPT ![r] = 500]
    BY <1>2 DEF SetTenantContext, Answer
  <2>4. \A q \in Request :
               \/ q # r /\ UNCHANGED <<pc[q], user[q], code[q]>>
               \/ code'[q] \in {0, 401, 500, 503} /\ pc'[q] # "count"
                  /\ (code'[q] # 0 => pc'[q] = "done")
    BY <1>0, <2>2, <2>3
  <2> QED
    BY <2>1, <2>2, <2>4, ApartKept
<1>3. ASSUME NEW r \in Request, Select(r)
      PROVE  ApartInv'
  <2>1. \E c \in Conn : \E s \in Orders(Readable(r, c, Selected(r))) :
             LET found == Readable(r, c, Selected(r))
                 offset == IF endpoint[r].offset THEN Offset(ask[r]) ELSE 0
             IN  /\ found \subseteq Selected(r)
                 /\ Window(s, offset, LimitOf(ask[r])) \in Seq(found)
                 /\ rows' = [rows EXCEPT ![r] = Window(s, offset, LimitOf(ask[r]))]
    BY <1>3, SelectedRows
  <2>2. PICK c \in Conn : \E w \in Seq(Readable(r, c, Selected(r))) :
             rows' = [rows EXCEPT ![r] = w] /\ Readable(r, c, Selected(r)) \subseteq Selected(r)
    BY <2>1
  <2>3. PICK w \in Seq(Readable(r, c, Selected(r))) :
             rows' = [rows EXCEPT ![r] = w] /\ Readable(r, c, Selected(r)) \subseteq Selected(r)
    BY <2>2
  <2>4. Range(w) \subseteq Readable(r, c, Selected(r))
    BY RangeOfSequence
  <2>5. Bound(r) => w = <<>>
    <3>1. \A v \in Seq({}) : v = <<>>
      BY EmptySeq, LenProperties, ElementOfSeq
    <3> QED
      BY <3>1, ReadableByRole
  <2>6. endpoint[r].tenant => \A x \in Range(w) : RowTenant[x] = user[r]
    BY <2>3, <2>4 DEF Selected
  <2>7. /\ UNCHANGED <<setting, role, endpoint, user>>
        /\ \/ pc' = [pc EXCEPT ![r] = "done"] /\ code' = [code EXCEPT ![r] = 200]
           \/ pc' = [pc EXCEPT ![r] = "count"] /\ UNCHANGED code
        /\ pc[r] = "select" /\ code[r] = 0
    BY <1>3 DEF Select, Answer, ApartInv
  <2>8. rows'[r] = w /\ \A q \in Request \ {r} : rows'[q] = rows[q]
    BY <1>0, <2>3
  <2>9. NothingWhereBound'
    BY <2>5, <2>7, <2>8 DEF NothingWhereBound, Bound, ApartInv, RowsApart
  <2>10. OnlyOwnRows'
    <3>1. \A q \in Request \ {r} : pc'[q] = pc[q] /\ code'[q] = code[q]
      BY <1>0, <2>7
    <3>2. OnlyOwnRows
      BY DEF ApartInv, RowsApart
    <3> QED
      BY <2>6, <2>7, <2>8, <3>1, <3>2 DEF OnlyOwnRows, Served
  <2>11. \A q \in Request : code'[q] # 0 => pc'[q] = "done"
    BY <1>0, <2>7 DEF ApartInv
  <2> QED
    BY <2>7, <2>9, <2>10, <2>11 DEF ApartInv, RowsApart
<1>4. ASSUME NEW r \in Request, Count(r) \/ StatementFails(r)
      PROVE  ApartInv'
  <2>1. UNCHANGED <<setting, role, endpoint, user, rows>>
    BY <1>4 DEF Count, StatementFails, walkVars
  <2>2. /\ pc[r] \in {"select", "count"} /\ pc' = [pc EXCEPT ![r] = "done"]
        /\ \/ pc[r] = "count" /\ code' = [code EXCEPT ![r] = 200]
           \/ code' = [code EXCEPT ![r] = 500]
    BY <1>4 DEF Count, StatementFails, Answer
  <2>3. \A q \in Request : (pc'[q] = "count" \/ Served(q)') => pc[q] = "count" \/ Served(q)
    BY <1>0, <2>2 DEF Served
  <2>4. \A q \in Request : code'[q] # 0 => pc'[q] = "done"
    BY <1>0, <2>2 DEF ApartInv
  <2> QED
    BY <2>1, <2>3, <2>4 DEF ApartInv, RowsApart, NothingWhereBound, OnlyOwnRows,
                            Bound
<1>5. ASSUME NEW r \in Request, NextPage(r)
      PROVE  ApartInv'
  <2>1. UNCHANGED <<setting, role, endpoint, rows>>
    BY <1>5 DEF NextPage, pageVars
  <2>2. /\ pc' = [pc EXCEPT ![r] = "idle"] /\ code' = [code EXCEPT ![r] = 0]
        /\ user' = [user EXCEPT ![r] = NoUser]
    BY <1>5 DEF NextPage
  <2>3. \A q \in Request :
               \/ q # r /\ UNCHANGED <<pc[q], user[q], code[q]>>
               \/ code'[q] \in {0, 401, 500, 503} /\ pc'[q] # "count"
                  /\ (code'[q] # 0 => pc'[q] = "done")
    BY <1>0, <2>2
  <2>4. \A c \in Conn : setting'[c] \in {Unset, Blank}
    BY <2>1 DEF ApartInv
  <2> QED
    BY <2>1, <2>3, <2>4, ApartKept
<1>6. ASSUME NEW x \in Row, Insert(x) \/ Delete(x)
      PROVE  ApartInv'
  <2>1. UNCHANGED <<setting, role, endpoint, user, rows, pc, code>>
    BY <1>6 DEF Insert, Delete, admissionVars, pageVars
  <2> QED
    BY <2>1 DEF ApartInv, RowsApart, NothingWhereBound, OnlyOwnRows, Bound,
                Served
<1>7. CASE Crash
  <2>1. /\ UNCHANGED <<role, endpoint, user, rows, code>>
        /\ setting' = [c \in Conn |-> Unset]
        /\ pc' = [q \in Request |-> IF InFlight(q) THEN "done" ELSE pc[q]]
    BY <1>7 DEF Crash, Restart, listingUnchanged, pageVars
  <2>2. \A q \in Request : /\ pc'[q] # "count"
                           /\ code'[q] # 0 => pc[q] = "done" /\ pc'[q] = "done"
    BY <1>0, <2>1 DEF InFlight, ApartInv
  <2>3. \A q \in Request : Served(q)' => Served(q)
    BY <2>1, <2>2 DEF Served
  <2> QED
    BY <2>1, <2>2, <2>3 DEF ApartInv, RowsApart, NothingWhereBound, OnlyOwnRows,
                            Bound
<1>8. CASE UNCHANGED vars
  <2>1. UNCHANGED <<setting, role, endpoint, user, rows, pc, code>>
    BY <1>8 DEF vars, admissionVars, pageVars
  <2> QED
    BY <2>1 DEF ApartInv, RowsApart, NothingWhereBound, OnlyOwnRows, Bound,
                Served
<1> QED
  BY <1>1, <1>2, <1>3, <1>4, <1>5, <1>6, <1>7, <1>8 DEF Next, ListStep

\* A page that its statement or a policy narrows to one tenant shows rows of the caller's
\* tenant only, however requests share the connections of the pool.
THEOREM TenantsStayApart == Spec => []TenantsAreApart
<1>1. TypeOK /\ ApartInv => TenantsAreApart
  <2> SUFFICES ASSUME ApartInv, NEW r \in Request, pc[r] = "count" \/ Served(r),
                      endpoint[r].tenant \/ Bound(r), NEW x \in Range(rows[r])
               PROVE  RowTenant[x] = user[r]
    BY DEF TenantsAreApart
  <2>1. CASE Bound(r)
    <3>1. rows[r] = <<>>
      BY <2>1 DEF ApartInv, RowsApart, NothingWhereBound
    <3> QED
      BY <3>1 DEF Range
  <2>2. CASE endpoint[r].tenant
    BY <2>2 DEF ApartInv, RowsApart, OnlyOwnRows
  <2> QED
    BY <2>1, <2>2
<1> QED
  BY <1>1, TypeInit, TypeStep, ApartInit, ApartStep, PTL DEF Spec

-----------------------------------------------------------------------------
(* Pages: what the SELECT chose from, and what the COUNT finds afterwards.    *)
RowsWithin(r) ==
    rows[r] # <<>> => /\ Len(rows[r]) > 0
                      /\ endpoint[r].offset =>
                            Offset(ask[r]) >= 0 /\ Offset(ask[r]) + Len(rows[r]) <= size[r]

SizeCovered(r) ==
    rows[r] # <<>> /\ endpoint[r].total = "count" /\ ~gone[r] =>
        /\ pc[r] = "count" => size[r] <= Cardinality(Selected(r))
        /\ Served(r) => size[r] <= total[r]

FitInv ==
    \A r \in Request : pc[r] = "count" \/ Served(r) => RowsWithin(r) /\ SizeCovered(r)

\* The endpoints that COUNT select by tenant, so that they count what they select.
LEMMA CountedCoversSelected ==
    ASSUME TypeOK, NEW r \in Request, endpoint[r].total = "count"
    PROVE  Selected(r) \subseteq Counted(r)
<1>1. endpoint[r] \in Endpoint
  BY DEF TypeOK
<1>2. /\ \A e \in {ListWorkflows, ListExecutions, ListAlerts, ListAuditLogs, OlderListWorkflows,
                    ListDefinitions, ListRules, QueryMetrics, QueryMetricsByLabels} : e.tenant
      /\ \A e \in {OlderListExecutionsByStatus, OlderListAlertsByStatus, OlderListAuditLogsByType,
                    OlderAuditLogsByResource, OlderAuditLogsByUser} : e.tenant
  BY DEF Page, ListWorkflows, ListExecutions, ListAlerts, ListAuditLogs, ListDefinitions,
         ListRules, QueryMetrics, QueryMetricsByLabels, OlderListWorkflows,
         OlderListExecutionsByStatus, OlderListAlertsByStatus, OlderListAuditLogsByType,
         OlderAuditLogsByResource, OlderAuditLogsByUser
<1>3. WorkflowExecutions.total # "count" /\ OlderWorkflowExecutions.total # "count"
  BY DEF Page, WorkflowExecutions, OlderWorkflowExecutions
<1>4. endpoint[r].tenant
  BY <1>1, <1>2, <1>3, EndpointAssumption
<1> QED
  BY <1>4 DEF Selected, Counted

LEMMA SubsetIsSmaller ==
    ASSUME NEW A, NEW B, A \subseteq B, B \subseteq Row
    PROVE  Cardinality(A) <= Cardinality(B) /\ Cardinality(A) \in Nat /\ Cardinality(B) \in Nat
<1>1. IsFiniteSet(B) /\ IsFiniteSet(A)
  BY RowAssumption, FS_Subset
<1> QED
  BY <1>1, FS_Subset, FS_CardinalityType

LEMMA FitInit == Init => FitInv
BY DEF Init, AdmissionInit, FitInv, Served

\* What keeps the page of one request as it is.
LEMMA FitKeptFor ==
    ASSUME FitInv, NEW q \in Request,
           pc'[q] = pc[q], code'[q] = code[q], user'[q] = user[q], ask'[q] = ask[q],
           endpoint'[q] = endpoint[q], rows'[q] = rows[q], size'[q] = size[q],
           total'[q] = total[q],
           gone'[q] \/ (gone'[q] = gone[q] /\ table' = table)
    PROVE  pc'[q] = "count" \/ Served(q)' => RowsWithin(q)' /\ SizeCovered(q)'
<1>1. Served(q)' <=> Served(q)
  BY DEF Served
<1>2. RowsWithin(q) => RowsWithin(q)'
  BY DEF RowsWithin
<1>3. SizeCovered(q) => SizeCovered(q)'
  <2>1. CASE gone'[q]
    BY <2>1 DEF SizeCovered
  <2>2. CASE gone'[q] = gone[q] /\ table' = table
    <3>1. Selected(q)' = Selected(q)
      BY <2>2 DEF Selected
    <3> QED
      BY <1>1, <2>2, <3>1 DEF SizeCovered
  <2> QED
    BY <2>1, <2>2
<1> QED
  BY <1>1, <1>2, <1>3 DEF FitInv

\* A step that serves no page keeps those that were served.
LEMMA FitKept ==
    ASSUME FitInv, UNCHANGED <<endpoint, rows, size>>,
           \A q \in Request :
               \/ pc'[q] # "count" /\ ~Served(q)'
               \/ UNCHANGED <<pc[q], code[q], user[q], ask[q], total[q]>>
                  /\ (gone'[q] \/ UNCHANGED <<gone[q], table>>)
    PROVE  FitInv'
<1> SUFFICES ASSUME NEW q \in Request, pc'[q] = "count" \/ Served(q)'
             PROVE  RowsWithin(q)' /\ SizeCovered(q)'
  BY DEF FitInv
<1> QED
  BY FitKeptFor

LEMMA FitStep ==
    ASSUME TypeOK, TypeOK', ApartInv, FitInv, [Next]_vars
    PROVE  FitInv'
<1>0. /\ pc \in [Request -> Stages] /\ code \in [Request -> {0, 200, 401, 500, 503}]
      /\ user \in [Request -> Tenant \union {NoTenant, NoUser}]
      /\ rows \in [Request -> Seq(Row)] /\ size \in [Request -> Nat] /\ total \in [Request -> Nat]
      /\ gone \in [Request -> BOOLEAN]
  BY DEF TypeOK, AdmissionTypeOK
<1>1. ASSUME NEW r \in Request, Admit(r)
      PROVE  FitInv'
  <2>1. UNCHANGED <<table, endpoint, rows, size, total, ask, gone>>
    BY <1>1 DEF Admit, listingUnchanged, tableVars, pageVars
  <2>2. \/ \E p \in {"keys", "fetching", "tenant", "handler"} :
               pc' = [pc EXCEPT ![r] = p] /\ UNCHANGED code
        \/ \E s \in {401, 500, 503} :
               pc' = [pc EXCEPT ![r] = "done"] /\ code' = [code EXCEPT ![r] = s]
    BY <1>1 DEF Admit, AdmissionStep, Arrive, StartFetch, EndFetch,
                KeysUnavailable, Unauthorized, Authorized, SetTenant, Answer
  <2>3. \A q \in Request \ {r} : user'[q] = user[q]
    BY <1>0, <1>1 DEF Admit, AdmissionStep, Arrive, StartFetch, EndFetch,
                      KeysUnavailable, Unauthorized, Authorized, SetTenant
  <2>4. \A q \in Request \ {r} : pc'[q] = pc[q] /\ code'[q] = code[q]
    BY <1>0, <2>2
  <2>5. pc'[r] # "count" /\ ~Served(r)'
    BY <1>0, <2>2 DEF Served
  <2> QED
    BY <2>1, <2>3, <2>4, <2>5, FitKept
<1>2. ASSUME NEW r \in Request, SetTenantContext(r)
      PROVE  FitInv'
  <2>1. UNCHANGED <<table, endpoint, rows, size, total, ask, gone, user>>
    BY <1>2 DEF SetTenantContext, listingUnchanged, tableVars, pageVars
  <2>2. \/ pc' = [pc EXCEPT ![r] = "select"] /\ UNCHANGED code
        \/ pc' = [pc EXCEPT ![r] = "done"] /\ code' = [code EXCEPT ![r] = 500]
    BY <1>2 DEF SetTenantContext, Answer
  <2>3. \A q \in Request \ {r} : pc'[q] = pc[q] /\ code'[q] = code[q]
    BY <1>0, <2>2
  <2>4. pc'[r] # "count" /\ ~Served(r)'
    BY <1>0, <2>2 DEF Served
  <2> QED
    BY <2>1, <2>3, <2>4, FitKept
<1>3. ASSUME NEW r \in Request, Select(r)
      PROVE  FitInv'
  <2> DEFINE offset == IF endpoint[r].offset THEN Offset(ask[r]) ELSE 0
  <2>1. PICK c \in Conn : \E s \in Orders(Readable(r, c, Selected(r))) :
             LET found == Readable(r, c, Selected(r))
                 w == Window(s, offset, LimitOf(ask[r]))
             IN  /\ found \subseteq Selected(r)
                 /\ offset \in Nat
                 /\ w \in Seq(found)
                 /\ w # <<>> => Len(w) > 0 /\ offset + Len(w) <= Cardinality(found)
                 /\ rows' = [rows EXCEPT ![r] = w]
                 /\ size' = [size EXCEPT ![r] = Cardinality(found)]
    BY <1>3, SelectedRows
  <2> DEFINE found == Readable(r, c, Selected(r))
  <2>2. /\ found \subseteq Selected(r)
        /\ offset \in Nat
        /\ rows'[r] # <<>> => Len(rows'[r]) > 0 /\ offset + Len(rows'[r]) <= Cardinality(found)
        /\ size'[r] = Cardinality(found)
        /\ \A q \in Request \ {r} : rows'[q] = rows[q] /\ size'[q] = size[q]
    BY <1>0, <2>1
  <2>3. UNCHANGED <<table, endpoint, ask, user>>
    BY <1>3 DEF Select, tableVars
  <2>4. \/ /\ endpoint[r].total = "length"
           /\ pc' = [pc EXCEPT ![r] = "done"] /\ code' = [code EXCEPT ![r] = 200]
           /\ total' = [total EXCEPT ![r] = Len(rows'[r])]
        \/ pc' = [pc EXCEPT ![r] = "count"] /\ UNCHANGED <<code, total>>
    BY <1>3 DEF Select, Answer
  <2>5. gone' = [gone EXCEPT ![r] = FALSE] /\ pc[r] = "select" /\ code[r] = 0
    BY <1>3 DEF Select, ApartInv
  <2>6. \A q \in Request \ {r} : /\ pc'[q] = pc[q] /\ code'[q] = code[q]
                                 /\ total'[q] = total[q] /\ gone'[q] = gone[q]
    BY <1>0, <2>4, <2>5
  <2>7. \A q \in Request \ {r} :
            pc'[q] = "count" \/ Served(q)' => RowsWithin(q)' /\ SizeCovered(q)'
    BY <2>2, <2>3, <2>6, FitKeptFor
  <2>8. RowsWithin(r)'
    BY <2>2, <2>3 DEF RowsWithin
  <2>9. SizeCovered(r)'
    <3>1. Selected(r)' = Selected(r) /\ Selected(r) \subseteq Row
      BY <2>3 DEF Selected, TypeOK
    <3>2. Cardinality(found) <= Cardinality(Selected(r))
      BY <2>2, <3>1, SubsetIsSmaller
    <3>3. endpoint[r].total = "count" => pc'[r] = "count" /\ code'[r] = 0
      BY <1>0, <2>4, <2>5
    <3> QED
      BY <2>2, <2>3, <3>1, <3>2, <3>3 DEF SizeCovered, Served
  <2> QED
    BY <2>7, <2>8, <2>9 DEF FitInv
<1>4. ASSUME NEW r \in Request, Count(r)
      PROVE  FitInv'
  <2>1. PICK c \in Conn : total' = [total EXCEPT ![r] = Cardinality(Readable(r, c, Counted(r)))]
    BY <1>4 DEF Count
  <2>2. UNCHANGED <<table, endpoint, ask, user, rows, size, gone>> /\ pc[r] = "count"
    BY <1>4 DEF Count, tableVars
  <2>3. pc' = [pc EXCEPT ![r] = "done"] /\ code' = [code EXCEPT ![r] = 200]
    BY <1>4 DEF Count, Answer
  <2>4. \A q \in Request \ {r} :
            pc'[q] = pc[q] /\ code'[q] = code[q] /\ total'[q] = total[q]
    BY <1>0, <2>1, <2>3
  <2>5. \A q \in Request \ {r} :
            pc'[q] = "count" \/ Served(q)' => RowsWithin(q)' /\ SizeCovered(q)'
    BY <2>2, <2>4, FitKeptFor
  <2>6. RowsWithin(r)'
    BY <2>2 DEF FitInv, RowsWithin
  <2>7. ASSUME rows[r] # <<>>, endpoint[r].total = "count", ~gone[r]
        PROVE  size[r] <= total'[r]
    <3>1. size[r] <= Cardinality(Selected(r))
      BY <2>2, <2>7 DEF FitInv, SizeCovered
    <3>2. ~Bound(r)
      BY <2>7 DEF ApartInv, RowsApart, NothingWhereBound
    <3>3. Readable(r, c, Counted(r)) = Counted(r)
      BY <3>2, ReadableByRole
    <3>4. Cardinality(Selected(r)) <= Cardinality(Counted(r))
          /\ Cardinality(Selected(r)) \in Nat /\ Cardinality(Counted(r)) \in Nat
      <4>1. Counted(r) \subseteq Row
        BY DEF Counted, TypeOK
      <4> QED
        BY <2>7, <4>1, CountedCoversSelected, SubsetIsSmaller
    <3>5. total'[r] = Cardinality(Counted(r)) /\ size[r] \in Nat
      BY <1>0, <2>1, <3>3
    <3> QED
      BY <3>1, <3>4, <3>5
  <2>8. pc'[r] = "done"
    BY <1>0, <2>3
  <2> QED
    BY <2>2, <2>5, <2>6, <2>7, <2>8 DEF FitInv, SizeCovered
<1>5. ASSUME NEW r \in Request, StatementFails(r)
      PROVE  FitInv'
  <2>1. UNCHANGED <<table, endpoint, ask, user, rows, size, gone>>
    BY <1>5 DEF StatementFails, tableVars
  <2>2. /\ pc' = [pc EXCEPT ![r] = "done"]
        /\ \/ /\ pc[r] = "count" /\ endpoint[r].total = "count_or_0"
              /\ code' = [code EXCEPT ![r] = 200] /\ total' = [total EXCEPT ![r] = 0]
           \/ code' = [code EXCEPT ![r] = 500] /\ UNCHANGED total
    BY <1>5 DEF StatementFails, Answer
  <2>3. \A q \in Request \ {r} :
            pc'[q] = pc[q] /\ code'[q] = code[q] /\ total'[q] = total[q]
    <3>1. \A q \in Request \ {r} : pc'[q] = pc[q]
      BY <1>0, <2>2
    <3>2. \A q \in Request \ {r} : code'[q] = code[q] /\ total'[q] = total[q]
      BY <1>0, <2>2
    <3> QED
      BY <3>1, <3>2
  <2>4. \A q \in Request \ {r} :
            pc'[q] = "count" \/ Served(q)' => RowsWithin(q)' /\ SizeCovered(q)'
    BY <2>1, <2>3, FitKeptFor
  <2>5. pc'[r] = "done" /\ (Served(r)' => pc[r] = "count" /\ endpoint[r].total = "count_or_0")
    <3>1. pc'[r] = "done"
      BY <1>0, <2>2
    <3>2. code'[r] = 200 => pc[r] = "count" /\ endpoint[r].total = "count_or_0"
      BY <1>0, <2>2
    <3> QED
      BY <3>1, <3>2 DEF Served
  <2>6. Served(r)' => RowsWithin(r)' /\ SizeCovered(r)'
    BY <2>1, <2>5 DEF FitInv, RowsWithin, SizeCovered
  <2> QED
    BY <2>4, <2>5, <2>6 DEF FitInv
<1>6. ASSUME NEW r \in Request, NextPage(r)
      PROVE  FitInv'
  <2>1. UNCHANGED <<table, endpoint, rows, size, total, gone>>
    BY <1>6 DEF NextPage, tableVars, pageVars
  <2>2. /\ pc' = [pc EXCEPT ![r] = "idle"] /\ code' = [code EXCEPT ![r] = 0]
        /\ user' = [user EXCEPT ![r] = NoUser]
        /\ ask' = [ask EXCEPT ![r].page = @ + 1]
    BY <1>6 DEF NextPage
  <2>3. ask \in [Request -> [page : Int, limit : Int, walk : BOOLEAN]]
    BY DEF TypeOK
  <2>4. \A q \in Request \ {r} : UNCHANGED <<pc[q], code[q], user[q], ask[q]>>
    BY <1>0, <2>2, <2>3
  <2>5. pc'[r] # "count" /\ ~Served(r)'
    BY <1>0, <2>2 DEF Served
  <2> QED
    BY <2>1, <2>4, <2>5, FitKept
<1>7. ASSUME NEW x \in Row, Insert(x)
      PROVE  FitInv'
  <2>1. UNCHANGED <<endpoint, ask, user, rows, size, total, gone, pc, code>>
    BY <1>7 DEF Insert, admissionVars, pageVars
  <2>2. table' = table \union {x} /\ table' \subseteq Row
    BY <1>7 DEF Insert, TypeOK
  <2>3. \A q \in Request : Cardinality(Selected(q)) <= Cardinality(Selected(q)')
                           /\ Cardinality(Selected(q)) \in Nat /\ Cardinality(Selected(q)') \in Nat
    <3> TAKE q \in Request
    <3>1. Selected(q) \subseteq Selected(q)' /\ Selected(q)' \subseteq Row
      BY <2>1, <2>2 DEF Selected
    <3> QED
      BY <3>1, SubsetIsSmaller
  <2>4. \A q \in Request, m, n \in Nat : size[q] <= m /\ m <= n => size[q] <= n
    BY <1>0
  <2>5. \A q \in Request : RowsWithin(q)' <=> RowsWithin(q)
    BY <2>1 DEF RowsWithin
  <2>6. \A q \in Request : SizeCovered(q) => SizeCovered(q)'
    BY <2>1, <2>3, <2>4 DEF SizeCovered, Served
  <2> QED
    BY <2>1, <2>5, <2>6 DEF FitInv, Served
<1>8. ASSUME NEW x \in Row, Delete(x)
      PROVE  FitInv'
  <2>1. UNCHANGED <<endpoint, ask, user, rows, size, total, pc, code>>
    BY <1>8 DEF Delete, admissionVars, pageVars
  <2>2. \A q \in Request : gone'[q]
    BY <1>8 DEF Delete
  <2> QED
    BY <2>1, <2>2, FitKept
<1>9. CASE Crash
  <2>1. /\ UNCHANGED <<table, endpoint, ask, user, rows, size, total, gone, code>>
        /\ pc' = [q \in Request |-> IF InFlight(q) THEN "done" ELSE pc[q]]
    BY <1>9 DEF Crash, Restart, listingUnchanged, tableVars, pageVars
  <2>2. \A q \in Request : pc'[q] = pc[q] \/ (pc'[q] # "count" /\ ~Served(q)')
    BY <1>0, <2>1 DEF InFlight, ApartInv, Served
  <2> QED
    BY <2>1, <2>2, FitKept
<1>10. CASE UNCHANGED vars
  <2>1. UNCHANGED <<table, endpoint, ask, user, rows, size, total, gone, pc, code>>
    BY <1>10 DEF vars, admissionVars, tableVars, pageVars
  <2> QED
    BY <2>1, FitKept
<1> QED
  BY <1>1, <1>2, <1>3, <1>4, <1>5, <1>6, <1>7, <1>8, <1>9, <1>10 DEF Next, ListStep

LEMMA FitImpliesPages ==
    ASSUME TypeOK, FitInv
    PROVE  PagesFitTheTable
<1>1. ASSUME NEW r \in Request, Served(r), endpoint[r].offset, rows[r] # <<>>
      PROVE  /\ (PageOf(ask[r]) - 1) * LimitOf(ask[r]) < Half =>
                    (PageOf(ask[r]) - 1) * LimitOf(ask[r]) < size[r]
             /\ endpoint[r].total = "count" /\ ~gone[r] =>
                    total[r] >= Offset(ask[r]) + Len(rows[r])
  <2>1. /\ Len(rows[r]) > 0 /\ Offset(ask[r]) + Len(rows[r]) <= size[r]
        /\ endpoint[r].total = "count" /\ ~gone[r] => size[r] <= total[r]
    BY <1>1 DEF FitInv, RowsWithin, SizeCovered
  <2>2. /\ ask[r] \in [page : Int, limit : Int, walk : BOOLEAN]
        /\ Len(rows[r]) \in Nat /\ size[r] \in Nat /\ total[r] \in Nat
    BY LenProperties DEF TypeOK
  <2> DEFINE raw == (PageOf(ask[r]) - 1) * LimitOf(ask[r])
  <2>3. Offset(ask[r]) \in Int /\ raw \in Nat /\ (raw < Half => Offset(ask[r]) = raw)
    BY <2>2, OffsetsAreIntegers
  <2> HIDE DEF raw
  <2>4. raw < Half => raw < size[r]
    BY <2>1, <2>2, <2>3
  <2>5. endpoint[r].total = "count" /\ ~gone[r] => total[r] >= Offset(ask[r]) + Len(rows[r])
    BY <2>1, <2>2, <2>3
  <2> QED
    BY <2>4, <2>5 DEF raw
<1> QED
  BY <1>1 DEF PagesFitTheTable, FarPagesAreEmpty, TotalCoversThePage

\* Pages past the end are empty as long as their offset is an int32, and a total covers
\* its page unless a row was deleted in between, for any width, table and endpoint.
THEOREM PagesDoFit == Spec => []PagesFitTheTable
<1>1. TypeOK /\ FitInv => PagesFitTheTable
  BY FitImpliesPages
<1>2. TypeOK /\ TypeOK' /\ ApartInv /\ FitInv /\ [Next]_vars => FitInv'
  BY FitStep
<1> QED
  BY <1>1, <1>2, TypeInit, TypeStep, ApartInit, ApartStep, FitInit, PTL DEF Spec

-----------------------------------------------------------------------------
(* Walks: how many rows a walk has gone past, and where the rows it has seen, *)
(* and those it has still to see, stand in the order.                         *)

\* The rows that the WHERE clause lets through once the user of r is known.
Mine(r) == {x \in table : /\ endpoint[r].tenant => RowTenant[x] = cred[r].tenant
                          /\ endpoint[r].marked => RowMarked[x]}

Above(r, x) == {y \in Mine(r) : RowKey[y] > RowKey[x]}

\* The request has its page still to get, or has got it.
Coming(r) == pc[r] \in {"idle", "keys", "fetching", "tenant", "handler", "select"}
Got(r) == pc[r] = "count" \/ Served(r)

Start(r) == (ask[r].page - 1) * LimitOf(ask[r])
Reached(r) == IF Got(r) THEN Start(r) + LimitOf(ask[r]) ELSE Start(r)

UsersKnown ==
    \A r \in Request : pc[r] \in {"tenant", "handler", "select", "count"} \/ Served(r)
        => user[r] = cred[r].tenant

SteadyIsStored == \A r \in Request : steady[r] \subseteq table

\* No page of a walk starts where the offset has gone negative and come back.
InRange(r) ==
    /\ ask[r].page >= 1
    /\ Start(r) < Half + LimitOf(ask[r])
    /\ Got(r) => Start(r) < Half

\* The rows still to see stand behind those the walk went past, and are worth a full page.
MissingIsAhead(r) ==
    ~Bound(r) /\ "delete" \notin moved[r] /\ ~Tied(table \union seen[r]) =>
        \A x \in (Mine(r) \intersect steady[r]) \ seen[r] :
            /\ Cardinality(Above(r, x)) >= Reached(r)
            /\ Got(r) => Len(rows[r]) = LimitOf(ask[r])

\* The rows seen stand among those the walk went past.
SeenIsBehind(r) ==
    moved[r] = {} /\ ~Tied(table) =>
        \A x \in seen[r] : x \in Mine(r) /\ Cardinality(Above(r, x)) < Reached(r)

WalkOf(r) == InRange(r) /\ MissingIsAhead(r) /\ SeenIsBehind(r)

WalksUnderWay ==
    \A r \in Request :
        ask[r].walk /\ endpoint[r].offset /\ (Coming(r) \/ Got(r)) => WalkOf(r)

WalkInv == UsersKnown /\ SteadyIsStored /\ WalksUnderWay /\ NoRowTwice

\* An order of a finite set has each of its rows in one place.
LEMMA OrdersAreComplete ==
    ASSUME NEW S, IsFiniteSet(S), NEW s \in Orders(S)
    PROVE  /\ s \in Seq(S) /\ Len(s) \in Nat /\ DOMAIN s = 1 .. Len(s)
           /\ \A i, k \in DOMAIN s : i # k => s[i] # s[k]
           /\ \A x \in S : \E i \in DOMAIN s : s[i] = x
<1> DEFINE n == Cardinality(S)
<1>1. n \in Nat
  BY FS_CardinalityType
<1>2. s \in [1 .. n -> S] /\ \A i, k \in 1 .. n : i # k => s[i] # s[k]
  BY DEF Orders, SetToSeqs
<1> HIDE DEF n
<1>3. s \in Injection(1 .. n, S)
  BY <1>2 DEF Injection, IsInjective
<1>4. IsFiniteSet(1 .. n) /\ Cardinality(1 .. n) = n
  BY <1>1, FS_Interval
<1>5. s \in Surjection(1 .. n, S)
  BY <1>3, <1>4, FS_Injection DEF n
<1>6. s \in Seq(S) /\ Len(s) \in Nat /\ Len(s) = n /\ DOMAIN s = 1 .. n
  BY <1>1, <1>2
<1> QED
  BY <1>2, <1>5, <1>6 DEF Surjection

\* Where no two rows tie, as many rows stand above one as come before it.
LEMMA PlaceIsRank ==
    ASSUME NEW S, IsFiniteSet(S), S \subseteq Row, ~Tied(S),
           NEW s \in Orders(S), NEW i \in DOMAIN s
    PROVE  Cardinality({y \in S : RowKey[y] > RowKey[s[i]]}) = i - 1
<1> DEFINE A == {y \in S : RowKey[y] > RowKey[s[i]]}
           f == [k \in 1 .. i - 1 |-> s[k]]
<1>1. /\ s \in Seq(S) /\ Len(s) \in Nat /\ DOMAIN s = 1 .. Len(s)
      /\ \A j, k \in DOMAIN s : j # k => s[j] # s[k]
      /\ \A x \in S : \E k \in DOMAIN s : s[k] = x
  BY OrdersAreComplete
<1>2. \A j, k \in DOMAIN s : j < k => RowKey[s[j]] >= RowKey[s[k]]
  BY DEF Orders
<1>3. /\ \A k \in DOMAIN s : s[k] \in S /\ RowKey[s[k]] \in Int
      /\ i \in Nat \ {0} /\ 1 .. i - 1 \subseteq DOMAIN s
  <2>1. \A k \in DOMAIN s : s[k] \in S
    BY <1>1, ElementOfSeq
  <2> QED
    BY <1>1, <2>1, RowAssumption
<1>4. \A k \in 1 .. i - 1 : f[k] \in A
  <2> SUFFICES ASSUME NEW k \in 1 .. i - 1
               PROVE  s[k] \in S /\ RowKey[s[k]] > RowKey[s[i]]
    OBVIOUS
  <2>1. k \in DOMAIN s /\ k < i
    BY <1>3
  <2>2. s[k] \in S /\ s[i] \in S /\ s[k] # s[i] /\ RowKey[s[k]] >= RowKey[s[i]]
    BY <1>1, <1>2, <1>3, <2>1
  <2>3. RowKey[s[k]] # RowKey[s[i]]
    BY <2>2 DEF Tied
  <2> QED
    BY <1>3, <2>1, <2>2, <2>3
<1>5. \A x \in A : \E k \in 1 .. i - 1 : f[k] = x
  <2> SUFFICES ASSUME NEW x \in A
               PROVE  \E k \in 1 .. i - 1 : s[k] = x
    OBVIOUS
  <2>1. PICK k \in DOMAIN s : s[k] = x
    BY <1>1
  <2>2. RowKey[s[k]] > RowKey[s[i]]
    BY <2>1
  <2>3. ~(k > i) /\ k # i
    BY <1>2, <1>3, <2>2
  <2>4. k \in 1 .. i - 1
    BY <1>1, <1>3, <2>3
  <2> QED
    BY <2>1, <2>4
<1>6. f \in Bijection(1 .. i - 1, A)
  <2>1. f \in [1 .. i - 1 -> A]
    BY <1>4
  <2>2. \A j, k \in 1 .. i - 1 : f[j] = f[k] => j = k
    BY <1>1, <1>3
  <2> HIDE DEF f, A
  <2> QED
    BY <1>5, <2>1, <2>2 DEF Bijection, Injection, Surjection, IsInjective
<1>7. IsFiniteSet(1 .. i - 1) /\ Cardinality(1 .. i - 1) = i - 1
  <2>1. i - 1 \in Nat
    BY <1>3
  <2> QED
    BY <2>1, FS_Interval
<1>8. ExistsBijection(1 .. i - 1, A)
  BY <1>6 DEF ExistsBijection
<1> HIDE DEF A
<1>9. Cardinality(A) = i - 1
  BY <1>7, <1>8, FS_Bijection
<1> QED
  BY <1>9 DEF A

\* A window has the rows of its places, and is full when there are more behind it.
LEMMA WindowsHold ==
    ASSUME NEW S, IsFiniteSet(S), NEW s \in Orders(S), NEW o \in Nat, NEW l \in Nat
    PROVE  /\ \A x \in Range(Window(s, o, l)) :
                 \E i \in DOMAIN s : i \in o + 1 .. o + l /\ x = s[i]
           /\ \A i \in DOMAIN s : i \in o + 1 .. o + l => s[i] \in Range(Window(s, o, l))
           /\ \A i \in DOMAIN s : i > o + l => Len(Window(s, o, l)) = l
<1>0. s \in Seq(S) /\ Len(s) \in Nat /\ DOMAIN s = 1 .. Len(s)
  BY OrdersAreComplete
<1>1. PICK m \in Nat : m = Len(s) /\ DOMAIN s = 1 .. m
  BY <1>0
<1> DEFINE n == IF o + l < m THEN o + l ELSE m
           w == SubSeq(s, o + 1, n)
<1>2. n \in Nat /\ n <= m /\ n <= o + l /\ (n < o + l => n = m)
  OBVIOUS
<1>3. \A i \in o + 1 .. n : s[i] \in S
  <2>1. \A i \in o + 1 .. n : i \in 1 .. m
    BY <1>2
  <2>2. \A i \in 1 .. m : s[i] \in S
    BY <1>0, <1>1, ElementOfSeq
  <2> QED
    BY <2>1, <2>2
<1> HIDE DEF n
<1>4. /\ w \in Seq(S)
      /\ Len(w) = IF o + 1 <= n THEN n - (o + 1) + 1 ELSE 0
      /\ \A i \in 1 .. n - (o + 1) + 1 : w[i] = s[o + 1 + i - 1]
  BY <1>2, <1>3, SubSeqProperties
<1>5. Window(s, o, l) = w
  BY <1>1 DEF Window, n
<1> HIDE DEF w
<1>6. DOMAIN w = 1 .. Len(w) /\ Len(w) = IF o < n THEN n - o ELSE 0
  BY <1>2, <1>4, LenProperties
<1>7. \A k \in DOMAIN w : w[k] = s[o + k] /\ o + k \in DOMAIN s /\ o + k \in o + 1 .. o + l
  <2> TAKE k \in DOMAIN w
  <2>1. o < n /\ k \in 1 .. n - o
    BY <1>2, <1>6
  <2>2. k \in 1 .. n - (o + 1) + 1 /\ o + 1 + k - 1 = o + k
    BY <1>2, <2>1
  <2>3. w[k] = s[o + k]
    BY <1>4, <2>2
  <2>4. o + k \in 1 .. m /\ o + k \in o + 1 .. o + l
    BY <1>1, <1>2, <2>1
  <2> QED
    BY <1>1, <2>3, <2>4
<1>8. \A i \in DOMAIN s : i \in o + 1 .. o + l => i - o \in DOMAIN w /\ w[i - o] = s[i]
  <2> TAKE i \in DOMAIN s
  <2> HAVE i \in o + 1 .. o + l
  <2>1. o < n /\ i - o \in 1 .. n - o
    BY <1>1, <1>2
  <2>2. i - o \in DOMAIN w
    BY <1>6, <2>1
  <2>3. o + (i - o) = i
    BY <1>1
  <2> QED
    BY <1>7, <2>2, <2>3
<1>9. \A i \in DOMAIN s : i > o + l => Len(w) = l
  <2> TAKE i \in DOMAIN s
  <2> HAVE i > o + l
  <2>1. n = o + l
    BY <1>1 DEF n
  <2> QED
    BY <1>6, <2>1
<1> QED
  BY <1>5, <1>7, <1>8, <1>9 DEF Range

\* From half the range up, up to the whole of it, an offset is negative.
LEMMA FarOffsetsAreNegative ==
    ASSUME NEW a \in [page : Int, limit : Int, walk : BOOLEAN],
           (PageOf(a) - 1) * LimitOf(a) < 2 * Half, Offset(a) >= 0
    PROVE  (PageOf(a) - 1) * LimitOf(a) < Half
<1> DEFINE x == (PageOf(a) - 1) * LimitOf(a)
<1>1. x \in Nat
  BY OffsetsAreIntegers
<1> HIDE DEF x
<1>2. Half \in Nat \ {0} /\ x < 2 * Half
  BY LimitAssumption DEF x
<1> SUFFICES ASSUME x >= Half
             PROVE  FALSE
  BY <1>1, <1>2 DEF x
<1>3. (x + Half) % (2 * Half) = x - Half
  <2> DEFINE w == 2 * Half
  <2>1. w \in Nat \ {0} /\ w = Half + Half
    BY <1>2
  <2> HIDE DEF w
  <2>2. x - Half \in Nat /\ x - Half < w /\ x + Half = (x - Half) + w
    BY <1>1, <1>2, <2>1 DEF w
  <2>3. ((x - Half) + w) % w = x - Half
    BY <2>1, <2>2
  <2> QED
    BY <2>2, <2>3 DEF w
<1>4. Offset(a) = (x - Half) - Half
  BY <1>3 DEF Offset, Narrow, x
<1> QED
  BY <1>1, <1>2, <1>4

LEMMA WalkInit == Init => WalkInv
<1> SUFFICES ASSUME Init
             PROVE  WalkInv
  OBVIOUS
<1>1. /\ \A r \in Request : pc[r] \in {"idle", "done"} /\ code[r] = 0 /\ endpoint[r] \in Endpoint
      /\ \A r \in Request : ask[r] \in Ask /\ seen[r] = {} /\ twice[r] = {} /\ steady[r] = table
      /\ table \subseteq Row
  BY DEF Init, AdmissionInit
<1>2. UsersKnown /\ SteadyIsStored /\ NoRowTwice
  BY <1>1 DEF UsersKnown, Served, SteadyIsStored, NoRowTwice
<1>3. ASSUME NEW r \in Request, ask[r].walk
      PROVE  WalkOf(r)
  <2>1. ask[r].page = 1 /\ ask[r] \in [page : Int, limit : Int, walk : BOOLEAN]
    BY <1>1, <1>3, AskAssumption
  <2>2. ~Got(r)
    BY <1>1 DEF Got, Served
  <2>3. LimitOf(ask[r]) \in Nat
    BY <2>1, OffsetsAreIntegers
  <2>4. Start(r) = 0 /\ Reached(r) = 0
    BY <2>1, <2>2, <2>3 DEF Start, Reached
  <2>5. InRange(r)
    BY <2>1, <2>2, <2>3, <2>4, LimitAssumption DEF InRange
  <2>6. \A x : Cardinality(Above(r, x)) \in Nat
    <3> TAKE x
    <3>1. Above(r, x) \subseteq Row
      BY <1>1 DEF Above, Mine
    <3> QED
      BY <3>1, SubsetIsSmaller
  <2>7. MissingIsAhead(r) /\ SeenIsBehind(r)
    BY <1>1, <2>2, <2>4, <2>6 DEF MissingIsAhead, SeenIsBehind
  <2> QED
    BY <2>5, <2>7 DEF WalkOf
<1> QED
  BY <1>2, <1>3 DEF WalkInv, WalksUnderWay

\* A step that moves no row and serves no page leaves each walk where it is.
LEMMA WalksStay ==
    ASSUME WalkInv,
           UNCHANGED <<table, endpoint, cred, role, ask, rows, seen, twice, steady, moved>>,
           \A q \in Request : (Coming(q)' => Coming(q)) /\ (Got(q)' => Got(q))
    PROVE  SteadyIsStored' /\ WalksUnderWay' /\ NoRowTwice'
<1>1. SteadyIsStored' /\ NoRowTwice'
  BY DEF WalkInv, SteadyIsStored, NoRowTwice
<1>2. ASSUME NEW q \in Request, ask'[q].walk, endpoint'[q].offset, Coming(q)' \/ Got(q)'
      PROVE  WalkOf(q)'
  <2>1. WalkOf(q)
    BY <1>2 DEF WalkInv, WalksUnderWay
  <2>2. Got(q)' <=> Got(q)
    BY <1>2 DEF Coming, Got, Served
  <2>3. Mine(q)' = Mine(q) /\ \A x : Above(q, x)' = Above(q, x)
    BY DEF Mine, Above
  <2>4. Start(q)' = Start(q) /\ Reached(q)' = Reached(q)
    BY <2>2 DEF Start, Reached
  <2>5. InRange(q)'
    BY <2>1, <2>2, <2>4 DEF WalkOf, InRange
  <2>6. MissingIsAhead(q)'
    BY <2>1, <2>2, <2>3, <2>4 DEF WalkOf, MissingIsAhead, Bound
  <2>7. SeenIsBehind(q)'
    BY <2>1, <2>3, <2>4 DEF WalkOf, SeenIsBehind
  <2> QED
    BY <2>5, <2>6, <2>7 DEF WalkOf
<1> QED
  BY <1>1, <1>2 DEF WalksUnderWay

\* The user of a request is the one its header names, from the token on.
LEMMA UsersStep ==
    ASSUME TypeOK, ApartInv, UsersKnown, [Next]_vars
    PROVE  UsersKnown'
<1>0. /\ pc \in [Request -> Stages] /\ code \in [Request -> {0, 200, 401, 500, 503}]
      /\ user \in [Request -> Tenant \union {NoTenant, NoUser}]
  BY DEF TypeOK, AdmissionTypeOK
<1> DEFINE Late == {"tenant", "handler", "select", "count"}
<1>1. ASSUME NEW r \in Request, Authorized(r)
      PROVE  UsersKnown'
  <2>1. /\ user' = [user EXCEPT ![r] = cred[r].tenant]
        /\ pc' = [pc EXCEPT ![r] = "tenant"] /\ UNCHANGED <<cred, code>>
    BY <1>1 DEF Authorized
  <2> QED
    BY <1>0, <2>1 DEF UsersKnown, Served
<1>2. ASSUME NEW r \in Request, AdmissionStep(r), ~Authorized(r)
      PROVE  UsersKnown'
  <2>1. UNCHANGED <<cred, user>>
    BY <1>2 DEF AdmissionStep, Arrive, StartFetch, EndFetch, KeysUnavailable, Unauthorized,
                SetTenant
  <2>2. \/ \E p \in {"keys", "fetching"} : pc' = [pc EXCEPT ![r] = p] /\ UNCHANGED code
        \/ pc[r] = "tenant" /\ pc' = [pc EXCEPT ![r] = "handler"] /\ UNCHANGED code
        \/ \E s \in {401, 500, 503} :
               pc' = [pc EXCEPT ![r] = "done"] /\ code' = [code EXCEPT ![r] = s]
    BY <1>2 DEF AdmissionStep, Arrive, StartFetch, EndFetch, KeysUnavailable, Unauthorized,
                SetTenant, Answer
  <2>3. ASSUME NEW q \in Request, pc'[q] \in Late \/ Served(q)'
        PROVE  pc[q] \in Late \/ Served(q)
    BY <1>0, <2>2, <2>3 DEF Served
  <2> QED
    BY <2>1, <2>3 DEF UsersKnown
<1>3. ASSUME NEW r \in Request, ListStep(r)
      PROVE  UsersKnown'
  <2>1. UNCHANGED <<cred, user>> /\ pc[r] \in Late
    BY <1>3 DEF ListStep, SetTenantContext, Select, Count, StatementFails
  <2>2. \/ \E p \in {"select", "count"} : pc' = [pc EXCEPT ![r] = p] /\ UNCHANGED code
        \/ \E s \in {200, 500} :
               pc' = [pc EXCEPT ![r] = "done"] /\ code' = [code EXCEPT ![r] = s]
    BY <1>3 DEF ListStep, SetTenantContext, Select, Count, StatementFails, Answer
  <2>3. ASSUME NEW q \in Request, pc'[q] \in Late \/ Served(q)'
        PROVE  pc[q] \in Late \/ Served(q)
    <3>1. CASE q = r
      BY <2>1, <3>1
    <3>2. CASE q # r
      BY <1>0, <2>2, <2>3, <3>2 DEF Served
    <3> QED
      BY <3>1, <3>2
  <2> QED
    BY <2>1, <2>3 DEF UsersKnown
<1>4. ASSUME NEW r \in Request, NextPage(r)
      PROVE  UsersKnown'
  <2>1. /\ pc' = [pc EXCEPT ![r] = "idle"] /\ code' = [code EXCEPT ![r] = 0]
        /\ user' = [user EXCEPT ![r] = NoUser] /\ UNCHANGED cred
    BY <1>4 DEF NextPage
  <2> QED
    BY <1>0, <2>1 DEF UsersKnown, Served
<1>5. ASSUME NEW x \in Row, Insert(x) \/ Delete(x)
      PROVE  UsersKnown'
  BY <1>5 DEF Insert, Delete, admissionVars, UsersKnown, Served
<1>6. CASE Crash
  <2>1. UNCHANGED <<cred, user, code>>
        /\ pc' = [q \in Request |-> IF InFlight(q) THEN "done" ELSE pc[q]]
    BY <1>6 DEF Crash, Restart
  <2>2. \A q \in Request : pc'[q] = pc[q] \/ (pc'[q] = "done" /\ code'[q] = 0)
    BY <1>0, <2>1 DEF InFlight, ApartInv
  <2>3. ASSUME NEW q \in Request, pc'[q] \in Late \/ Served(q)'
        PROVE  pc[q] \in Late \/ Served(q)
    BY <2>1, <2>2, <2>3 DEF Served
  <2> QED
    BY <2>1, <2>3 DEF UsersKnown
<1>7. CASE UNCHANGED vars
  BY <1>7 DEF vars, admissionVars, UsersKnown, Served
<1> QED
  BY <1>1, <1>2, <1>3, <1>4, <1>5, <1>6, <1>7 DEF Next, Admit

\* A row comes once into a walk that nobody disturbs, and every row that was there all the
\* time comes before the page that is not full: the page of a walk picks up where it is.
LEMMA PageOfWalk ==
    ASSUME TypeOK, ApartInv, WalkInv, NEW r \in Request, Select(r),
           ask[r].walk, endpoint[r].offset
    PROVE  /\ WalkOf(r)'
           /\ moved[r] = {} /\ ~Tied(table) => twice'[r] = {}
<1> DEFINE l == LimitOf(ask[r])
           o == Start(r)
<1>1. /\ ask[r] \in [page : Int, limit : Int, walk : BOOLEAN] /\ table \subseteq Row
      /\ seen \in [Request -> SUBSET Row] /\ twice \in [Request -> SUBSET Row]
      /\ pc \in [Request -> Stages] /\ code \in [Request -> {0, 200, 401, 500, 503}]
      /\ rows \in [Request -> Seq(Row)] /\ steady[r] \subseteq Row
  BY DEF TypeOK, AdmissionTypeOK
<1>2. pc[r] = "select" /\ code[r] = 0 /\ Coming(r) /\ ~Got(r)
  BY DEF Select, ApartInv, Coming, Got, Served
<1>3. WalkOf(r)
  BY <1>2 DEF WalkInv, WalksUnderWay
<1>4. l \in Nat /\ l <= Half /\ Half \in Nat
  BY LimitAssumption DEF LimitOf
<1>5. PageOf(ask[r]) = ask[r].page /\ o = (PageOf(ask[r]) - 1) * l
  BY <1>1, <1>3 DEF WalkOf, InRange, PageOf, Start
<1>6. PICK c \in Conn : /\ Offset(ask[r]) >= 0
                        /\ \E s \in Orders(Readable(r, c, Selected(r))) :
                              rows' = [rows EXCEPT ![r] = Window(s, Offset(ask[r]), l)]
  BY DEF Select
<1>7. o \in Nat /\ o < Half /\ Offset(ask[r]) = o
  <2>1. o \in Nat /\ (o < Half => Offset(ask[r]) = o)
    BY <1>1, <1>5, OffsetsAreIntegers
  <2>2. o < Half + l
    BY <1>3 DEF WalkOf, InRange
  <2>3. o < 2 * Half
    BY <1>4, <2>1, <2>2
  <2>4. o < Half
    BY <1>1, <1>5, <1>6, <2>3, FarOffsetsAreNegative
  <2> QED
    BY <2>1, <2>4
<1> HIDE DEF l, o
<1> DEFINE found == Readable(r, c, Selected(r))
<1>8. PICK s \in Orders(found) : rows' = [rows EXCEPT ![r] = Window(s, o, l)]
  BY <1>6, <1>7
<1> DEFINE w == Window(s, o, l)
<1>9. Selected(r) = Mine(r) /\ Mine(r) \subseteq table
  <2>1. user[r] = cred[r].tenant
    BY <1>2 DEF WalkInv, UsersKnown
  <2> QED
    BY <2>1 DEF Selected, Mine
<1>10. /\ Bound(r) => found = {}
       /\ ~Bound(r) => found = Mine(r)
       /\ found \subseteq Mine(r) /\ IsFiniteSet(found)
  <2>1. found \subseteq Selected(r) /\ IsFiniteSet(found)
    BY <1>1, <1>9, ReadableRows
  <2> QED
    BY <1>9, <2>1, ReadableByRole
<1> HIDE DEF found
<1>11. /\ s \in Seq(found) /\ Len(s) \in Nat /\ DOMAIN s = 1 .. Len(s)
       /\ \A x \in found : \E i \in DOMAIN s : s[i] = x
       /\ \A i \in DOMAIN s : s[i] \in found /\ i \in Nat \ {0}
  <2>1. /\ s \in Seq(found) /\ Len(s) \in Nat /\ DOMAIN s = 1 .. Len(s)
        /\ \A x \in found : \E i \in DOMAIN s : s[i] = x
    BY <1>10, OrdersAreComplete
  <2> QED
    BY <2>1, ElementOfSeq
<1>12. /\ \A x \in Range(w) : \E i \in DOMAIN s : i \in o + 1 .. o + l /\ x = s[i]
       /\ \A i \in DOMAIN s : i \in o + 1 .. o + l => s[i] \in Range(w)
       /\ \A i \in DOMAIN s : i > o + l => Len(w) = l
  BY <1>4, <1>7, <1>10, WindowsHold
<1> HIDE DEF w
<1>13. /\ rows'[r] = w
       /\ seen'[r] = seen[r] \union Range(w)
       /\ twice'[r] = twice[r] \union (seen[r] \intersect Range(w))
  <2>1. rows'[r] = w
    BY <1>1, <1>8 DEF w
  <2>2. /\ seen' = [seen EXCEPT ![r] = @ \union Range(rows'[r])]
        /\ twice' = [twice EXCEPT ![r] = @ \union (seen[r] \intersect Range(rows'[r]))]
    BY DEF Select
  <2> QED
    BY <1>1, <2>1, <2>2
<1>14. UNCHANGED <<table, endpoint, cred, role, ask, steady, moved>>
  BY DEF Select, tableVars
<1>15. Got(r)'
  <2>1. \/ pc' = [pc EXCEPT ![r] = "done"] /\ code' = [code EXCEPT ![r] = 200]
        \/ pc' = [pc EXCEPT ![r] = "count"] /\ UNCHANGED code
    BY DEF Select, Answer
  <2> QED
    BY <1>1, <2>1 DEF Got, Served
<1>16. /\ Mine(r)' = Mine(r) /\ (\A x : Above(r, x)' = Above(r, x))
       /\ Start(r)' = o /\ LimitOf(ask[r])' = l /\ Reached(r) = o /\ Reached(r)' = o + l
       /\ Bound(r)' = Bound(r)
  BY <1>2, <1>14, <1>15 DEF Mine, Above, Start, Reached, Bound, l, o
<1>17. ASSUME ~Bound(r), ~Tied(found), NEW i \in DOMAIN s
       PROVE  Cardinality(Above(r, s[i])) = i - 1
  <2>1. found = Mine(r) /\ found \subseteq Row
    BY <1>1, <1>9, <1>10, <1>17
  <2>2. Cardinality({y \in found : RowKey[y] > RowKey[s[i]]}) = i - 1
    BY <1>10, <1>17, <2>1, PlaceIsRank
  <2> QED
    BY <2>1, <2>2 DEF Above
<1>18. \A x : Cardinality(Above(r, x)) \in Nat
  <2> TAKE x
  <2>1. Above(r, x) \subseteq Row
    BY <1>1, <1>9 DEF Above
  <2> QED
    BY <2>1, SubsetIsSmaller
<1>19. InRange(r)'
  <2>1. ask[r].page >= 1
    BY <1>3 DEF WalkOf, InRange
  <2> QED
    BY <1>4, <1>7, <1>14, <1>16, <2>1 DEF InRange
<1>20. MissingIsAhead(r)'
  <2> SUFFICES ASSUME ~Bound(r), "delete" \notin moved[r], ~Tied(table \union seen'[r]),
                      NEW x \in (Mine(r) \intersect steady[r]) \ seen'[r]
               PROVE  Cardinality(Above(r, x)) >= o + l /\ Len(w) = l
    BY <1>13, <1>14, <1>16 DEF MissingIsAhead
  <2>1. ~Tied(found) /\ ~Tied(table \union seen[r])
    BY <1>9, <1>10, <1>13 DEF Tied
  <2>2. x \notin seen[r] /\ x \notin Range(w) /\ x \in found
    BY <1>10, <1>13
  <2>3. PICK i \in DOMAIN s : s[i] = x
    BY <1>11, <2>2
  <2>4. Cardinality(Above(r, x)) = i - 1
    BY <1>17, <2>1, <2>3
  <2>5. Cardinality(Above(r, x)) >= o
    BY <1>3, <1>16, <2>1, <2>2 DEF WalkOf, MissingIsAhead
  <2>6. i > o + l
    <3>1. i \notin o + 1 .. o + l
      BY <1>12, <2>2, <2>3
    <3>2. i \in Nat /\ i - 1 >= o
      BY <1>11, <2>4, <2>5
    <3> QED
      BY <1>4, <1>7, <3>1, <3>2
  <2>7. i - 1 >= o + l
    BY <1>4, <1>7, <1>11, <2>6
  <2> QED
    BY <1>12, <2>4, <2>6, <2>7
<1>21. ASSUME moved[r] = {}, ~Tied(table)
       PROVE  /\ \A x \in seen[r] : x \in Mine(r) /\ Cardinality(Above(r, x)) < o
              /\ \A x \in Range(w) : /\ x \in Mine(r)
                                     /\ Cardinality(Above(r, x)) >= o
                                     /\ Cardinality(Above(r, x)) < o + l
  <2>1. \A x \in seen[r] : x \in Mine(r) /\ Cardinality(Above(r, x)) < o
    BY <1>3, <1>16, <1>21 DEF WalkOf, SeenIsBehind
  <2>2. ~Tied(found)
    BY <1>9, <1>10, <1>21 DEF Tied
  <2>3. ASSUME NEW x \in Range(w)
        PROVE  /\ x \in Mine(r)
               /\ Cardinality(Above(r, x)) >= o
               /\ Cardinality(Above(r, x)) < o + l
    <3>1. PICK i \in DOMAIN s : i \in o + 1 .. o + l /\ x = s[i]
      BY <1>12, <2>3
    <3>2. x \in found /\ ~Bound(r)
      BY <1>10, <1>11, <3>1
    <3>3. Cardinality(Above(r, x)) = i - 1
      BY <1>17, <2>2, <3>1, <3>2
    <3> QED
      BY <1>4, <1>7, <1>10, <3>1, <3>2, <3>3
  <2> QED
    BY <2>1, <2>3
<1>22. SeenIsBehind(r)'
  <2> SUFFICES ASSUME moved[r] = {}, ~Tied(table), NEW x \in seen'[r]
               PROVE  x \in Mine(r) /\ Cardinality(Above(r, x)) < o + l
    BY <1>14, <1>16 DEF SeenIsBehind
  <2>1. CASE x \in seen[r]
    <3>1. x \in Mine(r) /\ Cardinality(Above(r, x)) < o
      BY <1>21, <2>1
    <3> QED
      BY <1>4, <1>7, <1>18, <3>1
  <2>2. CASE x \in Range(w)
    BY <1>21, <2>2
  <2> QED
    BY <1>13, <2>1, <2>2
<1>23. ASSUME moved[r] = {}, ~Tied(table)
       PROVE  twice'[r] = {}
  <2>1. twice[r] = {}
    BY <1>23 DEF WalkInv, NoRowTwice
  <2>2. seen[r] \intersect Range(w) = {}
    <3> SUFFICES ASSUME NEW x \in seen[r], x \in Range(w)
                 PROVE  FALSE
      OBVIOUS
    <3>1. Cardinality(Above(r, x)) < o /\ Cardinality(Above(r, x)) >= o
      BY <1>21, <1>23
    <3> QED
      BY <1>7, <1>18, <3>1
  <2> QED
    BY <1>13, <2>1, <2>2
<1> QED
  BY <1>19, <1>20, <1>22, <1>23 DEF WalkOf

\* The step that gives a walk its page leaves the walks of the others where they are.
LEMMA WalksOfOthers ==
    ASSUME WalkInv, NEW q \in Request,
           UNCHANGED <<table, endpoint, cred, role, steady, moved>>,
           UNCHANGED <<pc[q], code[q], ask[q], rows[q], seen[q]>>,
           ask'[q].walk, endpoint'[q].offset, Coming(q)' \/ Got(q)'
    PROVE  WalkOf(q)'
<1>1. (Got(q)' <=> Got(q)) /\ (Coming(q)' <=> Coming(q))
  BY DEF Got, Coming, Served
<1>2. WalkOf(q)
  BY <1>1 DEF WalkInv, WalksUnderWay
<1>3. Mine(q)' = Mine(q) /\ \A x : Above(q, x)' = Above(q, x)
  BY DEF Mine, Above
<1>4. Start(q)' = Start(q) /\ Reached(q)' = Reached(q)
  BY <1>1 DEF Start, Reached
<1>5. InRange(q)'
  BY <1>1, <1>2, <1>4 DEF WalkOf, InRange
<1>6. MissingIsAhead(q)'
  BY <1>1, <1>2, <1>3, <1>4 DEF WalkOf, MissingIsAhead, Bound
<1>7. SeenIsBehind(q)'
  BY <1>2, <1>3, <1>4 DEF WalkOf, SeenIsBehind
<1> QED
  BY <1>5, <1>6, <1>7 DEF WalkOf

\* Asking for the next page, a walk has gone past what it had got.
LEMMA NextPageOfWalk ==
    ASSUME TypeOK, WalkInv, NEW r \in Request, NextPage(r), endpoint[r].offset
    PROVE  WalkOf(r)'
<1> DEFINE l == LimitOf(ask[r])
<1>1. /\ ask \in [Request -> [page : Int, limit : Int, walk : BOOLEAN]]
      /\ pc \in [Request -> Stages] /\ code \in [Request -> {0, 200, 401, 500, 503}]
  BY DEF TypeOK, AdmissionTypeOK
<1>2. /\ Got(r) /\ ask[r].walk
      /\ UNCHANGED <<table, endpoint, cred, role, seen, steady, moved>>
      /\ pc' = [pc EXCEPT ![r] = "idle"]
      /\ ask' = [ask EXCEPT ![r].page = @ + 1]
  BY DEF NextPage, Got, Served, FullPage, tableVars, walkVars
<1>3. WalkOf(r)
  BY <1>2 DEF WalkInv, WalksUnderWay
<1>4. ~Got(r)'
  BY <1>1, <1>2 DEF Got, Served
<1>5. ask'[r].page = ask[r].page + 1 /\ ask'[r].limit = ask[r].limit /\ ask[r].page \in Int
  BY <1>1, <1>2
<1>6. LimitOf(ask[r])' = l /\ l \in Nat
  BY <1>5, LimitAssumption DEF LimitOf
<1>7. Start(r)' = Start(r) + l /\ Start(r) \in Int
  <2>1. Start(r)' = ((ask[r].page + 1) - 1) * l /\ Start(r) = (ask[r].page - 1) * l
    BY <1>5, <1>6 DEF Start
  <2>2. \A p \in Int, n \in Nat : ((p + 1) - 1) * n = (p - 1) * n + n /\ (p - 1) * n \in Int
    OBVIOUS
  <2> HIDE DEF l
  <2> QED
    BY <1>5, <1>6, <2>1, <2>2
<1> HIDE DEF l
<1>8. Reached(r)' = Reached(r)
  BY <1>2, <1>4, <1>7 DEF Reached, l
<1>9. Mine(r)' = Mine(r) /\ \A x : Above(r, x)' = Above(r, x)
  BY <1>2 DEF Mine, Above
<1>10. InRange(r)'
  <2>1. Start(r) < Half /\ ask[r].page >= 1
    BY <1>2, <1>3 DEF WalkOf, InRange
  <2> QED
    BY <1>4, <1>5, <1>6, <1>7, <2>1, LimitAssumption DEF InRange
<1>11. MissingIsAhead(r)'
  BY <1>2, <1>3, <1>4, <1>8, <1>9 DEF WalkOf, MissingIsAhead, Bound
<1>12. SeenIsBehind(r)'
  BY <1>2, <1>3, <1>8, <1>9 DEF WalkOf, SeenIsBehind
<1> QED
  BY <1>10, <1>11, <1>12 DEF WalkOf

\* A row that enters the order anywhere moves no missing row towards the pages got.
LEMMA WalksOutliveInserts ==
    ASSUME TypeOK, WalkInv, NEW x \in Row, Insert(x)
    PROVE  SteadyIsStored' /\ WalksUnderWay' /\ NoRowTwice'
<1>1. /\ table' = table \union {x} /\ table' \subseteq Row
      /\ moved' = [r \in Request |-> moved[r] \union {"insert"}]
      /\ UNCHANGED <<pc, code, cred, role, endpoint, ask, rows, seen, twice, steady>>
  BY DEF Insert, admissionVars, pageVars, TypeOK
<1>2. SteadyIsStored' /\ NoRowTwice'
  BY <1>1 DEF WalkInv, SteadyIsStored, NoRowTwice
<1>3. ASSUME NEW r \in Request, ask[r].walk, endpoint[r].offset, Coming(r) \/ Got(r)
      PROVE  WalkOf(r)'
  <2>1. WalkOf(r)
    BY <1>3 DEF WalkInv, WalksUnderWay
  <2>2. (Got(r)' <=> Got(r)) /\ Start(r)' = Start(r) /\ Reached(r)' = Reached(r)
    BY <1>1 DEF Got, Served, Start, Reached
  <2>3. /\ LimitOf(ask[r]) \in Nat /\ Reached(r) \in Int
    <3>1. ask[r] \in [page : Int, limit : Int, walk : BOOLEAN]
      BY DEF TypeOK
    <3>2. LimitOf(ask[r]) \in Nat /\ ask[r].page \in Int
      BY <3>1, OffsetsAreIntegers
    <3>3. \A p \in Int, n \in Nat : (p - 1) * n \in Int /\ (p - 1) * n + n \in Int
      OBVIOUS
    <3> QED
      BY <3>2, <3>3 DEF Reached, Start
  <2>4. InRange(r)'
    BY <1>1, <2>1, <2>2 DEF WalkOf, InRange
  <2>5. SeenIsBehind(r)'
    BY <1>1 DEF SeenIsBehind
  <2>6. MissingIsAhead(r)'
    <3> SUFFICES ASSUME ~Bound(r), "delete" \notin moved'[r], ~Tied(table' \union seen[r]),
                        NEW y \in (Mine(r)' \intersect steady[r]) \ seen[r]
                 PROVE  /\ Cardinality(Above(r, y)') >= Reached(r)
                        /\ Got(r) => Len(rows[r]) = LimitOf(ask[r])
      BY <1>1, <2>2 DEF MissingIsAhead, Bound
    <3>1. "delete" \notin moved[r] /\ ~Tied(table \union seen[r])
      BY <1>1 DEF Tied
    <3>2. y \in Mine(r)
      <4>1. y \in table
        BY DEF WalkInv, SteadyIsStored
      <4> QED
        BY <1>1, <4>1 DEF Mine
    <3>3. /\ Cardinality(Above(r, y)) >= Reached(r)
          /\ Got(r) => Len(rows[r]) = LimitOf(ask[r])
      BY <2>1, <3>1, <3>2 DEF WalkOf, MissingIsAhead
    <3>4. Above(r, y) \subseteq Above(r, y)' /\ Above(r, y)' \subseteq Row
      BY <1>1 DEF Above, Mine
    <3>5. /\ Cardinality(Above(r, y)) <= Cardinality(Above(r, y)')
          /\ Cardinality(Above(r, y)) \in Nat /\ Cardinality(Above(r, y)') \in Nat
      BY <3>4, SubsetIsSmaller
    <3> QED
      BY <2>3, <3>3, <3>5
  <2> QED
    BY <2>4, <2>5, <2>6 DEF WalkOf
<1> QED
  BY <1>1, <1>2, <1>3 DEF WalksUnderWay, Coming, Got, Served

\* A deletion ends what can be said of the walks, but not the pages they are at.
LEMMA WalksOutliveDeletes ==
    ASSUME TypeOK, WalkInv, NEW x \in Row, Delete(x)
    PROVE  SteadyIsStored' /\ WalksUnderWay' /\ NoRowTwice'
<1>1. /\ table' = table \ {x}
      /\ steady' = [r \in Request |-> steady[r] \ {x}]
      /\ moved' = [r \in Request |-> moved[r] \union {"delete"}]
      /\ UNCHANGED <<pc, code, endpoint, ask, twice>>
  BY DEF Delete, admissionVars, pageVars
<1>2. SteadyIsStored' /\ NoRowTwice'
  BY <1>1 DEF WalkInv, SteadyIsStored, NoRowTwice
<1>3. ASSUME NEW r \in Request, ask[r].walk, endpoint[r].offset, Coming(r) \/ Got(r)
      PROVE  WalkOf(r)'
  <2>1. InRange(r)'
    <3>1. InRange(r)
      BY <1>3 DEF WalkInv, WalksUnderWay, WalkOf
    <3> QED
      BY <1>1, <3>1 DEF InRange, Start, Got, Served
  <2>2. MissingIsAhead(r)' /\ SeenIsBehind(r)'
    BY <1>1 DEF MissingIsAhead, SeenIsBehind
  <2> QED
    BY <2>1, <2>2 DEF WalkOf
<1> QED
  BY <1>1, <1>2, <1>3 DEF WalksUnderWay, Coming, Got, Served

LEMMA WalkStep ==
    ASSUME TypeOK, ApartInv, WalkInv, [Next]_vars
    PROVE  WalkInv'
<1>0. /\ pc \in [Request -> Stages] /\ code \in [Request -> {0, 200, 401, 500, 503}]
      /\ rows \in [Request -> Seq(Row)] /\ seen \in [Request -> SUBSET Row]
      /\ twice \in [Request -> SUBSET Row]
      /\ ask \in [Request -> [page : Int, limit : Int, walk : BOOLEAN]]
  BY DEF TypeOK, AdmissionTypeOK
<1> DEFINE Kept == SteadyIsStored' /\ WalksUnderWay' /\ NoRowTwice'
<1>1. ASSUME NEW r \in Request, Admit(r) \/ SetTenantContext(r)
      PROVE  Kept
  <2>1. UNCHANGED <<table, endpoint, cred, role, ask, rows, seen, twice, steady, moved>>
    BY <1>1 DEF Admit, AdmissionStep, listingUnchanged, tableVars, pageVars, walkVars, Arrive,
                StartFetch, EndFetch, KeysUnavailable, Unauthorized, Authorized, SetTenant,
                SetTenantContext
  <2>2. /\ pc[r] \in {"idle", "keys", "fetching", "tenant", "handler"}
        /\ \/ \E p \in {"keys", "fetching", "tenant", "handler", "select"} :
                 pc' = [pc EXCEPT ![r] = p] /\ UNCHANGED code
           \/ \E s \in {401, 500, 503} :
                 pc' = [pc EXCEPT ![r] = "done"] /\ code' = [code EXCEPT ![r] = s]
    BY <1>1 DEF Admit, AdmissionStep, Arrive, StartFetch, EndFetch, KeysUnavailable,
                Unauthorized, Authorized, SetTenant, SetTenantContext, Answer
  <2>3. \A q \in Request : (Coming(q)' => Coming(q)) /\ (Got(q)' => Got(q))
    BY <1>0, <2>2 DEF Coming, Got, Served
  <2> QED
    BY <2>1, <2>3, WalksStay
<1>2. ASSUME NEW r \in Request, Select(r)
      PROVE  Kept
  <2>1. UNCHANGED <<table, endpoint, cred, role, ask, steady, moved>>
    BY <1>2 DEF Select, tableVars
  <2>2. \A q \in Request \ {r} :
            UNCHANGED <<pc[q], code[q], ask[q], rows[q], seen[q], twice[q]>>
    <3>1. \/ pc' = [pc EXCEPT ![r] = "done"] /\ code' = [code EXCEPT ![r] = 200]
          \/ pc' = [pc EXCEPT ![r] = "count"] /\ UNCHANGED code
      BY <1>2 DEF Select, Answer
    <3>2. /\ \E w : rows' = [rows EXCEPT ![r] = w]
          /\ \E S : seen' = [seen EXCEPT ![r] = S]
          /\ \E S : twice' = [twice EXCEPT ![r] = S]
      BY <1>2 DEF Select
    <3> QED
      BY <1>0, <2>1, <3>1, <3>2
  <2>3. SteadyIsStored'
    BY <2>1 DEF WalkInv, SteadyIsStored
  <2>4. WalksUnderWay'
    <3> SUFFICES ASSUME NEW q \in Request, ask'[q].walk, endpoint'[q].offset,
                        Coming(q)' \/ Got(q)'
                 PROVE  WalkOf(q)'
      BY DEF WalksUnderWay
    <3>1. CASE q = r
      BY <1>2, <2>1, <3>1, PageOfWalk
    <3>2. CASE q # r
      BY <2>1, <2>2, <3>2, WalksOfOthers
    <3> QED
      BY <3>1, <3>2
  <2>5. NoRowTwice'
    <3> SUFFICES ASSUME NEW q \in Request, ask[q].walk, endpoint[q].offset,
                        moved[q] = {}, ~Tied(table)
                 PROVE  twice'[q] = {}
      BY <2>1 DEF NoRowTwice
    <3>1. CASE q = r
      BY <1>2, <3>1, PageOfWalk
    <3>2. CASE q # r
      BY <2>2, <3>2 DEF WalkInv, NoRowTwice
    <3> QED
      BY <3>1, <3>2
  <2> QED
    BY <2>3, <2>4, <2>5
<1>3. ASSUME NEW r \in Request, Count(r) \/ StatementFails(r)
      PROVE  Kept
  <2>1. UNCHANGED <<table, endpoint, cred, role, ask, rows, seen, twice, steady, moved>>
    BY <1>3 DEF Count, StatementFails, tableVars, walkVars
  <2>2. /\ pc[r] \in {"select", "count"}
        /\ pc' = [pc EXCEPT ![r] = "done"]
        /\ \/ pc[r] = "count" /\ code' = [code EXCEPT ![r] = 200]
           \/ code' = [code EXCEPT ![r] = 500]
    BY <1>3 DEF Count, StatementFails, Answer
  <2>3. \A q \in Request : (Coming(q)' => Coming(q)) /\ (Got(q)' => Got(q))
    BY <1>0, <2>2 DEF Coming, Got, Served
  <2> QED
    BY <2>1, <2>3, WalksStay
<1>4. ASSUME NEW r \in Request, NextPage(r)
      PROVE  Kept
  <2>1. /\ UNCHANGED <<table, endpoint, cred, role, rows, seen, twice, steady, moved>>
        /\ pc' = [pc EXCEPT ![r] = "idle"] /\ code' = [code EXCEPT ![r] = 0]
        /\ ask' = [ask EXCEPT ![r].page = @ + 1]
    BY <1>4 DEF NextPage, tableVars, pageVars, walkVars
  <2>2. \A q \in Request \ {r} : UNCHANGED <<pc[q], code[q], ask[q], rows[q], seen[q]>>
    BY <1>0, <2>1
  <2>3. \A q \in Request : ask'[q].walk = ask[q].walk
    BY <1>0, <2>1
  <2>4. SteadyIsStored' /\ NoRowTwice'
    BY <2>1, <2>3 DEF WalkInv, SteadyIsStored, NoRowTwice
  <2>5. WalksUnderWay'
    <3> SUFFICES ASSUME NEW q \in Request, ask'[q].walk, endpoint'[q].offset,
                        Coming(q)' \/ Got(q)'
                 PROVE  WalkOf(q)'
      BY DEF WalksUnderWay
    <3>1. CASE q = r
      BY <1>4, <2>1, <3>1, NextPageOfWalk
    <3>2. CASE q # r
      BY <2>1, <2>2, <3>2, WalksOfOthers
    <3> QED
      BY <3>1, <3>2
  <2> QED
    BY <2>4, <2>5
<1>5. ASSUME NEW x \in Row, Insert(x) \/ Delete(x)
      PROVE  Kept
  BY <1>5, WalksOutliveInserts, WalksOutliveDeletes
<1>6. ASSUME Crash
      PROVE  Kept
  <2>1. /\ UNCHANGED <<table, endpoint, cred, role, ask, rows, seen, twice, steady, moved>>
        /\ UNCHANGED code
        /\ pc' = [q \in Request |-> IF InFlight(q) THEN "done" ELSE pc[q]]
    BY <1>6 DEF Crash, Restart, listingUnchanged, tableVars, pageVars, walkVars
  <2>2. \A q \in Request : pc'[q] = pc[q] \/ (pc'[q] = "done" /\ code'[q] = 0)
    BY <1>0, <2>1 DEF InFlight, ApartInv
  <2>3. \A q \in Request : (Coming(q)' => Coming(q)) /\ (Got(q)' => Got(q))
    BY <2>1, <2>2 DEF Coming, Got, Served
  <2> QED
    BY <2>1, <2>3, WalksStay
<1>7. ASSUME UNCHANGED vars
      PROVE  Kept
  <2>1. UNCHANGED <<table, endpoint, cred, role, ask, rows, seen, twice, steady, moved>>
        /\ UNCHANGED <<pc, code>>
    BY <1>7 DEF vars, admissionVars, tableVars, pageVars, walkVars
  <2>2. \A q \in Request : (Coming(q)' => Coming(q)) /\ (Got(q)' => Got(q))
    BY <2>1 DEF Coming, Got, Served
  <2> QED
    BY <2>1, <2>2, WalksStay
<1>8. Kept
  BY <1>1, <1>2, <1>3, <1>4, <1>5, <1>6, <1>7 DEF Next, ListStep
<1>9. UsersKnown'
  BY UsersStep DEF WalkInv
<1> QED
  BY <1>8, <1>9 DEF WalkInv

LEMMA WalkInvImpliesWhole ==
    ASSUME WalkInv
    PROVE  WalksAreWhole
<1>1. ASSUME NEW r \in Request, ask[r].walk, WalkOver(r), ~Bound(r), endpoint[r].offset,
             "delete" \notin moved[r], ~Tied(table \union seen[r]),
             NEW x \in Selected(r) \intersect steady[r], x \notin seen[r]
      PROVE  FALSE
  <2>1. Served(r) /\ Got(r) /\ Len(rows[r]) # LimitOf(ask[r])
    BY <1>1 DEF WalkOver, FullPage, Served, Got
  <2>2. WalkOf(r) /\ user[r] = cred[r].tenant
    BY <1>1, <2>1 DEF WalkInv, WalksUnderWay, UsersKnown
  <2>3. x \in Mine(r)
    BY <1>1, <2>2 DEF Selected, Mine
  <2> QED
    BY <1>1, <2>1, <2>2, <2>3 DEF WalkOf, MissingIsAhead
<1>2. NothingMissed
  BY <1>1 DEF NothingMissed
<1> QED
  BY <1>2 DEF WalksAreWhole, WalkInv

\* A walk gives every row that stays and that no deletion pushes past its page, and gives
\* none twice while nobody writes, for any table, limit, endpoint and width of the offset.
THEOREM WalksAreComplete == Spec => []WalksAreWhole
BY TypeInit, TypeStep, ApartInit, ApartStep, WalkInit, WalkStep, WalkInvImpliesWhole, PTL DEF Spec

=============================================================================
