--------------------- MODULE OpsManagerCollectorProofs ----------------------
(***************************************************************************)
(* Proofs about OpsManagerCollector: that what is returned accounts for    *)
(* the products the operator left alone, whatever he does to the others    *)
(* and however many there are.                                             *)
(***************************************************************************)
EXTENDS OpsManagerCollector, FiniteSetTheorems, FunctionTheorems,
        SequenceTheorems, TLAPS

Occurs(s, r) == \E i \in 1..Len(s) : s[i] = r
Distinct(s) == \A i, j \in 1..Len(s) : s[i] = s[j] => i = j

ProductKinds == {"resources", "properties"}
ProductAsks(S) == {Request(p, kind) : p \in S, kind \in ProductKinds}
ReportKinds == {"deployed_products", "vm_types", "diagnostic_report",
                "installations", "certificates", "certificate_authorities",
                "product_changes"}
Reports == {Report(kind) : kind \in ReportKinds}
Asks == ProductAsks(Products) \cup Reports

AnyBody == Versions \cup {None} \cup [Products -> Versions \cup {None}]
             \cup ChangeLists
Items == [request : Asks, body : AnyBody]

Collected(r) == \E i \in 1..Len(data) : data[i].request = r
Planned(r) == Collected(r) \/ Occurs(requests, r)

-----------------------------------------------------------------------------
(* The variables that the answers do not come into.                        *)
KindInv ==
  /\ operationalOnly \in BOOLEAN
  /\ deployed \in [Products -> Versions \cup {None}]
  /\ staged \in [Products -> Versions \cup {None}]
  /\ edits \in 0..MaxEdits
  /\ touched \in SUBSET Products
  /\ step \in {"pending changes", "products", "retrieve", "returned"}
  /\ deleted \in SUBSET Products
  /\ warned \in BOOLEAN
  /\ foundationId \in {Director, None}
  /\ result \in {"running", "success", "failed", "fatal", "panicked"}
  /\ result = "running" <=> step # "returned"
  /\ step \in {"pending changes", "products"} => data = <<>> /\ requests = <<>>
  /\ step = "returned" => requests = <<>>

(* Every request is made once: those answered and those to come differ.    *)
OnceInv ==
  /\ requests \in Seq(Asks) /\ Distinct(requests)
  /\ data \in Seq(Items)
  /\ \A i, j \in 1..Len(data) : data[i].request = data[j].request => i = j
  /\ \A i \in 1..Len(data), j \in 1..Len(requests) :
       data[i].request # requests[j]

(* The first two answers are as good as new for an untouched product.      *)
AnswersInv ==
  step # "pending changes" /\ result \in {"running", "success"} =>
    \A p \in Products \ touched :
      /\ ~warned => deployed[p] = staged[p]
      /\ p \in deleted <=> Changes[p] = "delete"

(* And so is the plan made from them,                                      *)
PlanInv ==
  step = "retrieve" \/ Reported =>
    /\ Director \notin touched =>
         (foundationId = Director <=>
            deployed[Director] # None /\ Director \notin deleted)
    /\ \A p \in Products \ touched : \A kind \in ProductKinds :
         Planned(Request(p, kind)) <=>
           deployed[p] # None /\ p \notin deleted /\ p # Director
    /\ ~operationalOnly => /\ Planned(Report("deployed_products"))
                           /\ Planned(Report("product_changes"))

(* and what was retrieved.                                                 *)
BodyInv ==
  \A i \in 1..Len(data) :
    /\ data[i].body \in BodiesOf(data[i].request)
    /\ data[i].request.of \in Products \ touched =>
         data[i].body = staged[data[i].request.of]
    /\ data[i].request = Report("deployed_products") =>
         \A p \in Products \ touched : data[i].body[p] = deployed[p]
    /\ data[i].request = Report("product_changes") =>
         \A p \in Products \ touched : data[i].body[p] = Changes[p]

IInv == KindInv /\ OnceInv /\ AnswersInv /\ PlanInv /\ BodyInv

-----------------------------------------------------------------------------
(* Sequences put together.                                                 *)
LEMMA ConcatOccurs ==
  ASSUME NEW S, NEW s \in Seq(S), NEW t \in Seq(S), NEW r
  PROVE  Occurs(s \o t, r) <=> Occurs(s, r) \/ Occurs(t, r)
<1>1. /\ Len(s \o t) = Len(s) + Len(t) /\ Len(s) \in Nat /\ Len(t) \in Nat
      /\ \A i \in 1..Len(s) + Len(t) :
           (s \o t)[i] = IF i <= Len(s) THEN s[i] ELSE t[i - Len(s)]
  OBVIOUS
<1>2. ASSUME Occurs(s \o t, r) PROVE Occurs(s, r) \/ Occurs(t, r)
  <2>1. PICK i \in 1..Len(s) + Len(t) : (s \o t)[i] = r
    BY <1>1, <1>2 DEF Occurs
  <2>2. CASE i <= Len(s)
    BY <1>1, <2>1, <2>2 DEF Occurs
  <2>3. CASE ~(i <= Len(s))
    <3>1. i - Len(s) \in 1..Len(t) /\ t[i - Len(s)] = r
      BY <1>1, <2>1, <2>3
    <3> QED
      BY <3>1 DEF Occurs
  <2> QED
    BY <2>2, <2>3
<1>3. ASSUME Occurs(s, r) PROVE Occurs(s \o t, r)
  BY <1>1, <1>3 DEF Occurs
<1>4. ASSUME Occurs(t, r) PROVE Occurs(s \o t, r)
  <2>1. PICK i \in 1..Len(t) : t[i] = r
    BY <1>4 DEF Occurs
  <2>2. i + Len(s) \in 1..Len(s) + Len(t) /\ (s \o t)[i + Len(s)] = r
    BY <1>1, <2>1
  <2> QED
    BY <1>1, <2>2 DEF Occurs
<1> QED
  BY <1>2, <1>3, <1>4

LEMMA ConcatDistinct ==
  ASSUME NEW S, NEW s \in Seq(S), NEW t \in Seq(S), Distinct(s), Distinct(t),
         \A i \in 1..Len(s), j \in 1..Len(t) : s[i] # t[j]
  PROVE  Distinct(s \o t)
<1>1. /\ Len(s \o t) = Len(s) + Len(t) /\ Len(s) \in Nat /\ Len(t) \in Nat
      /\ \A i \in 1..Len(s) + Len(t) :
           (s \o t)[i] = IF i <= Len(s) THEN s[i] ELSE t[i - Len(s)]
  OBVIOUS
<1> SUFFICES ASSUME NEW i \in 1..Len(s) + Len(t), NEW j \in 1..Len(s) + Len(t),
                    (s \o t)[i] = (s \o t)[j]
             PROVE  i = j
  BY <1>1 DEF Distinct
<1>2. CASE i <= Len(s) /\ j <= Len(s)
  BY <1>1, <1>2 DEF Distinct
<1>3. CASE ~(i <= Len(s)) /\ ~(j <= Len(s))
  <2>1. /\ i - Len(s) \in 1..Len(t) /\ j - Len(s) \in 1..Len(t)
        /\ t[i - Len(s)] = t[j - Len(s)]
    BY <1>1, <1>3
  <2>2. i - Len(s) = j - Len(s)
    BY <2>1 DEF Distinct
  <2> QED
    BY <1>1, <2>2
<1>4. CASE i <= Len(s) /\ ~(j <= Len(s))
  <2>1. i \in 1..Len(s) /\ j - Len(s) \in 1..Len(t) /\ s[i] = t[j - Len(s)]
    BY <1>1, <1>4
  <2> QED
    BY <2>1
<1>5. CASE ~(i <= Len(s)) /\ j <= Len(s)
  <2>1. j \in 1..Len(s) /\ i - Len(s) \in 1..Len(t) /\ s[j] = t[i - Len(s)]
    BY <1>1, <1>5
  <2> QED
    BY <2>1
<1> QED
  BY <1>2, <1>3, <1>4, <1>5

(* A list of products in some order has each of them.                      *)
LEMMA OrdersAreOnto ==
  ASSUME NEW S, IsFiniteSet(S), NEW list \in Orders(S)
  PROVE  /\ list \in Seq(S)
         /\ Distinct(list)
         /\ \A p \in S : Occurs(list, p)
<1>1. /\ Cardinality(S) \in Nat /\ list \in [1..Cardinality(S) -> S]
      /\ \A i, j \in 1..Cardinality(S) : list[i] = list[j] => i = j
  BY FS_CardinalityType DEF Orders
<1>2. list \in Seq(S) /\ Len(list) = Cardinality(S)
  BY <1>1
<1>3. list \in Injection(1..Cardinality(S), S)
  BY <1>1 DEF Injection, IsInjective
<1>4. Cardinality(1..Cardinality(S)) = Cardinality(S)
  BY <1>1, FS_Interval
<1>5. list \in Surjection(1..Cardinality(S), S)
  BY <1>3, <1>4, FS_Injection
<1> QED
  BY <1>1, <1>2, <1>5 DEF Surjection, Distinct, Occurs

(* What is asked about a list of products.                                 *)
LEMMA ProductsAsked ==
  ASSUME NEW S \in SUBSET Products, NEW list \in Seq(S), Distinct(list),
         \A p \in S : Occurs(list, p)
  PROVE  /\ RequestsFor(list) \in Seq(ProductAsks(S))
         /\ Distinct(RequestsFor(list))
         /\ \A r : Occurs(RequestsFor(list), r) <=> r \in ProductAsks(S)
<1> DEFINE n == Len(list)
           s == RequestsFor(list)
           place(i) == (i + 1) \div 2
           kind(i) == IF i % 2 = 1 THEN "resources" ELSE "properties"
<1>1. n \in Nat /\ \A i \in 1..n : list[i] \in S
  OBVIOUS
<1>2. s = [i \in 1..2 * n |-> Request(list[place(i)], kind(i))]
  BY <1>1 DEF RequestsFor, ProductRequests
<1> HIDE DEF s
<1>3. \A i \in 1..2 * n : place(i) \in 1..n /\ kind(i) \in ProductKinds
  BY <1>1 DEF ProductKinds
<1>4. \A i, j \in 1..2 * n : place(i) = place(j) /\ kind(i) = kind(j) => i = j
  BY <1>1
<1>5. s \in Seq(ProductAsks(S)) /\ Len(s) = 2 * n
  <2>1. ASSUME NEW i \in 1..2 * n PROVE s[i] \in ProductAsks(S)
    BY <1>1, <1>2, <1>3 DEF ProductAsks
  <2>2. s \in [1..2 * n -> ProductAsks(S)] /\ 2 * n \in Nat
    BY <1>1, <1>2, <2>1
  <2> QED
    BY <2>2
<1>6. Distinct(s)
  <2> SUFFICES ASSUME NEW i \in 1..2 * n, NEW j \in 1..2 * n, s[i] = s[j]
               PROVE  i = j
    BY <1>5 DEF Distinct
  <2>1. list[place(i)] = list[place(j)] /\ kind(i) = kind(j)
    BY <1>2 DEF Request
  <2>2. place(i) = place(j)
    BY <1>3, <2>1 DEF Distinct
  <2> QED
    BY <1>4, <2>1, <2>2
<1>7. ASSUME NEW p \in S, NEW k \in ProductKinds
      PROVE  Occurs(s, Request(p, k))
  <2>1. PICK m \in 1..n : list[m] = p
    BY DEF Occurs
  <2> DEFINE i == IF k = "resources" THEN 2 * m - 1 ELSE 2 * m
  <2>2. i \in 1..2 * n /\ place(i) = m /\ kind(i) = k
    BY <1>1 DEF ProductKinds
  <2> HIDE DEF i
  <2>3. s[i] = Request(p, k)
    BY <1>2, <2>1, <2>2
  <2> QED
    BY <1>5, <2>2, <2>3 DEF Occurs
<1>8. ASSUME NEW r PROVE Occurs(s, r) <=> r \in ProductAsks(S)
  <2>1. ASSUME Occurs(s, r) PROVE r \in ProductAsks(S)
    BY <1>5, <2>1 DEF Occurs
  <2>2. ASSUME r \in ProductAsks(S) PROVE Occurs(s, r)
    <3>1. PICK p \in S, k \in ProductKinds : r = Request(p, k)
      BY <2>2 DEF ProductAsks
    <3> QED
      BY <1>7, <3>1
  <2> QED
    BY <2>1, <2>2
<1> QED
  BY <1>5, <1>6, <1>8 DEF s

(* Collect asks for reports and for the data of products, once each.       *)
LEMMA ReportsAsked ==
  /\ ReportsBefore \in Seq(Asks) /\ Distinct(ReportsBefore)
  /\ ReportsAfter \in Seq(Asks) /\ Distinct(ReportsAfter)
  /\ \A r : Occurs(ReportsBefore, r) <=>
            ~operationalOnly /\ r = Report("deployed_products")
  /\ \A r : Occurs(ReportsAfter, r) =>
            r \in Reports /\ r # Report("deployed_products")
  /\ ~operationalOnly => Occurs(ReportsAfter, Report("product_changes"))
<1>1. \A kind \in ReportKinds : Report(kind) \in Asks
  BY DEF Asks, Reports
<1>2. /\ ReportsBefore \in Seq(Asks) /\ Distinct(ReportsBefore)
      /\ \A r : Occurs(ReportsBefore, r) <=>
                ~operationalOnly /\ r = Report("deployed_products")
  <2>1. CASE operationalOnly
    BY <2>1 DEF ReportsBefore, Distinct, Occurs
  <2>2. CASE ~operationalOnly
    BY <1>1, <2>2 DEF ReportsBefore, Distinct, Occurs, ReportKinds
  <2> QED
    BY <2>1, <2>2
<1>3. /\ ReportsAfter \in Seq(Asks) /\ Distinct(ReportsAfter)
      /\ \A r : Occurs(ReportsAfter, r) =>
                r \in Reports /\ r # Report("deployed_products")
      /\ ~operationalOnly => Occurs(ReportsAfter, Report("product_changes"))
  <2>1. CASE operationalOnly
    BY <2>1 DEF ReportsAfter, Distinct, Occurs
  <2>2. CASE ~operationalOnly
    <3> DEFINE kinds == <<"vm_types", "diagnostic_report", "installations",
                          "certificates", "certificate_authorities",
                          "product_changes">>
    <3>1. /\ ReportsAfter \in Seq(Asks) /\ Len(ReportsAfter) = 6
          /\ \A i \in 1..6 : ReportsAfter[i] = Report(kinds[i])
      BY <1>1, <2>2 DEF ReportsAfter, ReportKinds
    <3>2. /\ \A i \in 1..6 : kinds[i] \in ReportKinds \ {"deployed_products"}
          /\ \A i, j \in 1..6 : kinds[i] = kinds[j] => i = j
          /\ kinds[6] = "product_changes"
      BY DEF ReportKinds
    <3> HIDE DEF kinds
    <3> QED
      BY <3>1, <3>2 DEF Distinct, Occurs, Reports, Report, Request
  <2> QED
    BY <2>1, <2>2
<1> QED
  BY <1>2, <1>3

(* The plan that the list of products leads to.                            *)
LEMMA PlanMade ==
  ASSUME NEW list \in Orders(WantedProducts), NEW plan,
         plan = ReportsBefore \o RequestsFor(list) \o ReportsAfter
  PROVE  /\ plan \in Seq(Asks) /\ Distinct(plan)
         /\ \A p \in Products, kind \in ProductKinds :
              Occurs(plan, Request(p, kind)) <=> p \in WantedProducts
         /\ ~operationalOnly => /\ Occurs(plan, Report("deployed_products"))
                                /\ Occurs(plan, Report("product_changes"))
<1> DEFINE mid == RequestsFor(list)
<1>1. WantedProducts \in SUBSET Products
  BY DEF WantedProducts
<1>2. IsFiniteSet(WantedProducts)
  BY <1>1, OpsManagerAssumption, FS_Subset
<1>3. /\ mid \in Seq(ProductAsks(WantedProducts)) /\ Distinct(mid)
      /\ \A r : Occurs(mid, r) <=> r \in ProductAsks(WantedProducts)
  BY <1>1, <1>2, OrdersAreOnto, ProductsAsked
<1>4. mid \in Seq(Asks)
  <2>1. ProductAsks(WantedProducts) \subseteq Asks
    BY <1>1 DEF ProductAsks, Asks
  <2> QED
    BY <1>3, <2>1
<1>5. \A r \in ProductAsks(WantedProducts) : r \notin Reports
  BY <1>1, OpsManagerAssumption DEF ProductAsks, Reports, Report, Request
<1> HIDE DEF mid
<1>6. /\ ReportsBefore \o mid \in Seq(Asks) /\ Distinct(ReportsBefore \o mid)
      /\ \A r : Occurs(ReportsBefore \o mid, r) <=>
                Occurs(ReportsBefore, r) \/ Occurs(mid, r)
  <2>1. ASSUME NEW i \in 1..Len(ReportsBefore), NEW j \in 1..Len(mid)
        PROVE  ReportsBefore[i] # mid[j]
    <3>1. Occurs(ReportsBefore, ReportsBefore[i]) /\ Occurs(mid, mid[j])
      BY DEF Occurs
    <3>2. ReportsBefore[i] \in Reports
      <4>1. ReportsBefore[i] = Report("deployed_products")
        BY <3>1, ReportsAsked
      <4> QED
        BY <4>1 DEF Reports, ReportKinds
    <3>3. mid[j] \notin Reports
      BY <1>3, <1>5, <3>1
    <3> QED
      BY <3>2, <3>3
  <2> QED
    BY <1>3, <1>4, <2>1, ReportsAsked, ConcatOccurs, ConcatDistinct
<1>7. /\ plan \in Seq(Asks) /\ Distinct(plan)
      /\ \A r : Occurs(plan, r) <=> \/ Occurs(ReportsBefore, r)
                                    \/ Occurs(mid, r)
                                    \/ Occurs(ReportsAfter, r)
  <2> DEFINE head == ReportsBefore \o mid
  <2>1. ASSUME NEW i \in 1..Len(head), NEW j \in 1..Len(ReportsAfter)
        PROVE  head[i] # ReportsAfter[j]
    <3>1. Occurs(head, head[i]) /\ Occurs(ReportsAfter, ReportsAfter[j])
      BY DEF Occurs
    <3>2. Occurs(ReportsBefore, head[i]) \/ Occurs(mid, head[i])
      BY <1>6, <3>1
    <3> HIDE DEF head
    <3> QED
      BY <1>3, <1>5, <3>1, <3>2, ReportsAsked
  <2>2. plan = head \o ReportsAfter
    BY DEF mid
  <2>3. /\ head \in Seq(Asks) /\ Distinct(head)
        /\ \A r : Occurs(head, r) <=> Occurs(ReportsBefore, r) \/ Occurs(mid, r)
    BY <1>6
  <2> HIDE DEF head
  <2>4. plan \in Seq(Asks) /\ Distinct(plan)
    BY <2>1, <2>2, <2>3, ReportsAsked, ConcatDistinct
  <2>5. ASSUME NEW r
        PROVE  Occurs(plan, r) <=> Occurs(head, r) \/ Occurs(ReportsAfter, r)
    BY <2>2, <2>3, ReportsAsked, ConcatOccurs
  <2> QED
    BY <2>3, <2>4, <2>5
<1>8. ASSUME NEW p \in Products, NEW kind \in ProductKinds
      PROVE  Occurs(plan, Request(p, kind)) <=> p \in WantedProducts
  <2>1. Request(p, kind) \notin Reports
    BY OpsManagerAssumption DEF Reports, Report, Request
  <2>2. Request(p, kind) \in ProductAsks(WantedProducts) <=> p \in WantedProducts
    <3>1. ASSUME Request(p, kind) \in ProductAsks(WantedProducts)
          PROVE  p \in WantedProducts
      <4>1. PICK q \in WantedProducts, k \in ProductKinds :
              Request(p, kind) = Request(q, k)
        BY <3>1 DEF ProductAsks
      <4> QED
        BY <4>1 DEF Request
    <3>2. ASSUME p \in WantedProducts
          PROVE  Request(p, kind) \in ProductAsks(WantedProducts)
      BY <3>2 DEF ProductAsks
    <3> QED
      BY <3>1, <3>2
  <2>3. Report("deployed_products") \in Reports
    BY DEF Reports, ReportKinds
  <2> QED
    BY <1>3, <1>7, <2>1, <2>2, <2>3, ReportsAsked
<1> QED
  BY <1>7, <1>8, ReportsAsked

-----------------------------------------------------------------------------
(* Nothing was asked yet.                                                  *)
LEMMA InitEstablishesIInv == Init => IInv
<1> SUFFICES ASSUME Init PROVE IInv
  OBVIOUS
<1>1. KindInv
  <2>1. 0 \in 0..MaxEdits
    BY OpsManagerAssumption
  <2> QED
    BY <2>1 DEF Init, KindInv
<1>2. /\ data = <<>> /\ requests = <<>> /\ 1..Len(data) = {}
      /\ 1..Len(requests) = {}
  <2>1. <<>> \in Seq(Asks) /\ Len(<<>>) = 0
    BY EmptySeq
  <2>2. data = <<>> /\ requests = <<>>
    BY DEF Init
  <2>3. Len(data) = 0 /\ Len(requests) = 0
    BY <2>1, <2>2
  <2>4. 1..0 = {}
    OBVIOUS
  <2> QED
    BY <2>2, <2>3, <2>4
<1>3. OnceInv
  BY <1>2, EmptySeq DEF OnceInv, Distinct
<1>4. BodyInv
  BY <1>2 DEF BodyInv
<1>5. AnswersInv /\ PlanInv
  BY DEF Init, AnswersInv, PlanInv, Reported
<1> QED
  BY <1>1, <1>3, <1>4, <1>5 DEF IInv

(* The operator: a product he leaves alone stays as it is.                 *)
LEMMA EditKeepsIInv ==
  ASSUME IInv, result = "running", edits < MaxEdits,
         deployed' \in [Products -> Versions \cup {None}],
         staged' \in [Products -> Versions \cup {None}],
         edits' = edits + 1,
         touched' = touched \cup {p \in Products : \/ deployed[p] # deployed'[p]
                                                  \/ staged[p] # staged'[p]},
         UNCHANGED <<operationalOnly, collectVars>>
  PROVE  IInv'
<1>1. UNCHANGED <<operationalOnly, step, deleted, warned, requests, data,
                  foundationId, result>>
  BY DEF collectVars
<1>2. KindInv'
  <2>1. edits + 1 \in 0..MaxEdits
    <3>1. edits \in 0..MaxEdits /\ MaxEdits \in Nat
      BY OpsManagerAssumption DEF IInv, KindInv
    <3> QED
      BY <3>1
  <2>2. touched' \in SUBSET Products
    BY DEF IInv, KindInv
  <2> QED
    BY <1>1, <2>1, <2>2 DEF IInv, KindInv
<1>3. OnceInv'
  BY <1>1 DEF IInv, OnceInv
<1>4. ASSUME NEW p \in Products \ touched'
      PROVE  /\ p \in Products \ touched
             /\ deployed'[p] = deployed[p] /\ staged'[p] = staged[p]
             /\ Changes'[p] = Changes[p]
  BY DEF Changes
<1>5. AnswersInv'
  BY <1>1, <1>4 DEF IInv, AnswersInv
<1>6. PlanInv'
  <2>1. Director \in Products
    BY OpsManagerAssumption
  <2> QED
    BY <1>1, <1>4, <2>1 DEF IInv, PlanInv, Reported, Planned, Collected
<1>7. BodyInv'
  <2>1. ASSUME NEW i \in 1..Len(data)
        PROVE  /\ data[i].body \in BodiesOf(data[i].request)
               /\ data[i].request.of \in Products \ touched' =>
                    data[i].body = staged'[data[i].request.of]
               /\ data[i].request = Report("deployed_products") =>
                    \A p \in Products \ touched' : data[i].body[p] = deployed'[p]
               /\ data[i].request = Report("product_changes") =>
                    \A p \in Products \ touched' : data[i].body[p] = Changes'[p]
    BY <1>4 DEF IInv, BodyInv
  <2> QED
    BY <1>1, <2>1 DEF BodyInv
<1> QED
  BY <1>2, <1>3, <1>5, <1>6, <1>7 DEF IInv

(* A failure returns nothing.                                              *)
LEMMA FailKeepsIInv ==
  ASSUME IInv, NEW how \in {"failed", "fatal", "panicked"}, Fail(how)
  PROVE  IInv'
<1>1. /\ UNCHANGED <<operationalOnly, deployed, staged, edits, touched, deleted, warned>>
      /\ step' = "returned" /\ result' = how /\ result' # "success"
      /\ data' = <<>> /\ requests' = <<>> /\ foundationId' = None
  BY DEF Fail, opsManagerVars
<1>2. KindInv'
  BY <1>1 DEF IInv, KindInv
<1>3. OnceInv'
  BY <1>1 DEF OnceInv, Distinct
<1>4. BodyInv' /\ PlanInv' /\ AnswersInv'
  BY <1>1 DEF BodyInv, PlanInv, AnswersInv, Reported
<1> QED
  BY <1>1, <1>2, <1>3, <1>4 DEF IInv

(* The pending changes, as they are at this moment.                        *)
LEMMA ListStagedPendingChangesKeepsIInv ==
  ASSUME IInv, ListStagedPendingChanges
  PROVE  IInv'
<1>1. /\ UNCHANGED <<operationalOnly, deployed, staged, edits, touched, requests,
                     data, foundationId, result>>
      /\ step = "pending changes" /\ step' = "products"
      /\ warned' = (\E p \in Products : Changes[p] # "unchanged")
      /\ deleted' = {p \in Products : Changes[p] = "delete"}
  BY DEF ListStagedPendingChanges, opsManagerVars, HasPendingChanges,
         DeletedPendingChanges
<1>2. KindInv'
  BY <1>1 DEF IInv, KindInv
<1>3. OnceInv'
  BY <1>1 DEF IInv, OnceInv
<1>4. \A p \in Products : Changes[p] = "unchanged" => deployed[p] = staged[p]
  BY DEF Changes
<1>5. Changes' = Changes
  BY <1>1 DEF Changes
<1>6. AnswersInv'
  BY <1>1, <1>4, <1>5 DEF AnswersInv
<1>7. PlanInv'
  <2>1. step' # "retrieve" /\ result' = "running"
    BY <1>1 DEF IInv, KindInv
  <2> QED
    BY <2>1 DEF PlanInv, Reported
<1>8. BodyInv'
  BY <1>1, <1>5 DEF IInv, BodyInv
<1> QED
  BY <1>2, <1>3, <1>6, <1>7, <1>8 DEF IInv

(* The deployed products, and with them the plan.                          *)
LEMMA ListDeployedProductsKeepsIInv ==
  ASSUME IInv, ListDeployedProducts
  PROVE  IInv'
<1>1. /\ UNCHANGED <<operationalOnly, deployed, staged, edits, touched, deleted,
                     warned, data, result>>
      /\ step = "products" /\ step' = "retrieve"
      /\ foundationId' = IF deployed[Director] # None /\ Director \notin deleted
                            THEN Director ELSE None
      /\ data = <<>> /\ result = "running"
  BY DEF ListDeployedProducts, opsManagerVars, IInv, KindInv
<1>2. PICK list \in Orders(WantedProducts) :
        requests' = ReportsBefore \o RequestsFor(list) \o ReportsAfter
  BY DEF ListDeployedProducts
<1>3. /\ requests' \in Seq(Asks) /\ Distinct(requests')
      /\ \A p \in Products, kind \in ProductKinds :
           Occurs(requests', Request(p, kind)) <=> p \in WantedProducts
      /\ ~operationalOnly => /\ Occurs(requests', Report("deployed_products"))
                             /\ Occurs(requests', Report("product_changes"))
  BY <1>2, PlanMade
<1>4. Len(data) = 0 /\ 1..0 = {}
  <2>1. <<>> \in Seq(Asks) /\ Len(<<>>) = 0
    BY EmptySeq
  <2> QED
    BY <1>1, <2>1
<1>5. KindInv'
  BY <1>1 DEF IInv, KindInv
<1>6. OnceInv'
  BY <1>1, <1>3, <1>4 DEF IInv, OnceInv
<1>7. AnswersInv'
  <2>1. Changes' = Changes
    BY <1>1 DEF Changes
  <2> QED
    BY <1>1, <2>1 DEF IInv, AnswersInv
<1>8. PlanInv'
  <2>1. \A r : Planned(r)' <=> Occurs(requests', r)
    BY <1>1, <1>4 DEF Planned, Collected
  <2>2. \A p \in Products : p \in WantedProducts <=>
          deployed[p] # None /\ p \notin deleted /\ p # Director
    BY DEF WantedProducts
  <2>3. foundationId' = Director <=>
          deployed[Director] # None /\ Director \notin deleted
    BY <1>1, OpsManagerAssumption
  <2>4. \A p \in Products, kind \in ProductKinds :
          Planned(Request(p, kind))' <=>
            deployed[p] # None /\ p \notin deleted /\ p # Director
    BY <1>3, <2>1, <2>2
  <2>5. ~operationalOnly => /\ Planned(Report("deployed_products"))'
                            /\ Planned(Report("product_changes"))'
    BY <1>3, <2>1
  <2> QED
    BY <1>1, <2>3, <2>4, <2>5 DEF PlanInv
<1>9. BodyInv'
  BY <1>1, <1>4 DEF BodyInv
<1> QED
  BY <1>5, <1>6, <1>7, <1>8, <1>9 DEF IInv

(* What a request returns is of its kind, and of this moment.              *)
LEMMA BodyFits ==
  ASSUME IInv, NEW r \in Asks, Found(r)
  PROVE  /\ BodyOf(r) \in BodiesOf(r) /\ BodyOf(r) \in AnyBody
         /\ r.of \in Products => BodyOf(r) = staged[r.of]
         /\ r = Report("deployed_products") => BodyOf(r) = deployed
         /\ r = Report("product_changes") => BodyOf(r) = Changes
<1>1. /\ deployed \in [Products -> Versions \cup {None}]
      /\ staged \in [Products -> Versions \cup {None}]
  BY DEF IInv, KindInv
<1>2. CASE r \in ProductAsks(Products)
  <2>1. PICK p \in Products, kind \in ProductKinds : r = Request(p, kind)
    BY <1>2 DEF ProductAsks
  <2>2. /\ r.of = p /\ r.kind = kind /\ p \in Products
        /\ r.kind # "deployed_products" /\ r.kind # "product_changes"
    BY <2>1 DEF Request, ProductKinds
  <2>3. BodyOf(r) = staged[r.of] /\ BodiesOf(r) = Versions
    BY <2>2 DEF BodyOf, BodiesOf
  <2>4. staged[r.of] \in Versions
    BY <1>1, <2>2 DEF Found
  <2>5. r # Report("deployed_products") /\ r # Report("product_changes")
    BY <2>1, <2>2 DEF Report, Request
  <2> QED
    BY <2>3, <2>4, <2>5 DEF AnyBody
<1>3. CASE r \in Reports
  <2>1. PICK kind \in ReportKinds : r = Report(kind)
    BY <1>3 DEF Reports
  <2>2. r.kind = kind /\ r.of \notin Products
    BY <2>1, OpsManagerAssumption DEF Report, Request
  <2>3. Changes \in ChangeLists
    BY DEF Changes, ChangeLists
  <2>4. CASE kind = "deployed_products"
    <3>1. BodyOf(r) = deployed
          /\ BodiesOf(r) = [Products -> Versions \cup {None}]
      BY <2>2, <2>4 DEF BodyOf, BodiesOf
    <3>2. r # Report("product_changes")
      BY <2>1, <2>2, <2>4 DEF Report, Request
    <3> QED
      BY <1>1, <2>2, <3>1, <3>2 DEF AnyBody
  <2>5. CASE kind = "product_changes"
    <3>1. BodyOf(r) = Changes /\ BodiesOf(r) = ChangeLists
      BY <2>2, <2>5 DEF BodyOf, BodiesOf
    <3>2. r # Report("deployed_products")
      BY <2>1, <2>2, <2>5 DEF Report, Request
    <3> QED
      BY <2>2, <2>3, <3>1, <3>2 DEF AnyBody
  <2>6. CASE kind \notin {"deployed_products", "product_changes"}
    <3>1. BodyOf(r) = None /\ BodiesOf(r) = {None}
      BY <2>2, <2>6 DEF BodyOf, BodiesOf
    <3>2. r # Report("deployed_products") /\ r # Report("product_changes")
      BY <2>1, <2>2, <2>6 DEF Report, Request
    <3> QED
      BY <2>2, <3>1, <3>2 DEF AnyBody
  <2> QED
    BY <2>4, <2>5, <2>6
<1> QED
  BY <1>2, <1>3 DEF Asks

(* An answer: the request moves from what is to come to what is there.     *)
LEMMA RetrieveKeepsIInv ==
  ASSUME IInv, Retrieve
  PROVE  IInv'
<1>1. /\ UNCHANGED <<operationalOnly, deployed, staged, edits, touched, step,
                     deleted, warned, foundationId, result>>
      /\ step = "retrieve" /\ requests # <<>>
  BY DEF Retrieve, opsManagerVars
<1>2. /\ requests \in Seq(Asks) /\ data \in Seq(Items)
      /\ Len(requests) \in Nat \ {0} /\ Len(data) \in Nat
  BY <1>1, EmptySeq DEF IInv, OnceInv
<1>3. PICK r \in Asks : r = Head(requests)
  BY <1>1, <1>2
<1>4. PICK b \in AnyBody :
        /\ b = BodyOf(r) /\ b \in BodiesOf(r)
        /\ r.of \in Products => b = staged[r.of]
        /\ r = Report("deployed_products") => b = deployed
        /\ r = Report("product_changes") => b = Changes
  <2>1. Found(r)
    BY <1>3 DEF Retrieve
  <2> QED
    BY <2>1, BodyFits
<1>5. data' = Append(data, [request |-> r, body |-> b])
  BY <1>3, <1>4 DEF Retrieve, Retrieved
<1>6. /\ data' \in Seq(Items) /\ Len(data') = Len(data) + 1
      /\ \A i \in 1..Len(data) : data'[i] = data[i]
      /\ data'[Len(data) + 1].request = r /\ data'[Len(data) + 1].body = b
  <2>1. [request |-> r, body |-> b] \in Items
    BY DEF Items
  <2> QED
    BY <1>2, <1>5, <2>1, AppendProperties
<1>7. /\ requests' \in Seq(Asks) /\ Len(requests') = Len(requests) - 1
      /\ \A j \in 1..Len(requests) - 1 : requests'[j] = requests[j + 1]
      /\ requests[1] = r
  <2>1. requests' = Tail(requests)
    BY DEF Retrieve
  <2> QED
    BY <1>1, <1>2, <1>3, <2>1, HeadTailProperties
<1>8. KindInv'
  BY <1>1 DEF IInv, KindInv
<1>9. OnceInv'
  <2>1. \A i \in 1..Len(data) : data[i].request # r
    BY <1>2, <1>7 DEF IInv, OnceInv
  <2>2. \A j \in 1..Len(requests) - 1 :
          j + 1 \in 1..Len(requests) /\ requests[j + 1] # r
    BY <1>2, <1>7 DEF IInv, OnceInv, Distinct
  <2>3. Distinct(requests')
    <3> SUFFICES ASSUME NEW i \in 1..Len(requests) - 1,
                        NEW j \in 1..Len(requests) - 1,
                        requests'[i] = requests'[j]
                 PROVE  i = j
      BY <1>7 DEF Distinct
    <3>1. requests[i + 1] = requests[j + 1]
      BY <1>7
    <3>2. i + 1 = j + 1
      BY <2>2, <3>1 DEF IInv, OnceInv, Distinct
    <3> QED
      BY <3>2
  <2>4. ASSUME NEW i \in 1..Len(data) + 1, NEW j \in 1..Len(data) + 1,
               data'[i].request = data'[j].request
        PROVE  i = j
    <3>1. CASE i <= Len(data) /\ j <= Len(data)
      BY <1>2, <1>6, <2>4, <3>1 DEF IInv, OnceInv
    <3>2. CASE ~(i <= Len(data)) \/ ~(j <= Len(data))
      BY <1>2, <1>6, <2>1, <2>4, <3>2
    <3> QED
      BY <3>1, <3>2
  <2>5. ASSUME NEW i \in 1..Len(data) + 1, NEW j \in 1..Len(requests) - 1
        PROVE  data'[i].request # requests'[j]
    <3> DEFINE k == j + 1
    <3>0. k \in 1..Len(requests) /\ requests'[j] = requests[k] /\ requests[k] # r
      BY <1>7, <2>2
    <3> HIDE DEF k
    <3>1. CASE i <= Len(data)
      <4>1. i \in 1..Len(data) /\ data'[i] = data[i]
        BY <1>2, <1>6, <3>1
      <4> QED
        BY <3>0, <4>1 DEF IInv, OnceInv
    <3>2. CASE ~(i <= Len(data))
      <4>1. data'[i].request = r
        BY <1>2, <1>6, <3>2
      <4> QED
        BY <3>0, <4>1
    <3> QED
      BY <3>1, <3>2
  <2> QED
    BY <1>6, <1>7, <2>3, <2>4, <2>5 DEF OnceInv
<1>10. Changes' = Changes
  BY <1>1 DEF Changes
<1>11. AnswersInv'
  BY <1>1, <1>10 DEF IInv, AnswersInv
<1>12. PlanInv'
  <2>1. ASSUME NEW q PROVE Planned(q)' <=> Planned(q)
    <3>1. Collected(q)' <=> Collected(q) \/ q = r
      <4>1. ASSUME NEW i \in 1..Len(data) + 1, data'[i].request = q
            PROVE  Collected(q) \/ q = r
        BY <1>2, <1>6, <4>1 DEF Collected
      <4>2. 1..Len(data) \subseteq 1..Len(data) + 1
            /\ Len(data) + 1 \in 1..Len(data) + 1
        BY <1>2
      <4> QED
        BY <1>6, <4>1, <4>2 DEF Collected
    <3>2. Occurs(requests, q) <=> Occurs(requests', q) \/ q = r
      <4>1. ASSUME NEW i \in 1..Len(requests), requests[i] = q
            PROVE  Occurs(requests', q) \/ q = r
        <5>1. CASE i = 1
          BY <1>7, <4>1, <5>1
        <5>2. CASE i # 1
          <6>1. i - 1 \in 1..Len(requests) - 1 /\ requests'[i - 1] = q
            BY <1>2, <1>7, <4>1, <5>2
          <6> QED
            BY <1>7, <6>1 DEF Occurs
        <5> QED
          BY <5>1, <5>2
      <4>2. ASSUME NEW j \in 1..Len(requests) - 1, requests'[j] = q
            PROVE  Occurs(requests, q)
        <5>1. j + 1 \in 1..Len(requests) /\ requests[j + 1] = q
          BY <1>2, <1>7, <4>2
        <5> QED
          BY <5>1 DEF Occurs
      <4>3. Occurs(requests, r)
        BY <1>2, <1>7 DEF Occurs
      <4> QED
        BY <1>7, <4>1, <4>2, <4>3 DEF Occurs
    <3> QED
      BY <3>1, <3>2 DEF Planned
  <2> QED
    BY <1>1, <2>1 DEF IInv, PlanInv, Reported
<1>13. BodyInv'
  <2> SUFFICES ASSUME NEW i \in 1..Len(data) + 1
               PROVE  /\ data'[i].body \in BodiesOf(data'[i].request)
                      /\ data'[i].request.of \in Products \ touched =>
                           data'[i].body = staged[data'[i].request.of]
                      /\ data'[i].request = Report("deployed_products") =>
                           \A p \in Products \ touched :
                             data'[i].body[p] = deployed[p]
                      /\ data'[i].request = Report("product_changes") =>
                           \A p \in Products \ touched :
                             data'[i].body[p] = Changes[p]
    BY <1>1, <1>6, <1>10 DEF BodyInv
  <2>1. CASE i <= Len(data)
    <3>1. i \in 1..Len(data) /\ data'[i] = data[i]
      BY <1>2, <1>6, <2>1
    <3> QED
      BY <3>1 DEF IInv, BodyInv
  <2>2. CASE ~(i <= Len(data))
    <3>1. data'[i].request = r /\ data'[i].body = b
      BY <1>2, <1>6, <2>2
    <3> QED
      BY <1>4, <3>1
  <2> QED
    BY <2>1, <2>2
<1> QED
  BY <1>8, <1>9, <1>11, <1>12, <1>13 DEF IInv

(* The end.                                                                *)
LEMMA ReturnKeepsIInv ==
  ASSUME IInv, Return
  PROVE  IInv'
<1>1. /\ UNCHANGED <<operationalOnly, deployed, staged, edits, touched, deleted,
                     warned, requests, foundationId>>
      /\ step = "retrieve" /\ step' = "returned" /\ requests = <<>>
      /\ result = "running" /\ result' = "success"
      /\ data' = IF operationalOnly THEN <<>> ELSE data
  BY DEF Return, opsManagerVars, IInv, KindInv
<1>2. data' \in Seq(Items) /\ Len(<<>>) = 0 /\ 1..0 = {}
  <2>1. <<>> \in Seq(Items) /\ Len(<<>>) = 0
    BY EmptySeq
  <2> QED
    BY <1>1, <2>1 DEF IInv, OnceInv
<1>3. KindInv'
  BY <1>1 DEF IInv, KindInv
<1>4. OnceInv'
  BY <1>1, <1>2 DEF IInv, OnceInv
<1>5. Changes' = Changes
  BY <1>1 DEF Changes
<1>6. AnswersInv'
  BY <1>1, <1>5 DEF IInv, AnswersInv
<1>7. PlanInv'
  <2> SUFFICES ASSUME ~operationalOnly
               PROVE  PlanInv'
    BY <1>1 DEF PlanInv, Reported
  <2>1. data' = data
    BY <1>1
  <2> QED
    BY <1>1, <2>1 DEF IInv, PlanInv, Reported, Planned, Collected
<1>8. BodyInv'
  <2>1. CASE operationalOnly
    BY <1>1, <1>2, <2>1 DEF BodyInv
  <2>2. CASE ~operationalOnly
    BY <1>1, <1>5, <2>2 DEF IInv, BodyInv
  <2> QED
    BY <2>1, <2>2 DEF IInv, KindInv
<1> QED
  BY <1>3, <1>4, <1>6, <1>7, <1>8 DEF IInv

(* IInv is inductive.                                                      *)
LEMMA NextKeepsIInv == IInv /\ [Next]_vars => IInv'
<1> SUFFICES ASSUME IInv, [Next]_vars PROVE IInv'
  OBVIOUS
<1>1. /\ deployed \in [Products -> Versions \cup {None}]
      /\ staged \in [Products -> Versions \cup {None}]
  BY DEF IInv, KindInv
<1>2. ASSUME NEW p \in Products, NEW version \in Versions \cup {None},
             Stage(p, version)
      PROVE  IInv'
  BY <1>1, <1>2, EditKeepsIInv DEF Stage, Edit
<1>3. CASE Revert \/ ApplyChanges
  BY <1>1, <1>3, EditKeepsIInv DEF Revert, ApplyChanges, Edit
<1>4. CASE ListStagedPendingChangesFails \/ ListDeployedProductsFails \/ RetrieveFails
  BY <1>4, FailKeepsIInv
  DEF ListStagedPendingChangesFails, ListDeployedProductsFails, RetrieveFails
<1>5. CASE UNCHANGED vars
  <2>1. /\ UNCHANGED <<operationalOnly, deployed, staged, edits, touched>>
        /\ UNCHANGED <<step, deleted, warned, requests, data, foundationId, result>>
    BY <1>5 DEF vars, opsManagerVars, collectVars
  <2>2. UNCHANGED Changes
    BY <2>1 DEF Changes
  <2>3. KindInv'
    BY <2>1 DEF IInv, KindInv
  <2>4. OnceInv'
    BY <2>1 DEF IInv, OnceInv
  <2>5. AnswersInv'
    BY <2>1, <2>2 DEF IInv, AnswersInv
  <2>6. PlanInv'
    BY <2>1 DEF IInv, PlanInv, Reported, Planned, Collected
  <2>7. BodyInv'
    BY <2>1, <2>2 DEF IInv, BodyInv
  <2> QED
    BY <2>3, <2>4, <2>5, <2>6, <2>7 DEF IInv
<1> QED
  BY <1>2, <1>3, <1>4, <1>5, ListStagedPendingChangesKeepsIInv,
     ListDeployedProductsKeepsIInv, RetrieveKeepsIInv, ReturnKeepsIInv
  DEF Next

LEMMA Invariance == Spec => []IInv
  BY InitEstablishesIInv, NextKeepsIInv, PTL DEF Spec

-----------------------------------------------------------------------------
(* Every variable keeps its type: no body of an error page is taken for    *)
(* data, whatever the operator deletes.                                    *)
THEOREM TypeCorrect == Spec => []TypeOK
<1>1. IInv => TypeOK
  <2> SUFFICES ASSUME IInv PROVE TypeOK
    OBVIOUS
  <2>1. Asks \subseteq Requests
    BY DEF Asks, ProductAsks, ProductKinds, Reports, ReportKinds, Report,
           Request, Requests, Kinds
  <2>2. requests \in Seq(Requests)
    BY <2>1 DEF IInv, OnceInv
  <2>3. ASSUME NEW i \in DOMAIN data
        PROVE  /\ data[i].request \in Requests
               /\ data[i].body \in BodiesOf(data[i].request)
    <3>1. data \in Seq(Items) /\ i \in 1..Len(data)
      BY DEF IInv, OnceInv
    <3>2. data[i] \in Items
      BY <3>1
    <3> QED
      BY <2>1, <3>1, <3>2 DEF Items, IInv, BodyInv
  <2> QED
    BY <2>2, <2>3 DEF IInv, KindInv, TypeOK
<1> QED
  BY <1>1, Invariance, PTL

(* No two files of a collection have one name, for any number of products. *)
THEOREM NamesApart == Spec => []FilesHaveTheirOwnNames
<1>1. IInv => FilesHaveTheirOwnNames
  <2> SUFFICES ASSUME IInv PROVE FilesHaveTheirOwnNames
    OBVIOUS
  <2>1. DOMAIN data = 1..Len(data)
    BY DEF IInv, OnceInv
  <2> QED
    BY <2>1 DEF IInv, OnceInv, FilesHaveTheirOwnNames
<1> QED
  BY <1>1, Invariance, PTL

(* What the returned data holds about an untouched product.                *)
LEMMA ReportedData ==
  ASSUME IInv, Reported
  PROVE  /\ \A p \in Products \ touched :
              /\ DeployedProducts[p] = deployed[p]
              /\ ProductChanges[p] = Changes[p]
         /\ \A p \in Products \ touched : \A kind \in ProductKinds :
              /\ Has(p, kind) <=>
                   deployed[p] # None /\ p \notin deleted /\ p # Director
              /\ Has(p, kind) => Body(p, kind) = staged[p]
<1>1. /\ DOMAIN data = 1..Len(data) /\ data \in Seq(Items)
      /\ step = "returned" /\ requests = <<>> /\ ~operationalOnly
  BY DEF IInv, OnceInv, KindInv, Reported
<1>2. \A r : Planned(r) <=> Collected(r)
  <2>1. <<>> \in Seq(Asks) /\ Len(<<>>) = 0
    BY EmptySeq
  <2>2. 1..0 = {}
    OBVIOUS
  <2> QED
    BY <1>1, <2>1, <2>2 DEF Planned, Occurs
<1>3. ASSUME NEW of, NEW kind
      PROVE  /\ Has(of, kind) <=> Collected(Request(of, kind))
             /\ Has(of, kind) => \E i \in 1..Len(data) :
                  data[i].request = Request(of, kind) /\ Body(of, kind) = data[i].body
  BY <1>1 DEF Has, Collected, Body
<1>4. /\ Has("ops_manager", "deployed_products")
      /\ Has("ops_manager", "product_changes")
  BY <1>1, <1>2, <1>3 DEF IInv, PlanInv, Reported, Report
<1>5. ASSUME NEW p \in Products \ touched
      PROVE  DeployedProducts[p] = deployed[p] /\ ProductChanges[p] = Changes[p]
  <2>1. PICK i \in 1..Len(data) :
          /\ data[i].request = Report("deployed_products")
          /\ DeployedProducts = data[i].body
    BY <1>3, <1>4 DEF DeployedProducts, Report
  <2>2. PICK j \in 1..Len(data) :
          /\ data[j].request = Report("product_changes")
          /\ ProductChanges = data[j].body
    BY <1>3, <1>4 DEF ProductChanges, Report
  <2> QED
    BY <2>1, <2>2 DEF IInv, BodyInv
<1>6. ASSUME NEW p \in Products \ touched, NEW kind \in ProductKinds
      PROVE  /\ Has(p, kind) <=>
                  deployed[p] # None /\ p \notin deleted /\ p # Director
             /\ Has(p, kind) => Body(p, kind) = staged[p]
  <2>1. Has(p, kind) <=>
          deployed[p] # None /\ p \notin deleted /\ p # Director
    BY <1>2, <1>3 DEF IInv, PlanInv
  <2>2. ASSUME Has(p, kind) PROVE Body(p, kind) = staged[p]
    <3>1. PICK i \in 1..Len(data) :
            /\ data[i].request = Request(p, kind)
            /\ Body(p, kind) = data[i].body
      BY <1>3, <2>2
    <3>2. data[i].request.of = p
      BY <3>1 DEF Request
    <3> QED
      BY <3>1, <3>2 DEF IInv, BodyInv
  <2> QED
    BY <2>1, <2>2
<1> QED
  BY <1>5, <1>6

(* The reader of the data can account for every product the operator left  *)
(* alone, whatever he does to the others meanwhile.                        *)
THEOREM AccountsForProducts == Spec => []DataAccountsForProducts
<1>1. IInv => DataAccountsForProducts
  <2> SUFFICES ASSUME IInv, Reported, NEW p \in Products \ touched
               PROVE  LET collected == /\ DeployedProducts[p] # None
                                       /\ ProductChanges[p] # "delete"
                      IN /\ p = Director => (foundationId = Director <=> collected)
                         /\ \A kind \in {"resources", "properties"} :
                              Has(p, kind) <=> collected /\ p # Director
    BY DEF DataAccountsForProducts
  <2>1. DeployedProducts[p] = deployed[p] /\ ProductChanges[p] = Changes[p]
    BY ReportedData
  <2>2. p \in deleted <=> Changes[p] = "delete"
    BY DEF IInv, AnswersInv, KindInv, Reported
  <2>3. p = Director =>
          (foundationId = Director <=> deployed[p] # None /\ p \notin deleted)
    BY DEF IInv, PlanInv
  <2>4. \A kind \in {"resources", "properties"} : Has(p, kind) <=>
          deployed[p] # None /\ p \notin deleted /\ p # Director
    BY ReportedData DEF ProductKinds
  <2> QED
    BY <2>1, <2>2, <2>3, <2>4
<1> QED
  BY <1>1, Invariance, PTL

(* Data that comes without the warning about pending changes is the        *)
(* deployed one, of every product the operator left alone.                 *)
THEOREM QuietIsDeployed == Spec => []QuietDataIsDeployedData
<1>1. IInv => QuietDataIsDeployedData
  <2> SUFFICES ASSUME IInv, Reported, ~warned, NEW p \in Products \ touched,
                      NEW kind \in ProductKinds, Has(p, kind)
               PROVE  Body(p, kind) = DeployedProducts[p]
    BY DEF QuietDataIsDeployedData, ProductKinds
  <2>1. DeployedProducts[p] = deployed[p] /\ Body(p, kind) = staged[p]
    BY ReportedData
  <2>2. deployed[p] = staged[p]
    BY DEF IInv, AnswersInv, KindInv, Reported
  <2> QED
    BY <2>1, <2>2
<1> QED
  BY <1>1, Invariance, PTL
=============================================================================
