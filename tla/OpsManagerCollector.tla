------------------------- MODULE OpsManagerCollector -------------------------
(***************************************************************************)
(* opsmanager.DataCollector.Collect while an operator uses Ops Manager.    *)
(*                                                                         *)
(* Collect asks for the pending changes, then for the deployed products,   *)
(* and from then on works off what these two answers said: it leaves out   *)
(* the products pending deletion and reads the STAGED resources and        *)
(* properties of the others, one request each, then the reports. Between   *)
(* any two requests the operator may stage, delete, revert or apply.       *)
(*                                                                         *)
(* A product is its GUID, and a configuration of it is a version; every    *)
(* product but the director has a type of its own.                         *)
(***************************************************************************)
EXTENDS Naturals, Sequences, FiniteSets

CONSTANTS
  Products,  \* GUIDs Ops Manager can have, the director's among them
  Director,  \* the product of type p-bosh
  Versions,  \* configurations of a product
  MaxEdits,  \* bound: what the operator does during one collection
  None       \* no configuration: the product is not there

ASSUME OpsManagerAssumption ==
  /\ IsFiniteSet(Products)
  /\ Director \in Products
  /\ None \notin Versions \cup Products
  /\ "ops_manager" \notin Products
  /\ MaxEdits \in Nat

VARIABLES
  operationalOnly, \* the flag
  deployed,        \* Ops Manager: what the last Apply Changes installed
  staged,          \* Ops Manager: what the next one will install
  edits,           \* operator actions so far
  touched,         \* products the operator changed since Collect began
  step,            \* where Collect is
  deleted,         \* GUIDs pending deletion, from the first answer
  warned,          \* was the warning about pending changes logged?
  requests,        \* what is still to be retrieved, in order
  data,            \* what was retrieved, then what Collect returned
  foundationId,    \* "" is None
  result           \* how Collect ended

opsManagerVars == <<deployed, staged, edits, touched>>
collectVars == <<step, deleted, warned, requests, data, foundationId, result>>
vars == <<operationalOnly, opsManagerVars, collectVars>>

Changes == [p \in Products |->
              IF deployed[p] = staged[p] THEN "unchanged"
              ELSE IF staged[p] = None THEN "delete"
              ELSE IF deployed[p] = None THEN "install" ELSE "update"]

-----------------------------------------------------------------------------
Init ==
  /\ operationalOnly \in BOOLEAN
  /\ deployed \in [Products -> Versions \cup {None}]
  /\ staged \in [Products -> Versions \cup {None}]
  /\ edits = 0
  /\ touched = {}
  /\ step = "pending changes"
  /\ deleted = {} /\ warned = FALSE
  /\ requests = <<>> /\ data = <<>> /\ foundationId = None
  /\ result = "running"

(* The operator: stages another version of a product, adds one or marks    *)
(* one for deletion; reverts everything staged; applies all changes.       *)
Edit(newDeployed, newStaged) ==
  /\ edits < MaxEdits /\ result = "running"
  /\ deployed' = newDeployed /\ staged' = newStaged
  /\ edits' = edits + 1
  /\ touched' = touched \cup {p \in Products : \/ deployed[p] # newDeployed[p]
                                               \/ staged[p] # newStaged[p]}
  /\ UNCHANGED <<operationalOnly, collectVars>>

Stage(p, version) == Edit(deployed, [staged EXCEPT ![p] = version])
Revert == deployed # staged /\ Edit(deployed, deployed)
ApplyChanges == deployed # staged /\ Edit(staged, staged)

-----------------------------------------------------------------------------
(* Every failure returns no data and no foundation id.                     *)
Fail(how) ==
  /\ step' = "returned" /\ result' = how
  /\ data' = <<>> /\ foundationId' = None /\ requests' = <<>>
  /\ UNCHANGED <<operationalOnly, deleted, warned, opsManagerVars>>

(* Variant: only deletions are worth a warning.                            *)
HasDeletions(changes) == \E p \in Products : changes[p] = "delete"

HasPendingChanges(changes) == \E p \in Products : changes[p] # "unchanged"

(* Variant: every product with a pending change is left out.               *)
ChangedProducts(changes) == {p \in Products : changes[p] # "unchanged"}

DeletedPendingChanges(changes) == {p \in Products : changes[p] = "delete"}

ListStagedPendingChanges ==
  /\ step = "pending changes"
  /\ step' = "products"
  /\ warned' = HasPendingChanges(Changes)
  /\ deleted' = DeletedPendingChanges(Changes)
  /\ UNCHANGED <<operationalOnly, opsManagerVars, requests, data, foundationId, result>>

(* A request that fails; log.Fatal on an answer whose body breaks off; a   *)
(* nil dereference on the answer "null".                                   *)
ListStagedPendingChangesFails ==
  /\ step = "pending changes"
  /\ \E how \in {"failed", "fatal", "panicked"} : Fail(how)

Request(of, kind) == [of |-> of, kind |-> kind]

(* Variant: the properties are filed as the resources.                     *)
MislabelledRequests(p) == <<Request(p, "resources"), Request(p, "resources")>>

ProductRequests(p) == <<Request(p, "resources"), Request(p, "properties")>>

(* The products Collect asks about: the director and the products pending  *)
(* deletion are left out.                                                  *)
WantedProducts ==
  {p \in Products : deployed[p] # None /\ p \notin deleted /\ p # Director}

RequestsFor(list) ==
  [i \in 1..2 * Len(list) |->
     ProductRequests(list[(i + 1) \div 2])[IF i % 2 = 1 THEN 1 ELSE 2]]

Report(kind) == Request("ops_manager", kind)
ReportsBefore == IF operationalOnly THEN <<>> ELSE <<Report("deployed_products")>>
ReportsAfter ==
  IF operationalOnly THEN <<>>
  ELSE <<Report("vm_types"), Report("diagnostic_report"), Report("installations"),
         Report("certificates"), Report("certificate_authorities"),
         Report("product_changes")>>

Orders(S) == {list \in [1..Cardinality(S) -> S] :
                \A i, j \in DOMAIN list : list[i] = list[j] => i = j}

(* The products come in any order. The loop over them depends on nothing   *)
(* after this answer, so what it will request is settled here, and so is   *)
(* the foundation id.                                                      *)
ListDeployedProducts ==
  /\ step = "products"
  /\ step' = "retrieve"
  /\ \E list \in Orders(WantedProducts) :
       requests' = ReportsBefore \o RequestsFor(list) \o ReportsAfter
  /\ foundationId' = IF deployed[Director] # None /\ Director \notin deleted
                       THEN Director ELSE None
  /\ UNCHANGED <<operationalOnly, opsManagerVars, deleted, warned, data, result>>

ListDeployedProductsFails ==
  /\ step = "products"
  /\ Fail("failed")

(* The staged data of a product that is not staged is a 404.               *)
Found(request) == request.of \in Products => staged[request.of] # None

BodyOf(request) ==
  CASE request.of \in Products -> staged[request.of]
    [] request.kind = "deployed_products" -> deployed
    [] request.kind = "product_changes" -> Changes
    [] OTHER -> None

Retrieved == data' = Append(data, [request |-> Head(requests), body |-> BodyOf(Head(requests))])

(* Variant: the status of the answer is not looked at.                     *)
RetrieveAnyAnswer ==
  /\ step = "retrieve" /\ requests # <<>>
  /\ Retrieved
  /\ requests' = Tail(requests)
  /\ UNCHANGED <<operationalOnly, opsManagerVars, step, deleted, warned, foundationId, result>>

Retrieve ==
  /\ step = "retrieve" /\ requests # <<>>
  /\ Found(Head(requests))
  /\ Retrieved
  /\ requests' = Tail(requests)
  /\ UNCHANGED <<operationalOnly, opsManagerVars, step, deleted, warned, foundationId, result>>

RetrieveFails ==
  /\ step = "retrieve" /\ requests # <<>>
  /\ Fail("failed")

(* A collection of operational data only throws away what it retrieved.    *)
Return ==
  /\ step = "retrieve" /\ requests = <<>>
  /\ step' = "returned" /\ result' = "success"
  /\ data' = IF operationalOnly THEN <<>> ELSE data
  /\ UNCHANGED <<operationalOnly, opsManagerVars, deleted, warned, requests, foundationId>>

Next ==
  \/ \E p \in Products, version \in Versions \cup {None} :
       version # staged[p] /\ Stage(p, version)
  \/ Revert \/ ApplyChanges
  \/ ListStagedPendingChanges \/ ListStagedPendingChangesFails
  \/ ListDeployedProducts \/ ListDeployedProductsFails
  \/ Retrieve \/ RetrieveFails
  \/ Return

Spec == Init /\ [][Next]_vars
-----------------------------------------------------------------------------
Kinds == {"resources", "properties", "deployed_products", "vm_types",
          "diagnostic_report", "installations", "certificates",
          "certificate_authorities", "product_changes"}
Requests == [of : Products \cup {"ops_manager"}, kind : Kinds]
ChangeLists == [Products -> {"unchanged", "delete", "install", "update"}]
BodiesOf(request) ==
  CASE request.of \in Products -> Versions
    [] request.kind = "deployed_products" -> [Products -> Versions \cup {None}]
    [] request.kind = "product_changes" -> ChangeLists
    [] OTHER -> {None}

(* Every variable has a value the code can give it; what was retrieved is  *)
(* what the request was for, never the body of an error page.              *)
TypeOK ==
  /\ operationalOnly \in BOOLEAN
  /\ deployed \in [Products -> Versions \cup {None}]
  /\ staged \in [Products -> Versions \cup {None}]
  /\ edits \in 0..MaxEdits
  /\ touched \in SUBSET Products
  /\ step \in {"pending changes", "products", "retrieve", "returned"}
  /\ deleted \in SUBSET Products
  /\ warned \in BOOLEAN
  /\ requests \in Seq(Requests)
  /\ \A i \in DOMAIN data : /\ data[i].request \in Requests
                            /\ data[i].body \in BodiesOf(data[i].request)
  /\ foundationId \in {Director, None}
  /\ result \in {"running", "success", "failed", "fatal", "panicked"}

Has(of, kind) == \E i \in DOMAIN data : data[i].request = Request(of, kind)
Body(of, kind) == data[CHOOSE i \in DOMAIN data : data[i].request = Request(of, kind)].body

Reported == result = "success" /\ ~operationalOnly
DeployedProducts == Body("ops_manager", "deployed_products")
ProductChanges == Body("ops_manager", "product_changes")

(* The reader of the returned data can account for every product the       *)
(* operator left alone, from the two reports among the data, which were    *)
(* not made by the requests Collect worked off and are older and newer     *)
(* than its files: a product on the deployed list has both of its files,   *)
(* or names the foundation if it is the director, unless the change list   *)
(* says it is to be deleted; nothing else has any.                         *)
DataAccountsForProducts ==
  Reported => \A p \in Products \ touched :
    LET collected == DeployedProducts[p] # None /\ ProductChanges[p] # "delete"
    IN /\ p = Director => (foundationId = Director <=> collected)
       /\ \A kind \in {"resources", "properties"} :
            Has(p, kind) <=> collected /\ p # Director

(* Without the warning about pending changes the staged data of a product  *)
(* is its deployed data, unless the operator touched that very product     *)
(* during the collection.                                                  *)
QuietDataIsDeployedData ==
  Reported /\ ~warned => \A p \in Products \ touched :
    \A kind \in {"resources", "properties"} :
      Has(p, kind) => Body(p, kind) = DeployedProducts[p]

(* No two files have one name, whatever the operator does and in whatever  *)
(* order Ops Manager lists its products: the archive may hold them all.    *)
FilesHaveTheirOwnNames ==
  \A i, j \in DOMAIN data : data[i].request = data[j].request => i = j
=============================================================================
