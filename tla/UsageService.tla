---------------------------- MODULE UsageService ----------------------------
(***************************************************************************)
(* The usage service collector and the clients below it: GetUAAURL while   *)
(* makeConsumptionCollector builds it (cf/client.go), then one request per *)
(* report (consumption/), each through OAuthClient.Do (cf/oauth_client.go),*)
(* which builds a client without a token, so that each request fetches one *)
(* of its own. The CF API, the UAA and the usage service answer when and   *)
(* what they like, or never.                                               *)
(*                                                                         *)
(* Do limits a request, its answer's body included, to oc.timeout from the *)
(* moment it starts. The token is fetched inside, by the client of         *)
(* network.NewClient, which limits dialing and nothing after it: the       *)
(* limit of the request does not reach it, it only eats the time left.     *)
(***************************************************************************)
EXTENDS Naturals, Sequences

CONSTANTS
  Timeout,   \* ticks a request may take: --usage-service-timeout
  Lifetime,  \* ticks for which the usage service accepts a token
  NoToken

ASSUME TimesAssumption ==
  /\ Timeout \in Nat \ {0}
  /\ Lifetime \in Nat
  /\ Timeout <= Lifetime
  /\ NoToken \notin Nat

VARIABLES
  at,      \* the call the collection is in
  spent,   \* ticks since the Do under way began, up to Timeout
  token,   \* age of the token of this Do, up to Lifetime, or NoToken
  replies, \* what the usage service answered, request by request
  files    \* what Collect returns

vars == <<at, spent, token, replies, files>>

Reports == <<"app_usages", "service_usages", "task_usages">>

(* What a body may hold: the fields of serviceReport, taken together as    *)
(* "schema", fields outside it, something that is no JSON of its kind; or  *)
(* it was cut short.                                                       *)
Bodies == (SUBSET {"schema", "extra"}) \cup {{"garbage"}, {"cut"}}
Reply == [ok : BOOLEAN, body : Bodies]

Places == {"dialing_cf", "cf_info", "made", "dialing_uaa", "token",
           "request", "body", "collected", "failed"}

PlaceAfter(n) == IF n < 3 THEN "dialing_uaa" ELSE "collected"
Last(s) == s[Len(s)]
Sooner(n, bound) == IF n < bound THEN n + 1 ELSE bound
Fail == /\ at' = "failed"
        /\ files' = <<>>
        /\ UNCHANGED <<spent, token, replies>>

-----------------------------------------------------------------------------
Init ==
  /\ at = "dialing_cf"
  /\ spent = 0
  /\ token = NoToken
  /\ replies = <<>>
  /\ files = <<>>

Tick ==
  /\ spent' = Sooner(spent, Timeout)
  /\ token' = IF token = NoToken THEN NoToken ELSE Sooner(token, Lifetime)
  /\ UNCHANGED <<at, replies, files>>

(* The transport of network.NewClient: it connects, or fails within the    *)
(* dial timeout.                                                           *)
Dial ==
  /\ at \in {"dialing_cf", "dialing_uaa"}
  /\ \/ /\ at' = IF at = "dialing_cf" THEN "cf_info" ELSE "token"
        /\ UNCHANGED <<spent, token, replies, files>>
     \/ Fail

(* The info of the CF API: a failure, another status, no JSON or no UAA    *)
(* URL fail the constructor and with it the run.                           *)
GetUAAURL ==
  /\ at = "cf_info"
  /\ \/ /\ at' = "made"
        /\ UNCHANGED <<spent, token, replies, files>>
     \/ Fail

(* Variant: the first client is kept, and its token with it.               *)
StartDoWithLastToken(n) ==
  /\ at' = IF n < 3 /\ token # NoToken THEN "request" ELSE PlaceAfter(n)
  /\ spent' = 0
  /\ UNCHANGED token

StartDo(n) ==
  /\ at' = PlaceAfter(n)
  /\ spent' = 0
  /\ token' = NoToken

Collect ==
  /\ at = "made"
  /\ StartDo(0)
  /\ UNCHANGED <<replies, files>>

(* The UAA makes the token some time before its answer arrives.            *)
IssueToken ==
  /\ at = "token" /\ token = NoToken
  /\ token' = 0
  /\ UNCHANGED <<at, spent, replies, files>>

(* Variant: a request without a token is better than none.                 *)
TokenArrivesOrNot ==
  /\ at = "token"
  /\ at' = "request"
  /\ UNCHANGED <<spent, token, replies, files>>

TokenArrives ==
  /\ at = "token"
  /\ \/ /\ token # NoToken
        /\ at' = "request"
        /\ UNCHANGED <<spent, token, replies, files>>
     \/ Fail

(* The usage service refuses an expired token; its headers reach the       *)
(* client only before the limit.                                           *)
UsageServiceReplies ==
  /\ at = "request" /\ spent < Timeout
  /\ at' = "body"
  /\ \E reply \in Reply :
       /\ token = Lifetime => ~reply.ok
       /\ replies' = Append(replies, reply)
  /\ UNCHANGED <<spent, token, files>>

ConnectionBreaks == at = "request" /\ Fail

(* Variant: the limit is on the headers (ResponseHeaderTimeout).           *)
HeadersTimeOut == at = "request" /\ spent = Timeout /\ Fail

RequestTimesOut == at \in {"request", "body"} /\ spent = Timeout /\ Fail

(* What ServiceUsages makes of a body: unmarshalled into serviceReport and *)
(* marshalled again, it has all the fields of that struct and no others;   *)
(* those that did not come are written as zero values.                     *)
Redacted(report, body) ==
  IF report # "service_usages" THEN body
  ELSE IF "schema" \in body THEN {"schema"} ELSE {"zero"}

(* Variant: the status is not looked at.                                   *)
UsableWhateverStatus(report, reply) ==
  /\ reply.body # {"cut"}
  /\ report = "service_usages" => reply.body # {"garbage"}

Usable(report, reply) ==
  /\ reply.ok
  /\ reply.body # {"cut"}
  /\ report = "service_usages" => reply.body # {"garbage"}

DataOf(body, report) == [type |-> report, body |-> body]

(* makeRequest after Do, the report's operation and the next step of       *)
(* Collect. Any failure gives up the reports collected before.             *)
ReadBody ==
  /\ at = "body" /\ spent < Timeout
  /\ LET n == Len(replies)
         report == Reports[n]
     IN IF Usable(report, Last(replies))
        THEN /\ files' = Append(files,
                        DataOf(Redacted(report, Last(replies).body), report))
             /\ StartDo(n)
             /\ UNCHANGED replies
        ELSE Fail

Next ==
  \/ Tick \/ Dial \/ GetUAAURL \/ Collect \/ IssueToken \/ TokenArrives
  \/ UsageServiceReplies \/ ConnectionBreaks \/ RequestTimesOut \/ ReadBody

(* Time passes, and the process takes the steps that depend on nobody      *)
(* else; nothing is assumed of the three services.                         *)
Fairness ==
  /\ WF_vars(Tick) /\ WF_vars(RequestTimesOut)
  /\ WF_vars(Dial) /\ WF_vars(Collect)

Spec == Init /\ [][Next]_vars /\ Fairness

-----------------------------------------------------------------------------
(* Types; a file was collected for each reply but perhaps the last.        *)
TypeOK ==
  /\ at \in Places
  /\ spent \in 0..Timeout
  /\ token \in 0..Lifetime \cup {NoToken}
  /\ replies \in UNION {[1..n -> Reply] : n \in 0..3}
  /\ at \in {"request", "body"} => token # NoToken
  /\ at # "failed" => Len(files) = Len(replies) - (IF at = "body" THEN 1 ELSE 0)

(* Collect is all or nothing: success is the three reports in their order, *)
(* each from an answer of status 200 that was read to its end: service     *)
(* usages are the schema, as answered or as zero values, the others are    *)
(* what was answered; and a failure leaves none.                           *)
AllOrNothing ==
  /\ at = "collected" =>
       /\ Len(files) = 3
       /\ \A n \in 1..3 :
            /\ files[n].type = Reports[n]
            /\ replies[n].ok /\ "cut" \notin replies[n].body
            /\ n # 2 => files[n].body = replies[n].body
       /\ files[2].body \subseteq {"schema", "zero"}
       /\ "schema" \in files[2].body <=> "schema" \in replies[2].body
  /\ at = "failed" => files = <<>>

(* No request that may still be answered carries an expired token, for all *)
(* that three requests, or one slow UAA, outlast the token's lifetime: the *)
(* limit that started before the token was made runs out first.            *)
NoExpiredToken == at = "request" /\ spent < Timeout => token < Lifetime

(* A request that has its token ends, whatever the usage service does.     *)
TimedRequestsEnd == at \in {"request", "body"} ~> at \notin {"request", "body"}

(* cmd/collect.go:129 promises a "Timeout on request connection and        *)
(* fulfillment to Usage Service": every request started by Do ends.        *)
RequestsEnd == at = "dialing_uaa" ~> at \in {"body", "collected", "failed"}
=============================================================================
