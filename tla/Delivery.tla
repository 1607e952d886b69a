------------------------------- MODULE Delivery -------------------------------
(***************************************************************************)
(* A payload on its way to an integration's endpoint                       *)
(* (platform/integrations/__init__.py), the egress policies that limit     *)
(* where it may go (platform/egress.py), and the routes that start it and  *)
(* record how it ended.  The endpoint may redirect, time out or refuse;    *)
(* the DNS may answer differently every time it is asked.                  *)
(*                                                                         *)
(* A host is a name, as the sequence of its labels, or a literal address.  *)
(* Requests that only differ in their payload are one request here.        *)
(***************************************************************************)
EXTENDS Transactions, Naturals, SequencesExt

CONSTANTS
    Names,          \* host names
    LocalNames,     \* LOCAL_HOSTNAMES and *.localhost, among the names
    Public, Private,\* addresses
    Answers,        \* what the DNS may answer: sequences of addresses, <<>> for none
    Lists,          \* the allowlists that somebody may configure
    MAX_REDIRECTS, MAX_ATTEMPTS,
    MaxTests        \* bound: tests that run at a time

ASSUME BoundsAssumption == MAX_REDIRECTS \in Nat /\ MAX_ATTEMPTS \in Nat \ {0}

\* Two lists may have nothing in common, which is not to have no list.
ASSUME ListsAssumption == \A global, org \in Lists : global \cap org # None

VARIABLES
    egress,         \* the environment: the global allowlist, and whether
                    \* private addresses are allowed
    settings,       \* the entries of the organization's allowlist
    integration,    \* the organization's integration, if it has one
    delivery        \* what each session is doing

deliveryVars == <<egress, settings, integration, delivery>>

Addresses == Public \cup Private
Hosts == Names \cup Addresses

\* A URL is its host, or None if its scheme is neither http nor https.
Url == Hosts \cup {None}

NoIntegration == [kind |-> "none"]
Deleted == [kind |-> "deleted"]
Configured == integration \notin {NoIntegration, Deleted}
Ready == [step |-> "none"]

\* first is the URL of the integration's row, as it was loaded.
Sending(step) == [step : {step}, first : Url, url : Url, attempt : 1..MAX_ATTEMPTS,
                  hop : 0..MAX_REDIRECTS,
                  answer : Answers \cup {<<>>} \cup {<<x>> : x \in Addresses}]

DeliveryTypeOK ==
    /\ egress \in [list : Lists \cup {None}, private : BOOLEAN]
    /\ settings \in Lists \cup {{}}
    /\ integration \in {NoIntegration, Deleted} \cup [kind : {"webhook", "forge"}, url : Url,
                                             last_status : {"", "ok", "failed"}]
    /\ delivery \in [Sessions -> {Ready} \cup [step : {"settling"}, entries : Lists \cup {{}}]
                                 \cup [step : {"deleting"}]
                                 \cup Sending("resolving") \cup Sending("connecting")
                                 \cup [step : {"sent"}, ok : BOOLEAN]]

DeliveryInit ==
    /\ TxnInit
    /\ egress \in [list : Lists \cup {None}, private : BOOLEAN]
    /\ settings = {}
    /\ integration = NoIntegration
    /\ delivery = [e \in Sessions |-> Ready]

Delivers(e, d) == delivery' = [delivery EXCEPT ![e] = d]

-----------------------------------------------------------------------------
(***************************************************************************)
(* Allowlists.                                                             *)
(***************************************************************************)
\* "github.com" allows exactly that host, "*.github.com" the names below it.
Matches(host, entry) ==
    IF entry.wildcard THEN host \in Names /\ IsStrictSuffix(entry.name, host)
    ELSE host = entry.name

host_allowed_by_allowlist(host, list) ==
    list = None \/ \E entry \in list : Matches(host, entry)

\* The intersection of the entries.
Combine(global, org) ==
    IF global = None THEN org ELSE IF org = None THEN global ELSE global \cap org

\* EgressPolicy.as_allowlist: an empty list in the settings is no policy.
OrgPolicy == IF settings = {} THEN None ELSE settings

\* _org_allowlist asks the provider that create_app installed, which returns None
\* as long as no organization is bound: no code of the product calls
\* set_org_context.
OrgAllowlist == None

-----------------------------------------------------------------------------
(***************************************************************************)
(* Addresses.  A literal address is its own answer.                        *)
(***************************************************************************)
AnswersFor(url) == IF url \in Addresses THEN {<<url>>} ELSE Answers

Local(host) == host \in LocalNames

\* _url_problems: when an integration is saved, and before a webhook is sent.
\* A name that does not resolve is no problem yet.
UrlProblems(url, answer) ==
    \/ url = None
    \/ ~ egress.private /\ (Local(url) \/ \E i \in DOMAIN answer : answer[i] \in Private)

\* Fault: only the address that is pinned is looked at.
FirstIsPublic(answer) == answer[1] \in Public

AllPublic(answer) == \A i \in DOMAIN answer : answer[i] \in Public

Allowed(d) == host_allowed_by_allowlist(d.url, Combine(egress.list, OrgAllowlist))

\* resolve_target, which pins answer[1].
Resolvable(d, answer) ==
    /\ d.url # None
    /\ Allowed(d)
    /\ answer # <<>>
    /\ egress.private \/ (AllPublic(answer) /\ ~ Local(d.url))

-----------------------------------------------------------------------------
\* PUT /org/egress-policy ...
LoadSettings(e, entries) ==
    /\ delivery[e] = Ready
    /\ Read(e)
    /\ Delivers(e, [step |-> "settling", entries |-> entries])
    /\ UNCHANGED <<egress, settings, integration>>

\* ... replaces the entries, whatever they were.
PutSettings(e) ==
    /\ delivery[e].step = "settling"
    /\ Commit(e)
    /\ settings' = delivery[e].entries
    /\ Delivers(e, Ready)
    /\ UNCHANGED <<egress, integration>>

\* POST /integrations (one is enough): validate_config refuses a bad URL.
CreateIntegration(e, kind, url) ==
    /\ delivery[e] = Ready /\ integration = NoIntegration
    /\ IF kind = "webhook" THEN \E answer \in AnswersFor(url) : ~ UrlProblems(url, answer)
       ELSE url # None
    /\ Commit(e)
    /\ integration' = [kind |-> kind, url |-> url, last_status |-> ""]
    /\ UNCHANGED <<egress, settings, delivery>>

\* DELETE /integrations/{id}
LoadToDelete(e) ==
    /\ delivery[e] = Ready /\ Configured
    /\ Read(e)
    /\ Delivers(e, [step |-> "deleting"])
    /\ UNCHANGED <<egress, settings, integration>>

DeleteIntegration(e) ==
    /\ delivery[e].step = "deleting" /\ Configured
    /\ Commit(e)
    /\ integration' = Deleted
    /\ Delivers(e, Ready)
    /\ UNCHANGED <<egress, settings>>

-----------------------------------------------------------------------------
Sent(ok) == [step |-> "sent", ok |-> ok]
Resolving(first, url, attempt, hop) ==
    [step |-> "resolving", first |-> first, url |-> url, attempt |-> attempt, hop |-> hop, answer |-> <<>>]

\* POST /integrations/{id}/test, which holds its transaction open until the end:
\* deliver looks at the URL of a webhook once more.
Test(e) ==
    /\ delivery[e] = Ready /\ Configured
    /\ Cardinality({f \in Sessions : delivery[f].step \in {"resolving", "connecting", "sent"}})
           < MaxTests
    /\ Read(e)
    /\ \E answer \in AnswersFor(integration.url) :
           Delivers(e, IF integration.kind = "webhook" /\ UrlProblems(integration.url, answer)
                       THEN Sent(FALSE) ELSE Resolving(integration.url, integration.url, 1, 0))
    /\ UNCHANGED <<egress, settings, integration>>

\* A destination that is blocked is not tried again.
Resolve(e, answer) ==
    /\ Delivers(e, IF Resolvable(delivery[e], answer)
                   THEN [delivery[e] EXCEPT !.step = "connecting", !.answer = answer]
                   ELSE Sent(FALSE))
    /\ UNCHANGED <<egress, settings, integration, txnVars>>

\* Fault: a redirect starts the count again.
FirstHopAgain(hop) == 0

NextHop(hop) == hop + 1

\* What _post does about an attempt that failed and may be repeated.
TryAgain(d) ==
    IF d.attempt < MAX_ATTEMPTS THEN Resolving(d.first, d.first, d.attempt + 1, 0)
    ELSE Sent(FALSE)

\* Any answer but 2xx, 4xx and a redirect with a location, or none: 429, 5xx,
\* a redirect to nowhere, a timeout, a network error.
Fails(e) ==
    /\ delivery[e].step = "connecting"
    /\ Delivers(e, TryAgain(delivery[e]))
    /\ UNCHANGED <<egress, settings, integration, txnVars>>

Redirects(e, url) ==
    /\ delivery[e].step = "connecting"
    /\ Delivers(e, IF delivery[e].hop < MAX_REDIRECTS
                   THEN Resolving(delivery[e].first, url, delivery[e].attempt, NextHop(delivery[e].hop))
                   ELSE TryAgain(delivery[e]))
    /\ UNCHANGED <<egress, settings, integration, txnVars>>

\* 2xx, or a 4xx that is not 429.
Answered(e, ok) ==
    /\ delivery[e].step = "connecting"
    /\ Delivers(e, Sent(ok))
    /\ UNCHANGED <<egress, settings, integration, txnVars>>

\* last_status, the event and the audit record are committed together.
RecordOutcome(e) ==
    /\ delivery[e].step = "sent" /\ Configured
    /\ Commit(e)
    /\ integration' = [integration EXCEPT !.last_status = IF delivery[e].ok THEN "ok" ELSE "failed"]
    /\ Delivers(e, Ready)
    /\ UNCHANGED <<egress, settings>>

\* A refused write (SQLite: something was committed while the payload was on
\* its way), a row that is gone, or the death of the process.
Fail(e) ==
    /\ delivery[e] # Ready
    /\ Rollback(e)
    /\ Delivers(e, Ready)
    /\ UNCHANGED <<egress, settings, integration>>

SendsOn(e) ==
    \/ /\ delivery[e].step = "resolving"
       /\ \E answer \in AnswersFor(delivery[e].url) : Resolve(e, answer)
    \/ Fails(e)
    \/ \E url \in Url : Redirects(e, url)
    \/ \E ok \in BOOLEAN : Answered(e, ok)
    \/ RecordOutcome(e)

DeliveryNext == \E e \in Sessions :
    \/ \E entries \in Lists \cup {{}} : LoadSettings(e, entries)
    \/ PutSettings(e)
    \/ \E kind \in {"webhook", "forge"}, url \in Url : CreateIntegration(e, kind, url)
    \/ LoadToDelete(e) \/ DeleteIntegration(e)
    \/ Test(e)
    \/ SendsOn(e)
    \/ Fail(e)

\* Time-outs see to it that every connection ends one way or the other.
DeliveryFairness == \A e \in Sessions :
    WF_<<deliveryVars, txnVars>>(SendsOn(e) \/ (delivery[e].step = "sent" /\ Fail(e)))

DeliverySpec ==
    DeliveryInit /\ [][DeliveryNext]_<<deliveryVars, txnVars>> /\ DeliveryFairness

-----------------------------------------------------------------------------
(***************************************************************************)
(* Properties.                                                             *)
(***************************************************************************)
\* Wherever redirects lead and however often a name changes its addresses, a
\* socket is only opened to an address that is public, as are all the others
\* the name had at that moment, and for a host that the operator permits.
ConnectionsArePermitted ==
    \A e \in Sessions : delivery[e].step = "connecting" =>
        /\ delivery[e].url # None
        /\ host_allowed_by_allowlist(delivery[e].url, egress.list)
        /\ egress.private \/ (ToSet(delivery[e].answer) \subseteq Public
                              /\ ~ Local(delivery[e].url))

\* "Hard timeouts and bounded retries so a dead endpoint cannot stall a worker":
\* a test is answered, also if the endpoint redirects or asks to wait for ever.
TestsEnd == \A e \in Sessions : delivery[e].step = "resolving" ~> delivery[e] = Ready

\* "each organization can set its own allowlist through PUT /org/egress-policy"
\* (docs/DEPLOYMENT.md:238): a host is looked up only if the policy permits it.
OrgPolicyRestricts ==
    [][\A e \in Sessions :
          delivery[e].step = "resolving" /\ delivery'[e].step = "connecting" =>
              host_allowed_by_allowlist(delivery[e].url, OrgPolicy)]_deliveryVars
=============================================================================
