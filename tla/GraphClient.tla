---------------------------- MODULE GraphClient ----------------------------
(***************************************************************************)
(* The Microsoft Graph client of the active-directory steps: the token     *)
(* cache and the retry loop of src/azure/graph/client.ts, and the listing  *)
(* loop that DirectoryGraphClient, AccessPackageClient and                 *)
(* ConditionalAccessPolicyClient each repeat on top of it.                 *)
(*                                                                         *)
(* One behaviour is the life of one client object inside one step, which   *)
(* makes its listings one after another.  Azure answers as it likes, the   *)
(* cached token expires at any moment, and the callback may throw.         *)
(*                                                                         *)
(* A definition marked FAULT is no part of the specification: it is a bug  *)
(* the definition after it could have, and shows what a property excludes. *)
(***************************************************************************)
EXTENDS Integers, Sequences

CONSTANTS
    Pages,          \* number of pages the service splits the listing into
    PageEnd,        \* PageEnd[p]: how many items pages 1..p hold together
    MaxAttempts,    \* maxAttempts of retryRequest, 3 in the code
    Status401Too,   \* the listing loop takes a 401 for a missing permission,
                    \* as iterateResourcesforApprover does
    Listings,       \* bound: how many listings the step performs
    Expiries        \* bound: how often a cached token expires

ASSUME PagesAssumption    == Pages \in Nat \ {0}
ASSUME PageEndAssumption  == /\ PageEnd \in [0..Pages -> Nat]
                             /\ PageEnd[0] = 0
                             /\ \A p, q \in 0..Pages : p <= q => PageEnd[p] <= PageEnd[q]
ASSUME AttemptsAssumption == MaxAttempts \in Nat \ {0}
ASSUME FlagsAssumption    == Status401Too \in BOOLEAN
ASSUME BoundsAssumption   == Listings \in Nat \ {0} /\ Expiries \in Nat

VARIABLES
    phase,              \* where the client is
    token,              \* accessToken: "none", "valid" or "expired"
    rejected,           \* Graph has refused the cached token in this retry loop
    expiries,           \* how often a cached token has expired
    shouldRefresh,      \* shouldRefreshAccessToken of this retry loop
    attemptsRemaining,  \* context.attemptsRemaining of this retry loop
    failures,           \* the errors handleError has logged in this retry loop
    listing,            \* number of listings begun
    nextLink,           \* the page the next link leads to, 0 for undefined
    page,               \* the page of the last response, 0 before the first
    cursor,             \* the last item of that page handed to the callback
    delivered,          \* the items handed to the callback in this listing
    absorbed            \* errors this listing turned into a normal result

tokenVars == <<token, rejected, expiries>>
retryVars == <<shouldRefresh, attemptsRemaining, failures>>
pageVars  == <<page, cursor, delivered>>
listVars  == <<listing, nextLink, absorbed, pageVars>>
vars      == <<phase, tokenVars, retryVars, listVars>>

Phases == {"idle", "attempting", "sent", "backoff", "delivering", "looping",
           "returned", "threw"}

Total == PageEnd[Pages]

\* Errors of an attempt.  authFailed comes from authenticate(); expiredToken is
\* a 401 with code Authentication_ExpiredToken or InvalidAuthenticationToken;
\* network is a FetchError; serverError is every other status.
ServiceErrors == {"network", "forbidden", "notFound", "serverError"}
Errors == ServiceErrors \cup {"authFailed", "expiredToken"}

\* error.status of a failure that the listing loop takes for a missing permission.
MissingPermission == {"forbidden"} \cup (IF Status401Too THEN {"expiredToken"} ELSE {})
-----------------------------------------------------------------------------
Init ==
    /\ phase = "idle"
    /\ token = "none" /\ rejected = FALSE /\ expiries = 0
    /\ shouldRefresh = FALSE /\ attemptsRemaining = 0 /\ failures = <<>>
    /\ listing = 0 /\ nextLink = 0 /\ absorbed = {}
    /\ page = 0 /\ cursor = 0 /\ delivered = <<>>

\* FAULT: one attempt too many.
StartRequestOffByOne ==
    /\ phase' = "attempting"
    /\ shouldRefresh' = FALSE
    /\ attemptsRemaining' = MaxAttempts
    /\ failures' = <<>>
    /\ rejected' = FALSE
    /\ UNCHANGED <<token, expiries>>

\* retryRequest starts: shouldRefreshAccessToken is local to one call of it.
StartRequest ==
    /\ phase' = "attempting"
    /\ shouldRefresh' = FALSE
    /\ attemptsRemaining' = MaxAttempts - 1
    /\ failures' = <<>>
    /\ rejected' = FALSE
    /\ UNCHANGED <<token, expiries>>

BeginListing ==
    /\ phase \in {"idle", "returned", "threw"}
    /\ listing < Listings
    /\ listing' = listing + 1
    /\ nextLink' = 0 /\ absorbed' = {}
    /\ page' = 0 /\ cursor' = 0 /\ delivered' = <<>>
    /\ StartRequest

\* refreshAccessToken() inside the attempt, then the flag is cleared.
RefreshToken ==
    /\ phase = "attempting"
    /\ shouldRefresh
    /\ token' = "valid" /\ rejected' = FALSE
    /\ shouldRefresh' = FALSE
    /\ UNCHANGED <<phase, expiries, attemptsRemaining, failures, listVars>>

\* getAccessToken(), called by the Graph SDK before it sends the request.
FetchToken ==
    /\ phase = "attempting"
    /\ ~shouldRefresh
    /\ token = "none"
    /\ token' = "valid"
    /\ UNCHANGED <<phase, rejected, expiries, retryVars, listVars>>

Send ==
    /\ phase = "attempting"
    /\ ~shouldRefresh
    /\ token # "none"
    /\ phase' = "sent"
    /\ UNCHANGED <<tokenVars, retryVars, listVars>>

\* FAULT: the code of an expired token is not recognised.
HandleErrorWithoutCode(e) ==
    /\ failures' = Append(failures, e)
    /\ shouldRefresh' = shouldRefresh
    /\ rejected' = (rejected \/ e = "expiredToken")
    /\ UNCHANGED <<token, expiries, attemptsRemaining>>

\* handleError: only an error that names the token asks for a refresh.
HandleError(e) ==
    /\ failures' = Append(failures, e)
    /\ shouldRefresh' = (shouldRefresh \/ e = "expiredToken")
    /\ rejected' = (rejected \/ e = "expiredToken")
    /\ UNCHANGED <<token, expiries, attemptsRemaining>>

\* FAULT: an undefined response leaves nextLink as it was.
GiveUpKeepsLink(e) ==
    /\ UNCHANGED <<listing, nextLink, pageVars>>
    /\ \/ /\ e = "notFound"
          /\ phase' = "looping"
          /\ absorbed' = absorbed \cup {e}
       \/ /\ e \in MissingPermission
          /\ phase' = "returned"
          /\ absorbed' = absorbed \cup {e}
       \/ /\ e \notin MissingPermission \cup {"notFound"}
          /\ phase' = "threw"
          /\ UNCHANGED absorbed

\* The retry loop gives up: request() and the listing loop sort out its error.
GiveUp(e) ==
    /\ UNCHANGED <<listing, pageVars>>
    /\ \/ /\ e = "notFound"
          /\ phase' = "looping"
          /\ nextLink' = 0
          /\ absorbed' = absorbed \cup {e}
       \/ /\ e \in MissingPermission
          /\ phase' = "returned"
          /\ absorbed' = absorbed \cup {e}
          /\ UNCHANGED nextLink
       \/ /\ e \notin MissingPermission \cup {"notFound"}
          /\ phase' = "threw"
          /\ UNCHANGED <<nextLink, absorbed>>

AttemptFailed(e) ==
    /\ HandleError(e)
    /\ \/ attemptsRemaining > 0 /\ phase' = "backoff" /\ UNCHANGED listVars
       \/ attemptsRemaining = 0 /\ GiveUp(e)

\* FAULT: shouldRefreshAccessToken is cleared before the refresh is awaited.
AuthenticateFailedFlagCleared ==
    /\ phase = "attempting"
    /\ shouldRefresh \/ token = "none"
    /\ failures' = Append(failures, "authFailed")
    /\ shouldRefresh' = FALSE
    /\ UNCHANGED <<tokenVars, attemptsRemaining>>
    /\ \/ attemptsRemaining > 0 /\ phase' = "backoff" /\ UNCHANGED listVars
       \/ attemptsRemaining = 0 /\ GiveUp("authFailed")

AuthenticateFailed ==
    /\ phase = "attempting"
    /\ shouldRefresh \/ token = "none"
    /\ AttemptFailed("authFailed")

RequestFailed ==
    /\ phase = "sent"
    /\ \/ token = "expired" /\ AttemptFailed("expiredToken")
       \/ token = "valid" /\ \E e \in ServiceErrors : AttemptFailed(e)

NextAttempt ==
    /\ phase = "backoff"
    /\ phase' = "attempting"
    /\ attemptsRemaining' = attemptsRemaining - 1
    /\ UNCHANGED <<tokenVars, shouldRefresh, failures, listVars>>

\* The page the request is for, and the @odata.nextLink of its response, which
\* the loop stores before it turns to the items.
RequestedPage == IF nextLink = 0 THEN 1 ELSE nextLink
LinkAfter(p) == IF p < Pages THEN p + 1 ELSE 0

PageReceived ==
    /\ phase = "sent"
    /\ token = "valid"
    /\ phase' = "delivering"
    /\ nextLink' = LinkAfter(RequestedPage)
    /\ page' = RequestedPage
    /\ cursor' = PageEnd[RequestedPage - 1]
    /\ UNCHANGED <<tokenVars, retryVars, listing, absorbed, delivered>>

\* FAULT: the error of a callback ends the listing.
DeliverItemRethrows ==
    /\ phase = "delivering"
    /\ cursor < PageEnd[page]
    /\ cursor' = cursor + 1
    /\ delivered' = Append(delivered, cursor + 1)
    /\ phase' \in {"delivering", "threw"}
    /\ UNCHANGED <<tokenVars, retryVars, listing, nextLink, absorbed, page>>

\* The callback is awaited for the next item.  What it throws is logged only.
DeliverItem ==
    /\ phase = "delivering"
    /\ cursor < PageEnd[page]
    /\ cursor' = cursor + 1
    /\ delivered' = Append(delivered, cursor + 1)
    /\ UNCHANGED <<phase, tokenVars, retryVars, listing, nextLink, absorbed, page>>

\* FAULT: the callbacks of a page are not awaited before the next page.
PageDoneUnawaited ==
    /\ phase = "delivering"
    /\ phase' = "looping"
    /\ UNCHANGED <<tokenVars, retryVars, listVars>>

PageDone ==
    /\ phase = "delivering"
    /\ cursor = PageEnd[page]
    /\ phase' = "looping"
    /\ UNCHANGED <<tokenVars, retryVars, listVars>>

\* FAULT: while (nextLink && response.value.length)
LoopStopsAtEmptyPage ==
    /\ phase = "looping"
    /\ UNCHANGED listVars
    /\ LET more == nextLink # 0 /\ PageEnd[page - 1] < PageEnd[page]
       IN  \/ more /\ StartRequest
           \/ ~more /\ phase' = "returned" /\ UNCHANGED <<tokenVars, retryVars>>

\* while (nextLink)
Loop ==
    /\ phase = "looping"
    /\ UNCHANGED listVars
    /\ \/ nextLink # 0 /\ StartRequest
       \/ nextLink = 0 /\ phase' = "returned" /\ UNCHANGED <<tokenVars, retryVars>>

\* The environment: Microsoft identity platform tokens live for about an hour.
TokenExpires ==
    /\ token = "valid"
    /\ expiries < Expiries
    /\ token' = "expired"
    /\ expiries' = expiries + 1
    /\ UNCHANGED <<phase, rejected, retryVars, listVars>>

\* The step makes no more listings.
StepOver ==
    /\ phase \in {"threw", "returned"}
    /\ UNCHANGED vars

Progress ==
    \/ RefreshToken \/ FetchToken \/ AuthenticateFailed \/ Send
    \/ RequestFailed \/ NextAttempt \/ PageReceived
    \/ DeliverItem \/ PageDone \/ Loop

Next == BeginListing \/ Progress \/ TokenExpires \/ StepOver

Spec == Init /\ [][Next]_vars

\* The runtime resumes a pending await when its answer is there.
FairSpec == Spec /\ WF_vars(Progress)
-----------------------------------------------------------------------------
(* Properties.                                                             *)

TypeOK ==
    /\ phase \in Phases
    /\ token \in {"none", "valid", "expired"}
    /\ rejected \in BOOLEAN
    /\ expiries \in 0..Expiries
    /\ shouldRefresh \in BOOLEAN
    /\ attemptsRemaining \in 0..MaxAttempts - 1
    /\ failures \in Seq(Errors)
    /\ listing \in 0..Listings
    /\ nextLink \in 0..Pages
    /\ page \in 0..Pages
    /\ cursor \in 0..Total
    /\ delivered \in Seq(1..Total)
    /\ absorbed \subseteq Errors

\* Within one request, a token that Graph has refused is not sent again: an
\* expired token is refreshed before the next attempt, also when a first refresh
\* failed.
RejectedTokenNotResent == phase = "sent" => ~rejected

\* A token that expires does not fail a listing by itself: unless it expires
\* once per attempt, some attempt failed for another reason.
ExpiryIsSurvived ==
    phase = "threw" /\ Expiries < MaxAttempts =>
        \E i \in DOMAIN failures : failures[i] # "expiredToken"

\* A listing fails only after a request used up all its attempts: neither a
\* callback that throws nor a single bad answer does it.
FailsOnlyWhenExhausted ==
    phase = "threw" => Len(failures) = MaxAttempts /\ attemptsRemaining = 0

\* A listing that absorbed no error offered every item of every page to the
\* callback, each once and in the service's order.
CompleteUnlessAbsorbed ==
    phase = "returned" /\ absorbed = {} => delivered = [i \in 1..Total |-> i]

\* A listing that is reported as lacking a permission was refused as such, not
\* because its token ran out.
PermissionWarningIsDeserved ==
    phase = "returned" => "expiredToken" \notin absorbed

\* What a listing amounts to for the step: see PagedListing.
Outcome ==
    CASE phase = "threw" -> "failed"
      [] phase = "returned" -> IF absorbed = {} THEN "complete" ELSE "partial"
      [] OTHER -> "running"

Promise == INSTANCE PagedListing WITH outcome <- Outcome

\* The client keeps the promise of PagedListing.
KeepsPromise == Promise!Spec

\* Every listing ends, whatever page a 404 answers.
ListingEnds ==
    phase \notin {"idle", "returned", "threw"} ~> phase \in {"returned", "threw"}
=============================================================================
