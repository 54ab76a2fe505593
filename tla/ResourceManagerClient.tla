----------------------- MODULE ResourceManagerClient -----------------------
(***************************************************************************)
(* The Azure Resource Manager client that every resource-manager step      *)
(* uses: src/azure/resource-manager/client.ts.                             *)
(*                                                                         *)
(* One behaviour is the life of one Client object inside one step: the     *)
(* step asks for listings one after another; a listing first obtains an    *)
(* authenticated service client (the token is cached), then requests page  *)
(* after page through the retry loop of retryResourceRequest and hands the *)
(* resources of each page to the step's callback.  The Azure service and   *)
(* the callback are the environment: they may answer in every way the code *)
(* tells apart.  The retry policies that createClient puts under the retry *)
(* loop belong to the Azure SDK: an answer here is what comes out of them. *)
(*                                                                         *)
(* A definition marked FAULT is no part of the specification: it is a bug  *)
(* the definition after it could have, and shows what a property excludes. *)
(***************************************************************************)
EXTENDS Integers, Sequences

CONSTANTS
    Pages,          \* number of pages the service splits the listing into
    PageEnd,        \* PageEnd[p]: how many resources pages 1..p hold together
    TokenAttempts,  \* DEFAULT_MAX_RETRIES, the attempts to obtain a token
    PageAttempts,   \* maxRetryAttempts, the attempts to obtain one page
    FollowsLinks,   \* the endpoint passed in has a listNext (or listAllNext)
    EmptyPages,     \* pages whose request the service may answer with a 404
                    \* or with "subscription not registered"
    Listings        \* bound: how many listings the step performs

ASSUME PagesAssumption    == Pages \in Nat \ {0}
ASSUME PageEndAssumption  == /\ PageEnd \in [0..Pages -> Nat]
                             /\ PageEnd[0] = 0
                             /\ \A p, q \in 0..Pages : p <= q => PageEnd[p] <= PageEnd[q]
ASSUME AttemptsAssumption == TokenAttempts \in Nat \ {0} /\ PageAttempts \in Nat \ {0}
ASSUME FlagsAssumption    == FollowsLinks \in BOOLEAN /\ EmptyPages \subseteq 1..Pages
ASSUME ListingsAssumption == Listings \in Nat \ {0}

VARIABLES
    phase,              \* where the client is
    authenticated,      \* this.auth is set
    tokenRequests,      \* attempts made so far to obtain a token
    listing,            \* number of listings begun
    nextLink,           \* the link to follow: a page number, 0 for undefined
    page,               \* the page of the last response, 0 before the first
    cursor,             \* the last resource of that page handed to the callback
    delivered,          \* the resources the callback has taken in this listing
    absorbed,           \* errors this listing turned into a normal result
    attemptsRemaining,  \* context.attemptsRemaining of the retry loop
    failures            \* the errors handleError has seen in this retry loop

authVars  == <<authenticated, tokenRequests>>
pageVars  == <<page, cursor, delivered>>
listVars  == <<listing, nextLink, absorbed, pageVars>>
retryVars == <<attemptsRemaining, failures>>
vars      == <<phase, authVars, listVars, retryVars>>

Phases == {"idle", "authenticating", "authBackoff", "requesting", "backoff",
           "delivering", "looping", "returned", "threw"}

Total == PageEnd[Pages]

\* A nextLink whose skiptoken holds "token":null.  The service never answers it.
InvalidLink == Pages + 1
-----------------------------------------------------------------------------
(* Errors, as retryResourceRequest and request tell them apart.            *)
(*   throttled      a RestError with statusCode 429                        *)
(*   network        any error that is no RestError, such as ECONNRESET     *)
(*   tokenRejected  'Get Token request returned http error: 4..'           *)
(*   notFound       a RestError with statusCode 404                        *)
(*   notRegistered  code SubscriptionNotRegistered, a subscription type    *)
(*                  that is not permitted, or a disabled storage account   *)
(*   forbidden      a RestError 403 with no code in its body: the error    *)
(*                  that request() throws has the status 403               *)
(*   coded403       a RestError 403 whose body has a code: that code, and  *)
(*                  not 403, is the status of the error request() throws   *)
(*   serverError    any other RestError                                    *)
Errors == {"throttled", "network", "tokenRejected", "notFound", "notRegistered",
           "forbidden", "coded403", "serverError"}

\* A RestError other than a 429 is final, and so is a refused token.
Retryable == {"throttled", "network"}

\* request() turns these into a response of undefined.
EmptyResponse == {"notFound", "notRegistered"}

\* error.status === 403: iterateAllResources publishes a warning and returns.
Status403 == {"forbidden"}

\* The errors a request for page p may meet.
ErrorsFor(p) == IF p \in EmptyPages THEN Errors ELSE Errors \ EmptyResponse

\* msRestNodeAuth raises no RestError.
TokenErrors == {"tokenRejected", "network"}

\* response.nextLink of the response that carries page p.
LinksAfter(p) == IF p < Pages THEN {p + 1} ELSE {0, InvalidLink}
-----------------------------------------------------------------------------
Init ==
    /\ phase = "idle"
    /\ authenticated = FALSE /\ tokenRequests = 0
    /\ listing = 0 /\ nextLink = 0 /\ absorbed = {}
    /\ page = 0 /\ cursor = 0 /\ delivered = <<>>
    /\ attemptsRemaining = 0 /\ failures = <<>>

\* The first makeAttempt() of a retry loop with maxAttempts = max.
FirstAttempt(max) ==
    /\ attemptsRemaining' = max - 1
    /\ failures' = <<>>

\* FAULT: every RestError is retried, not only a 429.
MayRetryRestErrors(e) == e \in Retryable \cup {"serverError"} /\ attemptsRemaining > 0

\* onError of the retry loop goes on to another attempt after error e.
MayRetry(e) == e \in Retryable /\ attemptsRemaining > 0

Fail(e) ==
    /\ failures' = Append(failures, e)
    /\ UNCHANGED attemptsRemaining

NextAttempt ==
    /\ attemptsRemaining' = attemptsRemaining - 1
    /\ UNCHANGED failures

\* FAULT: the token is not cached.
BeginListingUncached ==
    /\ phase \in {"idle", "returned", "threw"}
    /\ listing < Listings
    /\ listing' = listing + 1
    /\ nextLink' = 0 /\ absorbed' = {}
    /\ page' = 0 /\ cursor' = 0 /\ delivered' = <<>>
    /\ phase' = "authenticating"
    /\ tokenRequests' = tokenRequests + 1
    /\ FirstAttempt(TokenAttempts)
    /\ UNCHANGED authenticated

\* A step calls an iterate method of its client: getAuthenticatedServiceClient
\* asks for a token unless it has one.  A step may go on after a listing threw:
\* some handlers catch the error of one resource and turn to the next.
BeginListing ==
    /\ phase \in {"idle", "returned", "threw"}
    /\ listing < Listings
    /\ listing' = listing + 1
    /\ nextLink' = 0 /\ absorbed' = {}
    /\ page' = 0 /\ cursor' = 0 /\ delivered' = <<>>
    /\ UNCHANGED authenticated
    /\ \/ /\ ~authenticated
          /\ phase' = "authenticating"
          /\ tokenRequests' = tokenRequests + 1
          /\ FirstAttempt(TokenAttempts)
       \/ /\ authenticated
          /\ phase' = "requesting"
          /\ FirstAttempt(PageAttempts)
          /\ UNCHANGED tokenRequests

TokenObtained ==
    /\ phase = "authenticating"
    /\ phase' = "requesting"
    /\ authenticated' = TRUE
    /\ FirstAttempt(PageAttempts)
    /\ UNCHANGED <<tokenRequests, listVars>>

TokenFailed(e) ==
    /\ phase = "authenticating"
    /\ phase' = IF MayRetry(e) THEN "authBackoff" ELSE "threw"
    /\ Fail(e)
    /\ UNCHANGED <<authVars, listVars>>

RetryToken ==
    /\ phase = "authBackoff"
    /\ phase' = "authenticating"
    /\ tokenRequests' = tokenRequests + 1
    /\ NextAttempt
    /\ UNCHANGED <<authenticated, listVars>>

\* Which page a request asks for: listNext(nextLink), or else list().
RequestedPage == IF FollowsLinks /\ nextLink # 0 THEN nextLink ELSE 1

PageReceived ==
    /\ phase = "requesting"
    /\ phase' = "delivering"
    /\ page' = RequestedPage
    /\ cursor' = PageEnd[RequestedPage - 1]
    /\ UNCHANGED <<authVars, listing, nextLink, absorbed, delivered, retryVars>>

\* FAULT: the catch clause does not look at the status of the error.
CatchAny(status403, e) ==
    /\ phase' = "returned"
    /\ absorbed' = absorbed \cup {e}

\* The catch clause of iterateAllResources.
Catch(status403, e) ==
    /\ phase' = IF status403 THEN "returned" ELSE "threw"
    /\ absorbed' = IF status403 THEN absorbed \cup {e} ELSE absorbed

RequestRetried(e) ==
    /\ phase = "requesting"
    /\ MayRetry(e)
    /\ phase' = "backoff"
    /\ Fail(e)
    /\ UNCHANGED <<authVars, listVars>>

RetryRequest ==
    /\ phase = "backoff"
    /\ phase' = "requesting"
    /\ NextAttempt
    /\ UNCHANGED <<authVars, listVars>>

\* FAULT: an undefined response makes the loop begin anew.
RequestEmptyRestarts(e) ==
    /\ phase = "requesting"
    /\ ~MayRetry(e)
    /\ e \in EmptyResponse
    /\ phase' = "requesting"
    /\ absorbed' = absorbed \cup {e}
    /\ nextLink' = 0
    /\ FirstAttempt(PageAttempts)
    /\ UNCHANGED <<authVars, listing, pageVars>>

\* request() swallows the error: iterateAllResources skips its if (response)
\* block, the assignment to nextLink included.
RequestEmpty(e) ==
    /\ phase = "requesting"
    /\ ~MayRetry(e)
    /\ e \in EmptyResponse
    /\ phase' = "looping"
    /\ absorbed' = absorbed \cup {e}
    /\ Fail(e)
    /\ UNCHANGED <<authVars, listing, nextLink, pageVars>>

RequestFailed(e) ==
    /\ phase = "requesting"
    /\ ~MayRetry(e)
    /\ e \notin EmptyResponse
    /\ Catch(e \in Status403, e)
    /\ Fail(e)
    /\ UNCHANGED <<authVars, listing, nextLink, pageVars>>

\* The callback takes the next resource of the page.
DeliverResource ==
    /\ phase = "delivering"
    /\ cursor < PageEnd[page]
    /\ cursor' = cursor + 1
    /\ delivered' = Append(delivered, cursor + 1)
    /\ UNCHANGED <<phase, authVars, listing, nextLink, absorbed, page, retryVars>>

\* The callback throws: its error, a 403 of a request of its own included,
\* comes to the same catch clause.
CallbackThrew(status403) ==
    /\ phase = "delivering"
    /\ cursor < PageEnd[page]
    /\ Catch(status403, "callback")
    /\ UNCHANGED <<authVars, listing, nextLink, pageVars, retryVars>>

\* FAULT: the callbacks of a page are not awaited before the next page.
PageDoneUnawaited(link) ==
    /\ phase = "delivering"
    /\ \/ link = InvalidLink /\ phase' = "returned" /\ UNCHANGED nextLink
       \/ link # InvalidLink /\ phase' = "looping" /\ nextLink' = link
    /\ UNCHANGED <<authVars, listing, absorbed, pageVars, retryVars>>

\* FAULT: a link with an invalid skiptoken is followed.
PageDoneAnyLink(link) ==
    /\ phase = "delivering"
    /\ cursor = PageEnd[page]
    /\ phase' = "looping"
    /\ nextLink' = link
    /\ UNCHANGED <<authVars, listing, absorbed, pageVars, retryVars>>

\* The page is done.  A link with an invalid skiptoken ends the listing.
PageDone(link) ==
    /\ phase = "delivering"
    /\ cursor = PageEnd[page]
    /\ \/ link = InvalidLink /\ phase' = "returned" /\ UNCHANGED nextLink
       \/ link # InvalidLink /\ phase' = "looping" /\ nextLink' = link
    /\ UNCHANGED <<authVars, listing, absorbed, pageVars, retryVars>>

\* FAULT: while (nextLink && response.length)
LoopStopsAtEmptyPage ==
    /\ phase = "looping"
    /\ LET more == nextLink # 0 /\ (page = 0 \/ PageEnd[page - 1] < PageEnd[page])
       IN  \/ ~more /\ phase' = "returned" /\ UNCHANGED retryVars
           \/ more /\ phase' = "requesting" /\ FirstAttempt(PageAttempts)
    /\ UNCHANGED <<authVars, listVars>>

\* FAULT: while (nextLink || !response)
LoopUntilResponse ==
    /\ phase = "looping"
    /\ LET more == nextLink # 0 \/ page = 0
       IN  \/ ~more /\ phase' = "returned" /\ UNCHANGED retryVars
           \/ more /\ phase' = "requesting" /\ FirstAttempt(PageAttempts)
    /\ UNCHANGED <<authVars, listVars>>

\* while (nextLink)
Loop ==
    /\ phase = "looping"
    /\ \/ nextLink = 0 /\ phase' = "returned" /\ UNCHANGED retryVars
       \/ nextLink # 0 /\ phase' = "requesting" /\ FirstAttempt(PageAttempts)
    /\ UNCHANGED <<authVars, listVars>>

\* The step makes no more listings.
StepOver ==
    /\ phase \in {"threw", "returned"}
    /\ UNCHANGED vars

\* A request for the invalid link hangs.
Answered ==
    /\ RequestedPage # InvalidLink
    /\ \/ PageReceived
       \/ \E e \in ErrorsFor(RequestedPage) :
             \/ RequestRetried(e)
             \/ RequestEmpty(e)
             \/ RequestFailed(e)

Authenticate ==
    \/ TokenObtained
    \/ \E e \in TokenErrors : TokenFailed(e)
    \/ RetryToken

Deliver ==
    \/ DeliverResource
    \/ \E status403 \in BOOLEAN : CallbackThrew(status403)
    \/ \E link \in LinksAfter(page) : PageDone(link)

Progress == Authenticate \/ Answered \/ RetryRequest \/ Deliver \/ Loop

Next == BeginListing \/ Progress \/ StepOver

Spec == Init /\ [][Next]_vars

\* The runtime resumes a pending await when its answer is there or its timer
\* has run out, and the service answers every valid request at last.
FairSpec == Spec /\ WF_vars(Progress)
-----------------------------------------------------------------------------
(* Properties.                                                             *)

TypeOK ==
    /\ phase \in Phases
    /\ authenticated \in BOOLEAN
    /\ tokenRequests \in Nat
    /\ listing \in 0..Listings
    /\ nextLink \in 0..Pages
    /\ page \in 0..Pages
    /\ cursor \in 0..Total
    /\ delivered \in Seq(1..Total)
    /\ absorbed \subseteq Errors \cup {"callback"}
    /\ attemptsRemaining \in Nat
    /\ failures \in Seq(Errors)

\* The callback takes each resource at most once and in the service's order,
\* whatever errors, retries and repeated requests lie between two pages: a
\* repeated resource would make jobState.addEntity throw on its duplicate key.
DeliveredInOrder == \A i \in DOMAIN delivered : delivered[i] = i

\* iterateAllResources may return early, but never without having absorbed an
\* error: if it absorbed none the callback has taken every resource, those that
\* follow an empty page included.
CompleteUnlessAbsorbed ==
    phase = "returned" /\ absorbed = {} => Len(delivered) = Total

\* retryResourceRequest makes a further attempt only after a 429 or an error
\* that is no RestError, and gives up after the attempts it was granted.
RetryDiscipline ==
    /\ \A i \in DOMAIN failures : i < Len(failures) => failures[i] \in Retryable
    /\ phase \in {"authenticating", "authBackoff"} =>
          /\ Len(failures) <= TokenAttempts - 1
          /\ \A i \in DOMAIN failures : failures[i] \in Retryable
    /\ phase \in {"requesting", "backoff"} =>
          /\ Len(failures) <= PageAttempts - 1
          /\ \A i \in DOMAIN failures : failures[i] \in Retryable

\* An error that is neither a 404, nor a missing registration, nor a bare 403
\* reaches the step: no listing that met one returns as if it had succeeded.
FinalErrorsSurface ==
    \A i \in DOMAIN failures :
        failures[i] \notin Retryable \cup EmptyResponse \cup Status403
            => phase = "threw"

\* The client obtains one token and uses it for all its listings
\* (client.test.ts, 'client accessToken fetched once and used across resources').
TokenFetchedOnce == [][authenticated => tokenRequests' = tokenRequests]_vars

\* What a listing amounts to for the step: see PagedListing.
Outcome ==
    CASE phase = "threw" -> "failed"
      [] phase = "returned" -> IF absorbed = {} THEN "complete" ELSE "partial"
      [] OTHER -> "running"

Promise == INSTANCE PagedListing WITH outcome <- Outcome

\* The client keeps the promise of PagedListing.
KeepsPromise == Promise!Spec

Ended == phase \in {"returned", "threw"}

\* The empty response came to a request for a next link: see NotFoundEndsListing.
Looping == absorbed \cap EmptyResponse # {} /\ nextLink # 0

\* Every listing ends, whatever fails and whatever the retries, except one whose
\* request for a next link was answered with an empty response.
ListingEnds == phase # "idle" ~> Ended \/ Looping

\* "Sometimes listing fails with a 404 response.  In this case, the callback
\* will not be invoked, as if there are no contained resources": a listing that
\* met a 404 ends.
NotFoundEndsListing ==
    "notFound" \in absorbed ~> Ended
=============================================================================
