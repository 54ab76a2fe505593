--------------------------- MODULE GraphClientProofs ---------------------------
(***************************************************************************)
(* What GraphClient guarantees for every number of pages, every split of    *)
(* the items over them, and every number of attempts and expiries.          *)
(*                                                                         *)
(* Four strengthenings make the invariants of the runs inductive: a refused *)
(* token leaves its mark on the retry loop until it is replaced (Refusal);  *)
(* failures and remaining attempts add up (Budget); every expiry costs one  *)
(* failure at most (Expired); and Position says how far the callback is.    *)
(***************************************************************************)
EXTENDS GraphClient, TLAPS

\* Type correctness: a retry loop waits only when it has an attempt left.
Typed ==
    /\ TypeOK
    /\ phase = "backoff" => attemptsRemaining > 0

\* The loop remembers a refused token as long as the token is the cached one.
Refusal ==
    /\ phase \in {"attempting", "backoff"} => (rejected => shouldRefresh)
    /\ RejectedTokenNotResent

\* The attempts of a retry loop add up.
Budget ==
    /\ phase \in {"attempting", "sent"} => Len(failures) + attemptsRemaining = MaxAttempts - 1
    /\ phase = "backoff" => Len(failures) + attemptsRemaining = MaxAttempts
    /\ FailsOnlyWhenExhausted

AllExpired == \A i \in DOMAIN failures : failures[i] = "expiredToken"

\* A loop that has seen nothing but expired tokens has seen as many expiries, and one more
\* when the cached token has expired since.
Expired ==
    /\ token = "expired" => expiries > 0
    /\ AllExpired => Len(failures) <= expiries
    /\ AllExpired /\ token = "expired" /\ ~rejected => Len(failures) < expiries

\* How far the callback has got, in each phase.
Position ==
    /\ phase = "idle" => delivered = <<>>
    /\ phase \in {"attempting", "sent", "backoff"} => Len(delivered) = PageEnd[RequestedPage - 1]
    /\ phase = "delivering" =>
          /\ page # 0 /\ nextLink = LinkAfter(page)
          /\ cursor = Len(delivered) /\ cursor <= PageEnd[page]
    /\ phase = "looping" =>
          \/ nextLink # 0 /\ Len(delivered) = PageEnd[nextLink - 1]
          \/ nextLink = 0 /\ (Len(delivered) = Total \/ absorbed # {})
    /\ phase = "returned" /\ absorbed = {} => Len(delivered) = Total

\* What CompleteUnlessAbsorbed needs to be inductive.
InOrder ==
    /\ \A i \in DOMAIN delivered : delivered[i] = i
    /\ Position
-----------------------------------------------------------------------------
(* The state functions the proofs refer to together.                       *)

\* The first item of a page never lies beyond its last one, nor its last one beyond the
\* end of the listing.
LEMMA PageBounds ==
    /\ Total \in Nat
    /\ \A p \in 0..Pages : PageEnd[p] \in 0..Total
    /\ \A p \in 1..Pages : PageEnd[p - 1] <= PageEnd[p]
  <1>1. /\ Pages \in 0..Pages /\ Pages \in Nat
        /\ \A p \in 1..Pages : p - 1 \in 0..Pages /\ p \in 0..Pages /\ p - 1 <= p
    BY PagesAssumption
  <1> QED  BY <1>1, PageEndAssumption DEF Total

\* A failed attempt leaves everything about the listing alone, or ends the request.
LEMMA ListingAfterFailure ==
    ASSUME NEW e \in Errors, AttemptFailed(e)
    PROVE  /\ UNCHANGED <<listing, pageVars>>
           /\ \/ /\ phase' = "backoff" /\ attemptsRemaining > 0
                 /\ UNCHANGED <<nextLink, absorbed>>
              \/ /\ phase' = "looping" /\ attemptsRemaining = 0
                 /\ nextLink' = 0 /\ absorbed' = absorbed \cup {e}
              \/ /\ phase' = "returned" /\ attemptsRemaining = 0
                 /\ nextLink' = nextLink /\ absorbed' = absorbed \cup {e}
              \/ /\ phase' = "threw" /\ attemptsRemaining = 0
                 /\ UNCHANGED <<nextLink, absorbed>>
  BY DEF AttemptFailed, GiveUp, listVars, pageVars

\* What a failed attempt adds to the failures of the retry loop.
LEMMA FailureAdded ==
    ASSUME TypeOK, NEW e \in Errors, HandleError(e)
    PROVE  /\ failures' \in Seq(Errors)
           /\ Len(failures) \in Nat /\ Len(failures') = Len(failures) + 1
           /\ DOMAIN failures = 1..Len(failures) /\ DOMAIN failures' = 1..Len(failures) + 1
           /\ failures'[Len(failures) + 1] = e
           /\ \A i \in 1..Len(failures) : failures'[i] = failures[i]
           /\ attemptsRemaining' = attemptsRemaining
  BY DEF HandleError, TypeOK

\* Which attempts fail, and how.
LEMMA WhichFails ==
    ASSUME AuthenticateFailed \/ RequestFailed
    PROVE  \E e \in Errors :
              /\ AttemptFailed(e) /\ HandleError(e)
              /\ phase \in {"attempting", "sent"}
              /\ e = "expiredToken" => phase = "sent" /\ token = "expired"
  BY DEF AuthenticateFailed, RequestFailed, AttemptFailed, Errors, ServiceErrors
-----------------------------------------------------------------------------
(* Type correctness.                                                       *)

\* A client starts typed.
LEMMA TypedInit == Init => Typed
  <1> SUFFICES ASSUME Init  PROVE Typed
    OBVIOUS
  <1>1. /\ 0 \in 0..Listings /\ 0 \in 0..Pages /\ 0 \in 0..Total /\ 0 \in 0..Expiries
        /\ 0 \in 0..MaxAttempts - 1
        /\ delivered \in Seq(1..Total) /\ failures \in Seq(Errors)
    BY PagesAssumption, BoundsAssumption, AttemptsAssumption, PageBounds DEF Init
  <1> QED  BY <1>1 DEF Init, Typed, TypeOK, Phases

\* A request that begins is typed.
LEMMA RequestTyped ==
    ASSUME StartRequest
    PROVE  /\ phase' \in Phases /\ rejected' \in BOOLEAN /\ shouldRefresh' \in BOOLEAN
           /\ attemptsRemaining' \in 0..MaxAttempts - 1 /\ failures' \in Seq(Errors)
           /\ token' = token /\ expiries' = expiries /\ phase' # "backoff"
  <1>1. <<>> \in Seq(Errors) /\ MaxAttempts - 1 \in 0..MaxAttempts - 1
    BY AttemptsAssumption
  <1> QED  BY <1>1 DEF StartRequest, Phases

\* Typed is inductive.
LEMMA TypedNext == Typed /\ [Next]_vars => Typed'
  <1> SUFFICES ASSUME Typed, [Next]_vars
               PROVE  Typed'
    OBVIOUS
  <1> USE DEF Typed, TypeOK
  <1>1. CASE BeginListing
    <2>1. /\ listing' \in 0..Listings /\ nextLink' \in 0..Pages
          /\ page' \in 0..Pages /\ cursor' \in 0..Total
      BY <1>1, PagesAssumption, PageBounds, BoundsAssumption DEF BeginListing
    <2>2. delivered' \in Seq(1..Total) /\ absorbed' = {} /\ StartRequest
      BY <1>1 DEF BeginListing
    <2> QED  BY <2>1, <2>2, RequestTyped
  <1>2. CASE RefreshToken
    BY <1>2 DEF RefreshToken, listVars, pageVars
  <1>3. CASE FetchToken
    BY <1>3 DEF FetchToken, retryVars, listVars, pageVars
  <1>4. CASE Send
    BY <1>4 DEF Send, Phases, tokenVars, retryVars, listVars, pageVars
  <1>5. CASE AuthenticateFailed \/ RequestFailed
    <2>1. PICK e \in Errors : AttemptFailed(e) /\ HandleError(e)
      BY <1>5, WhichFails
    <2>2. /\ failures' \in Seq(Errors) /\ attemptsRemaining' = attemptsRemaining
      BY <2>1, FailureAdded
    <2>3. /\ UNCHANGED <<listing, pageVars>> /\ nextLink' \in 0..Pages
          /\ absorbed' \subseteq Errors /\ phase' \in Phases
          /\ phase' = "backoff" => attemptsRemaining > 0
      BY <2>1, ListingAfterFailure, PagesAssumption DEF Phases
    <2>4. /\ shouldRefresh' \in BOOLEAN /\ rejected' \in BOOLEAN
          /\ token' = token /\ expiries' = expiries
      BY <2>1 DEF HandleError
    <2> QED  BY <2>2, <2>3, <2>4 DEF pageVars
  <1>6. CASE NextAttempt
    BY <1>6, AttemptsAssumption DEF NextAttempt, Phases, tokenVars, listVars, pageVars
  <1>7. CASE PageReceived
    <2>1. RequestedPage \in 1..Pages /\ RequestedPage - 1 \in 0..Pages
      BY PagesAssumption DEF RequestedPage
    <2> QED  BY <1>7, <2>1, PageBounds, PagesAssumption
                DEF PageReceived, LinkAfter, Phases, tokenVars, retryVars
  <1>8. CASE DeliverItem
    <2>1. cursor + 1 \in 1..Total
      BY <1>8, PageBounds DEF DeliverItem
    <2> QED  BY <1>8, <2>1, PageBounds DEF DeliverItem, tokenVars, retryVars
  <1>9. CASE PageDone
    BY <1>9 DEF PageDone, Phases, tokenVars, retryVars, listVars, pageVars
  <1>10. CASE Loop
    <2>1. CASE StartRequest
      BY <1>10, <2>1, RequestTyped DEF Loop, listVars, pageVars
    <2>2. CASE ~StartRequest
      BY <1>10, <2>2 DEF Loop, Phases, tokenVars, retryVars, listVars, pageVars
    <2> QED  BY <2>1, <2>2
  <1>11. CASE TokenExpires
    BY <1>11, BoundsAssumption DEF TokenExpires, retryVars, listVars, pageVars
  <1>12. CASE UNCHANGED vars
    BY <1>12 DEF vars, tokenVars, retryVars, listVars, pageVars
  <1> QED
    BY <1>1, <1>2, <1>3, <1>4, <1>5, <1>6, <1>7, <1>8, <1>9, <1>10, <1>11, <1>12
       DEF Next, Progress, StepOver

\* Every variable keeps its type, and attemptsRemaining never drops below zero.
THEOREM TypeCorrect == Spec => []TypeOK
  <1>1. Typed => TypeOK
    BY DEF Typed
  <1> QED  BY TypedInit, TypedNext, <1>1, PTL DEF Spec
-----------------------------------------------------------------------------
(* Tokens and attempts.                                                    *)

\* Refusal is inductive.
LEMMA RefusalNext == Typed /\ Refusal /\ [Next]_vars => Refusal'
  <1> SUFFICES ASSUME Typed, Refusal, [Next]_vars
               PROVE  Refusal'
    OBVIOUS
  <1> USE DEF Refusal, RejectedTokenNotResent
  <1>1. CASE BeginListing \/ Loop
    BY <1>1 DEF BeginListing, Loop, StartRequest
  <1>2. CASE RefreshToken \/ FetchToken \/ Send \/ NextAttempt
    BY <1>2 DEF RefreshToken, FetchToken, Send, NextAttempt, tokenVars, retryVars
  <1>3. CASE AuthenticateFailed \/ RequestFailed
    <2>1. PICK e \in Errors :
             AttemptFailed(e) /\ HandleError(e) /\ phase \in {"attempting", "sent"}
      BY <1>3, WhichFails
    <2>2. phase' \in {"backoff", "looping", "returned", "threw"}
      BY <2>1, ListingAfterFailure
    <2> QED  BY <2>1, <2>2 DEF HandleError
  <1>4. CASE PageReceived \/ DeliverItem \/ PageDone
    BY <1>4 DEF PageReceived, DeliverItem, PageDone
  <1>5. CASE TokenExpires
    BY <1>5 DEF TokenExpires, retryVars
  <1>6. CASE UNCHANGED vars
    BY <1>6 DEF vars, tokenVars, retryVars
  <1> QED  BY <1>1, <1>2, <1>3, <1>4, <1>5, <1>6 DEF Next, Progress, StepOver

\* A token that Graph has refused is not sent again, however often the refresh fails.
THEOREM RefusedTokensAreReplaced == Spec => []RejectedTokenNotResent
  <1>1. Init => Refusal
    BY DEF Init, Refusal, RejectedTokenNotResent
  <1>2. Refusal => RejectedTokenNotResent
    BY DEF Refusal
  <1> QED  BY <1>1, <1>2, TypedInit, TypedNext, RefusalNext, PTL DEF Spec

\* Budget is inductive.
LEMMA BudgetNext == Typed /\ Budget /\ [Next]_vars => Budget'
  <1> SUFFICES ASSUME Typed, Budget, [Next]_vars
               PROVE  Budget'
    OBVIOUS
  <1> USE DEF Budget, FailsOnlyWhenExhausted
  <1>t. attemptsRemaining \in Nat /\ Len(failures) \in Nat /\ MaxAttempts \in Nat
    BY AttemptsAssumption DEF Typed, TypeOK
  <1>1. CASE BeginListing \/ Loop
    <2>1. \/ StartRequest
          \/ phase' = "returned"
      BY <1>1 DEF BeginListing, Loop
    <2>2. Len(<<>>) = 0
      OBVIOUS
    <2> QED  BY <2>1, <2>2, <1>t DEF StartRequest
  <1>2. CASE RefreshToken \/ FetchToken \/ Send
    BY <1>2 DEF RefreshToken, FetchToken, Send, retryVars
  <1>3. CASE NextAttempt
    BY <1>3, <1>t DEF NextAttempt
  <1>4. CASE AuthenticateFailed \/ RequestFailed
    <2>1. PICK e \in Errors :
             AttemptFailed(e) /\ HandleError(e) /\ phase \in {"attempting", "sent"}
      BY <1>4, WhichFails
    <2>2. /\ Len(failures') = Len(failures) + 1 /\ attemptsRemaining' = attemptsRemaining
      BY <2>1, FailureAdded DEF Typed
    <2>3. \/ phase' \in {"backoff", "looping", "returned"}
          \/ phase' = "threw" /\ attemptsRemaining = 0
      BY <2>1, ListingAfterFailure
    <2> QED  BY <2>1, <2>2, <2>3, <1>t
  <1>5. CASE PageReceived \/ DeliverItem \/ PageDone
    BY <1>5 DEF PageReceived, DeliverItem, PageDone
  <1>6. CASE TokenExpires
    BY <1>6 DEF TokenExpires, retryVars
  <1>7. CASE UNCHANGED vars
    BY <1>7 DEF vars, retryVars
  <1> QED  BY <1>1, <1>2, <1>3, <1>4, <1>5, <1>6, <1>7 DEF Next, Progress, StepOver

\* No single answer and no callback fails a listing: a request that does has used up all
\* its attempts.
THEOREM FailuresUseAllAttempts == Spec => []FailsOnlyWhenExhausted
  <1>1. Init => Budget
    BY DEF Init, Budget, FailsOnlyWhenExhausted
  <1>2. Budget => FailsOnlyWhenExhausted
    BY DEF Budget
  <1> QED  BY <1>1, <1>2, TypedInit, TypedNext, BudgetNext, PTL DEF Spec

\* Expired is inductive.
LEMMA ExpiredNext == Typed /\ Refusal /\ Expired /\ [Next]_vars => Expired'
  <1> SUFFICES ASSUME Typed, Refusal, Expired, [Next]_vars
               PROVE  Expired'
    OBVIOUS
  <1> USE DEF Expired
  <1>t. expiries \in Nat /\ Len(failures) \in Nat
    BY BoundsAssumption DEF Typed, TypeOK
  <1>1. CASE BeginListing \/ Loop
    <2>1. \/ StartRequest
          \/ UNCHANGED <<token, rejected, expiries, failures>>
      BY <1>1 DEF BeginListing, Loop, tokenVars, retryVars
    <2>2. Len(<<>>) = 0
      OBVIOUS
    <2>3. CASE StartRequest
      BY <2>2, <2>3, <1>t DEF StartRequest
    <2>4. CASE UNCHANGED <<token, rejected, expiries, failures>>
      BY <2>4 DEF AllExpired
    <2> QED  BY <2>1, <2>3, <2>4
  <1>2. CASE RefreshToken \/ FetchToken
    BY <1>2 DEF RefreshToken, FetchToken, retryVars, AllExpired
  <1>3. CASE AuthenticateFailed \/ RequestFailed
    <2>1. PICK e \in Errors :
             /\ HandleError(e)
             /\ e = "expiredToken" => phase = "sent" /\ token = "expired"
      BY <1>3, WhichFails
    <2>2. /\ Len(failures') = Len(failures) + 1
          /\ AllExpired' => AllExpired /\ e = "expiredToken"
      BY <2>1, FailureAdded DEF Typed, AllExpired
    <2>3. /\ token' = token /\ expiries' = expiries
          /\ e = "expiredToken" => rejected' /\ ~rejected
      BY <2>1 DEF HandleError, Refusal, RejectedTokenNotResent
    <2> QED  BY <2>1, <2>2, <2>3, <1>t
  <1>4. CASE Send \/ NextAttempt \/ PageReceived \/ DeliverItem \/ PageDone
    BY <1>4 DEF Send, NextAttempt, PageReceived, DeliverItem, PageDone, tokenVars,
                retryVars, AllExpired
  <1>5. CASE TokenExpires
    BY <1>5, <1>t DEF TokenExpires, retryVars, AllExpired
  <1>6. CASE UNCHANGED vars
    BY <1>6 DEF vars, tokenVars, retryVars, AllExpired
  <1> QED  BY <1>1, <1>2, <1>3, <1>4, <1>5, <1>6 DEF Next, Progress, StepOver

\* Tokens that expire less often than a request is attempted do not fail a listing.
THEOREM ExpiriesAreSurvived == Spec => []ExpiryIsSurvived
  <1>1. Init => Refusal /\ Budget /\ Expired
    BY DEF Init, Refusal, RejectedTokenNotResent, Budget, FailsOnlyWhenExhausted, Expired,
           AllExpired
  <1>2. Typed /\ Budget /\ Expired => ExpiryIsSurvived
    <2> SUFFICES ASSUME Typed, Budget, Expired, phase = "threw", Expiries < MaxAttempts,
                        AllExpired
                 PROVE  FALSE
      BY DEF ExpiryIsSurvived, AllExpired
    <2>1. Len(failures) = MaxAttempts /\ Len(failures) <= expiries
      BY DEF Budget, FailsOnlyWhenExhausted, Expired
    <2>2. expiries \in 0..Expiries /\ MaxAttempts \in Nat /\ Expiries \in Nat
      BY AttemptsAssumption, BoundsAssumption DEF Typed, TypeOK
    <2> QED  BY <2>1, <2>2
  <1> QED
    BY <1>1, <1>2, TypedInit, TypedNext, RefusalNext, BudgetNext, ExpiredNext, PTL DEF Spec
-----------------------------------------------------------------------------
(* Listings.                                                               *)

\* InOrder is inductive.
LEMMA InOrderNext == Typed /\ InOrder /\ [Next]_vars => InOrder'
  <1> SUFFICES ASSUME Typed, InOrder, [Next]_vars
               PROVE  InOrder'
    OBVIOUS
  <1> USE DEF InOrder, Position
  <1>t. /\ nextLink \in 0..Pages /\ page \in 0..Pages /\ cursor \in Nat
        /\ delivered \in Seq(1..Total) /\ Pages \in Nat \ {0}
    BY PagesAssumption, PageBounds DEF Typed, TypeOK
  <1>1. CASE BeginListing
    <2>1. delivered' = <<>> /\ nextLink' = 0 /\ phase' = "attempting"
      BY <1>1 DEF BeginListing, StartRequest
    <2>2. RequestedPage' = 1 /\ PageEnd[0] = 0
      BY <2>1, PageEndAssumption DEF RequestedPage
    <2> QED  BY <2>1, <2>2
  <1>2. CASE RefreshToken \/ FetchToken \/ Send \/ NextAttempt
    <2>1. /\ phase \in {"attempting", "backoff"} /\ phase' \in {"attempting", "sent"}
          /\ UNCHANGED listVars
      BY <1>2 DEF RefreshToken, FetchToken, Send, NextAttempt
    <2> QED  BY <2>1 DEF listVars, pageVars, RequestedPage
  <1>3. CASE AuthenticateFailed \/ RequestFailed
    <2>1. PICK e \in Errors : AttemptFailed(e) /\ phase \in {"attempting", "sent"}
      BY <1>3, WhichFails
    <2>2. /\ delivered' = delivered
          /\ \/ phase' = "backoff" /\ nextLink' = nextLink
             \/ phase' = "looping" /\ nextLink' = 0 /\ absorbed' # {}
             \/ phase' = "returned" /\ absorbed' # {}
             \/ phase' = "threw"
      BY <2>1, ListingAfterFailure DEF pageVars
    <2> QED  BY <2>1, <2>2 DEF RequestedPage
  <1>4. CASE PageReceived
    <2>1. /\ phase = "sent" /\ phase' = "delivering" /\ delivered' = delivered
          /\ page' = RequestedPage /\ nextLink' = LinkAfter(RequestedPage)
          /\ cursor' = PageEnd[RequestedPage - 1]
      BY <1>4 DEF PageReceived
    <2>2. RequestedPage \in 1..Pages
      BY <1>t DEF RequestedPage
    <2>3. PageEnd[RequestedPage - 1] <= PageEnd[RequestedPage]
      BY <2>2, PageBounds
    <2>4. LinkAfter(page)' = LinkAfter(RequestedPage) /\ page' # 0
      BY <2>1, <2>2 DEF LinkAfter
    <2> QED  BY <2>1, <2>2, <2>3, <2>4
  <1>5. CASE DeliverItem
    <2>1. /\ phase = "delivering" /\ phase' = "delivering" /\ page' = page
          /\ nextLink' = nextLink /\ cursor < PageEnd[page] /\ cursor' = cursor + 1
          /\ delivered' = Append(delivered, cursor + 1)
      BY <1>5 DEF DeliverItem
    <2>2. cursor = Len(delivered) /\ PageEnd[page] \in Nat
      BY <2>1, <1>t, PageBounds
    <2>3. /\ Len(delivered') = cursor + 1
          /\ DOMAIN delivered' = 1..cursor + 1 /\ DOMAIN delivered = 1..cursor
          /\ delivered'[cursor + 1] = cursor + 1
          /\ \A i \in 1..cursor : delivered'[i] = delivered[i]
      BY <2>1, <2>2, <1>t
    <2> QED  BY <2>1, <2>2, <2>3, <1>t DEF LinkAfter
  <1>6. CASE PageDone
    <2>1. /\ phase = "delivering" /\ phase' = "looping" /\ cursor = PageEnd[page]
          /\ delivered' = delivered /\ nextLink' = nextLink
      BY <1>6 DEF PageDone, listVars, pageVars
    <2>2. cursor = Len(delivered) /\ page # 0 /\ nextLink = LinkAfter(page)
      BY <2>1
    <2>3. \/ nextLink = page + 1 /\ nextLink # 0 /\ nextLink - 1 = page
          \/ page = Pages /\ nextLink = 0
      BY <2>2, <1>t DEF LinkAfter
    <2> QED  BY <2>1, <2>2, <2>3 DEF Total
  <1>7. CASE Loop
    <2>1. /\ phase = "looping" /\ UNCHANGED <<delivered, nextLink, absorbed>>
          /\ \/ nextLink # 0 /\ phase' = "attempting"
             \/ nextLink = 0 /\ phase' = "returned"
      BY <1>7 DEF Loop, StartRequest, listVars, pageVars
    <2> QED  BY <2>1 DEF RequestedPage
  <1>8. CASE TokenExpires \/ UNCHANGED vars
    BY <1>8 DEF TokenExpires, vars, listVars, pageVars, RequestedPage, LinkAfter
  <1> QED
    BY <1>1, <1>2, <1>3, <1>4, <1>5, <1>6, <1>7, <1>8 DEF Next, Progress, StepOver

\* A complete listing has handed over the items in order.
LEMMA InOrderIsComplete == Typed /\ InOrder => CompleteUnlessAbsorbed
  <1> SUFFICES ASSUME Typed, InOrder, phase = "returned", absorbed = {}
               PROVE  delivered = [i \in 1..Total |-> i]
    BY DEF CompleteUnlessAbsorbed
  <1>1. /\ delivered \in [1..Len(delivered) -> 1..Total] /\ Len(delivered) = Total
        /\ DOMAIN delivered = 1..Len(delivered)
    BY DEF Typed, TypeOK, InOrder, Position
  <1> QED  BY <1>1 DEF InOrder

\* A client starts with nothing delivered.
LEMMA InOrderInit == Init => InOrder
  BY DEF Init, InOrder, Position

\* A listing that absorbed no error offered every item to the callback, once and in order.
THEOREM ListingsAreComplete == Spec => []CompleteUnlessAbsorbed
  BY TypedInit, TypedNext, InOrderInit, InOrderNext, InOrderIsComplete, PTL DEF Spec
-----------------------------------------------------------------------------
(* The client implements PagedListing.                                     *)

\* A client that has not begun is a listing that has not begun.
LEMMA PromiseInit == Init => Promise!Init
  BY DEF Init, Promise!Init, Outcome

\* Every step of the client is one of the abstract listing, or none.
LEMMA PromiseNext ==
    ASSUME Typed, InOrder, InOrder', [Next]_vars
    PROVE  [Promise!Next]_(Promise!vars)
  <1>o. /\ phase \notin {"threw", "returned"} => Outcome = "running"
        /\ phase' \notin {"threw", "returned"} => Outcome' = "running"
        /\ phase' = "threw" => Outcome' = "failed"
        /\ phase' = "returned" /\ absorbed' = {} => Outcome' = "complete"
        /\ phase' = "returned" /\ absorbed' # {} => Outcome' = "partial"
        /\ phase \in {"threw", "returned"} => Outcome # "running"
    BY DEF Outcome
  <1>1. ASSUME delivered' = delivered, phase \notin {"threw", "returned"}
        PROVE  [Promise!Next]_(Promise!vars)
    <2>1. CASE phase' \in {"threw", "returned"}
      <3>1. Outcome = "running" /\ Outcome' \in Promise!Outcomes \ {"running"}
        BY <1>1, <2>1, <1>o DEF Promise!Outcomes
      <3>2. Outcome' = "complete" => Len(delivered) = Total
        BY <1>1, <2>1, <1>o DEF InOrder, Position
      <3> QED  BY <1>1, <3>1, <3>2 DEF Promise!Next, Promise!End
    <2>2. CASE phase' \notin {"threw", "returned"}
      BY <1>1, <2>2, <1>o DEF Promise!vars
    <2> QED  BY <2>1, <2>2
  <1>2. CASE BeginListing
    <2>1. delivered' = <<>> /\ Outcome' = "running"
      BY <1>2, <1>o DEF BeginListing, StartRequest
    <2>2. CASE phase = "idle"
      BY <2>1, <2>2, <1>o DEF InOrder, Position, Promise!vars
    <2>3. CASE phase \in {"threw", "returned"}
      BY <2>1, <2>3, <1>o DEF Promise!Next, Promise!Restart
    <2> QED  BY <1>2, <2>2, <2>3 DEF BeginListing
  <1>3. CASE RefreshToken \/ FetchToken \/ Send \/ NextAttempt \/ PageReceived
             \/ PageDone \/ Loop
    <2>1. delivered' = delivered /\ phase \notin {"threw", "returned"}
      BY <1>3 DEF RefreshToken, FetchToken, Send, NextAttempt, PageReceived, PageDone, Loop,
                  listVars, pageVars
    <2> QED  BY <1>1, <2>1
  <1>4. CASE AuthenticateFailed \/ RequestFailed
    <2>1. PICK e \in Errors : AttemptFailed(e) /\ phase \in {"attempting", "sent"}
      BY <1>4, WhichFails
    <2>2. delivered' = delivered
      BY <2>1, ListingAfterFailure DEF pageVars
    <2> QED  BY <1>1, <2>1, <2>2
  <1>5. CASE DeliverItem
    <2>1. /\ phase = "delivering" /\ phase' = "delivering" /\ cursor < PageEnd[page]
          /\ delivered' = Append(delivered, cursor + 1)
      BY <1>5 DEF DeliverItem
    <2>2. /\ page \in 0..Pages /\ cursor = Len(delivered) /\ cursor \in Nat
          /\ PageEnd[page] \in 0..Total /\ Total \in Nat
      BY <2>1, PageBounds DEF Typed, TypeOK, InOrder, Position
    <2>3. Len(delivered) < Total
      BY <2>1, <2>2
    <2> QED  BY <2>1, <2>2, <2>3, <1>o DEF Promise!Next, Promise!Deliver
  <1>6. CASE TokenExpires \/ UNCHANGED vars
    <2>1. delivered' = delivered /\ phase' = phase /\ absorbed' = absorbed
      BY <1>6 DEF TokenExpires, vars, listVars, pageVars
    <2>2. Outcome' = Outcome
      BY <2>1 DEF Outcome
    <2> QED  BY <2>1, <2>2 DEF Promise!vars
  <1> QED  BY <1>2, <1>3, <1>4, <1>5, <1>6 DEF Next, Progress, StepOver

\* Whatever Graph answers and whenever tokens expire, the client keeps the promise of
\* PagedListing.
THEOREM ClientKeepsPromise == Spec => KeepsPromise
  <1>1. Typed /\ InOrder /\ InOrder' /\ [Next]_vars => [Promise!Next]_(Promise!vars)
    BY PromiseNext
  <1> QED
    BY <1>1, PromiseInit, TypedInit, TypedNext, InOrderInit, InOrderNext, PTL
       DEF Spec, KeepsPromise, Promise!Spec
-----------------------------------------------------------------------------
(* Listings do not go on for ever.                                         *)

\* Work counts down, part by part: the pages still to come; what is to be done with the one
\* that came; the items of that page, or the attempts for the next; and the awaits of an attempt.
PagesLeft ==
    IF phase \in {"delivering", "looping"} /\ nextLink = 0 THEN 0 ELSE Pages + 1 - RequestedPage

Stage == CASE phase = "delivering" -> 2 [] phase = "looping" -> 1 [] OTHER -> 0

Remaining == IF phase = "delivering" THEN PageEnd[page] - cursor ELSE attemptsRemaining

Awaits == CASE phase = "attempting" -> IF shouldRefresh THEN 4 ELSE IF token = "none" THEN 3 ELSE 2
            [] phase = "sent" -> 1
            [] OTHER -> 0

Work == <<PagesLeft, Stage, Remaining, Awaits>>

Shrinks ==
    \/ PagesLeft' < PagesLeft
    \/ PagesLeft' = PagesLeft /\ Stage' < Stage
    \/ <<PagesLeft, Stage>>' = <<PagesLeft, Stage>> /\ Remaining' < Remaining
    \/ <<PagesLeft, Stage, Remaining>>' = <<PagesLeft, Stage, Remaining>> /\ Awaits' < Awaits

WorkIsFinite == Work \in Nat \X Nat \X Nat \X Nat

\* What is left of a page, and of the pages, is a number.
LEMMA WorkIsANumber == ASSUME Typed, InOrder PROVE WorkIsFinite
  <1>1. /\ Pages \in Nat /\ nextLink \in 0..Pages /\ attemptsRemaining \in Nat
        /\ PagesLeft \in Nat /\ Stage \in Nat /\ Awaits \in Nat
    BY PagesAssumption, AttemptsAssumption
       DEF Typed, TypeOK, PagesLeft, RequestedPage, Stage, Awaits
  <1>2. Remaining \in Nat
    <2>1. CASE phase = "delivering"
      <3>1. page \in 0..Pages /\ cursor \in Nat /\ cursor <= PageEnd[page]
        BY <2>1, PageBounds DEF Typed, TypeOK, InOrder, Position
      <3> QED  BY <2>1, <3>1, PageBounds DEF Remaining
    <2> QED  BY <1>1, <2>1 DEF Remaining
  <1> QED  BY <1>1, <1>2 DEF WorkIsFinite, Work

\* Every step but the begin of a listing ends it, or leaves less to do.
LEMMA StepsShrinkWork ==
    ASSUME Typed, InOrder, [Next]_vars
    PROVE  \/ BeginListing \/ UNCHANGED vars
           \/ TokenExpires /\ UNCHANGED Work
           \/ phase' \in {"returned", "threw"}
           \/ Shrinks
  <1>t. /\ nextLink \in 0..Pages /\ page \in 0..Pages /\ cursor \in Nat
        /\ attemptsRemaining \in Nat /\ Pages \in Nat \ {0}
    BY PagesAssumption, AttemptsAssumption, PageBounds DEF Typed, TypeOK
  <1> USE <1>t
  <1> USE DEF PagesLeft, Stage, Remaining, Awaits, Shrinks
  <1>1. CASE RefreshToken \/ FetchToken \/ Send
    BY <1>1 DEF RefreshToken, FetchToken, Send, RequestedPage, retryVars, tokenVars, listVars
  <1>2. CASE AuthenticateFailed \/ RequestFailed
    <2>1. PICK e \in Errors :
             AttemptFailed(e) /\ HandleError(e) /\ phase \in {"attempting", "sent"}
      BY <1>2, WhichFails
    <2>2. CASE phase' = "backoff"
      BY <2>1, <2>2, ListingAfterFailure DEF HandleError, RequestedPage
    <2>3. CASE phase' = "looping"
      BY <2>1, <2>3, ListingAfterFailure DEF RequestedPage
    <2> QED  BY <2>1, <2>2, <2>3, ListingAfterFailure
  <1>3. CASE NextAttempt
    BY <1>3 DEF NextAttempt, RequestedPage, listVars
  <1>4. CASE PageReceived
    BY <1>4 DEF PageReceived, RequestedPage, LinkAfter
  <1>5. CASE DeliverItem
    <2>1. PageEnd[page] \in Nat
      BY PageBounds
    <2> QED  BY <1>5, <2>1 DEF DeliverItem, RequestedPage
  <1>6. CASE PageDone \/ Loop
    BY <1>6 DEF PageDone, Loop, StartRequest, RequestedPage, listVars, pageVars
  <1>7. CASE TokenExpires
    BY <1>7 DEF TokenExpires, Work, RequestedPage, retryVars, listVars, pageVars
  <1> QED  BY <1>1, <1>2, <1>3, <1>4, <1>5, <1>6, <1>7 DEF Next, Progress, StepOver

\* Every listing has a finite amount of work, and the client ends it or has less to do after
\* each of its steps, so that neither the next links nor the retries go on for ever; a token
\* that expires gives it nothing more to do.  It is the safety half of ListingEnds.
THEOREM ListingsShrink ==
    Spec => /\ []WorkIsFinite
            /\ [][\/ BeginListing
                  \/ TokenExpires /\ UNCHANGED Work
                  \/ phase' \in {"returned", "threw"}
                  \/ Shrinks]_vars
  BY TypedInit, TypedNext, InOrderInit, InOrderNext, WorkIsANumber, StepsShrinkWork, PTL DEF Spec
=============================================================================
