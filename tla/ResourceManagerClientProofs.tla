------------------- MODULE ResourceManagerClientProofs -------------------
(***************************************************************************)
(* What ResourceManagerClient guarantees for every number of pages, every  *)
(* split of the resources over them, and every number of attempts.         *)
(*                                                                         *)
(* The invariants the runs check are not inductive.  Three strengthenings  *)
(* carry them: Typed says in addition when an attempt is left; Retries     *)
(* counts the failures of the current retry loop against the attempts; and *)
(* Position ties the resources the callback has taken to the page that is  *)
(* being delivered, or is about to be requested.                           *)
(***************************************************************************)
EXTENDS ResourceManagerClient, TLAPS

Waiting == {"authBackoff", "backoff"}

\* Type correctness: a retry loop waits only when it has an attempt left.
Typed ==
    /\ TypeOK
    /\ phase \in Waiting => attemptsRemaining > 0

\* A token is asked for only while there is none.
Tokens == phase \in {"authenticating", "authBackoff"} => ~authenticated

AllRetryable == \A i \in DOMAIN failures : failures[i] \in Retryable

\* The attempts of a retry loop add up.
Budget ==
    /\ phase = "authenticating" => Len(failures) + attemptsRemaining = TokenAttempts - 1
    /\ phase = "authBackoff"    => Len(failures) + attemptsRemaining = TokenAttempts
    /\ phase = "requesting"     => Len(failures) + attemptsRemaining = PageAttempts - 1
    /\ phase = "backoff"        => Len(failures) + attemptsRemaining = PageAttempts

\* A loop that is not over has seen nothing but errors it may retry, and one
\* that is over has seen at most one other, its last.
Retries ==
    /\ Budget
    /\ phase \in {"authenticating", "requesting", "authBackoff", "backoff", "delivering"}
          => AllRetryable
    /\ \A i \in DOMAIN failures : i < Len(failures) => failures[i] \in Retryable

\* How far the callback has got, in each phase.
Position ==
    /\ phase = "idle" => delivered = <<>>
    /\ phase \in {"authenticating", "authBackoff"} => nextLink = 0 /\ delivered = <<>>
    /\ phase \in {"requesting", "backoff"} => Len(delivered) = PageEnd[RequestedPage - 1]
    /\ phase = "delivering" =>
          /\ page # 0
          /\ cursor = Len(delivered)
          /\ cursor <= PageEnd[page]
    /\ phase = "looping" =>
          \/ nextLink # 0 /\ Len(delivered) = PageEnd[nextLink - 1]
          \/ nextLink = 0 /\ (Len(delivered) = Total \/ absorbed # {})

\* The endpoint passed in follows the links, or the service has none to follow.
NoLinkIsLost == FollowsLinks \/ Pages = 1

\* What DeliveredInOrder and CompleteUnlessAbsorbed need to be inductive.  The
\* code owes them to the listNext that follows the links; where an endpoint has
\* none, to a listing that fits on one page.
InOrder ==
    NoLinkIsLost =>
        /\ DeliveredInOrder
        /\ CompleteUnlessAbsorbed
        /\ Position
-----------------------------------------------------------------------------
(* The state functions the proofs refer to together.                       *)

\* The numbering of pages: the first resource of a page never lies beyond its
\* last one, nor its last one beyond the end of the listing.
LEMMA PageBounds ==
    /\ Total \in Nat
    /\ \A p \in 0..Pages : PageEnd[p] \in 0..Total
    /\ \A p \in 1..Pages : PageEnd[p - 1] <= PageEnd[p]
  <1>1. /\ Pages \in 0..Pages /\ Pages \in Nat
        /\ \A p \in 1..Pages : p - 1 \in 0..Pages /\ p \in 0..Pages /\ p - 1 <= p
    BY PagesAssumption
  <1> QED  BY <1>1, PageEndAssumption DEF Total

\* A request that is sent is for a page of the listing, or for the invalid link.
LEMMA RequestedPageInRange ==
    ASSUME TypeOK, RequestedPage # InvalidLink
    PROVE  RequestedPage \in 1..Pages
  BY PagesAssumption DEF TypeOK, RequestedPage, InvalidLink

\* Where no link is lost, a request is for the page of the link.
LEMMA LinkIsFollowed ==
    ASSUME NoLinkIsLost, nextLink \in 0..Pages
    PROVE  RequestedPage = IF nextLink # 0 THEN nextLink ELSE 1
  BY PagesAssumption DEF NoLinkIsLost, RequestedPage

-----------------------------------------------------------------------------
(* Type correctness.                                                       *)

\* A client starts typed.
LEMMA TypedInit == Init => Typed
  <1> SUFFICES ASSUME Init  PROVE Typed
    OBVIOUS
  <1>1. /\ 0 \in 0..Listings /\ 0 \in 0..Pages /\ 0 \in 0..Total
        /\ delivered \in Seq(1..Total) /\ failures \in Seq(Errors)
    BY PagesAssumption, ListingsAssumption, PageBounds DEF Init
  <1> QED  BY <1>1 DEF Init, Typed, TypeOK, Phases, Waiting

\* Typed is inductive.
LEMMA TypedNext == Typed /\ [Next]_vars => Typed'
  <1> SUFFICES ASSUME Typed, [Next]_vars
               PROVE  Typed'
    OBVIOUS
  <1> USE DEF Typed, TypeOK, Phases, Waiting
  <1>1. CASE BeginListing
    <2>1. /\ listing' \in 0..Listings /\ nextLink' \in 0..Pages
          /\ page' \in 0..Pages /\ cursor' \in 0..Total
      BY <1>1, PagesAssumption, PageBounds, ListingsAssumption DEF BeginListing
    <2>2. delivered' \in Seq(1..Total) /\ absorbed' = {}
      BY <1>1 DEF BeginListing
    <2>3. attemptsRemaining' \in Nat /\ failures' = <<>>
      BY <1>1, AttemptsAssumption DEF BeginListing, FirstAttempt
    <2>4. /\ phase' \in {"authenticating", "requesting"}
          /\ authenticated' \in BOOLEAN /\ tokenRequests' \in Nat
      BY <1>1 DEF BeginListing
    <2> QED  BY <2>1, <2>2, <2>3, <2>4
  <1>2. CASE TokenObtained
    BY <1>2, AttemptsAssumption DEF TokenObtained, FirstAttempt, listVars, pageVars
  <1>3. ASSUME NEW e \in TokenErrors, TokenFailed(e)  PROVE Typed'
    BY <1>3 DEF TokenFailed, Fail, MayRetry, TokenErrors, Errors,
                authVars, listVars, pageVars
  <1>4. CASE RetryToken
    BY <1>4 DEF RetryToken, NextAttempt, listVars, pageVars
  <1>5. CASE PageReceived /\ RequestedPage # InvalidLink
    <2>1. RequestedPage \in 1..Pages
      BY <1>5, RequestedPageInRange
    <2> QED  BY <1>5, <2>1, PageBounds, PagesAssumption
                DEF PageReceived, authVars, retryVars
  <1>6. ASSUME NEW e \in Errors, RequestRetried(e)  PROVE Typed'
    BY <1>6 DEF RequestRetried, MayRetry, Fail, authVars, listVars, pageVars
  <1>7. CASE RetryRequest
    BY <1>7 DEF RetryRequest, NextAttempt, authVars, listVars, pageVars
  <1>8. ASSUME NEW e \in Errors, RequestEmpty(e)  PROVE Typed'
    BY <1>8 DEF RequestEmpty, Fail, authVars, pageVars
  <1>9. ASSUME NEW e \in Errors, RequestFailed(e)  PROVE Typed'
    BY <1>9 DEF RequestFailed, Catch, Fail, authVars, pageVars
  <1>10. CASE DeliverResource
    <2>1. cursor + 1 \in 1..Total
      BY <1>10, PageBounds DEF DeliverResource
    <2> QED  BY <1>10, <2>1, PageBounds DEF DeliverResource, authVars, retryVars
  <1>11. ASSUME NEW status403 \in BOOLEAN, CallbackThrew(status403)  PROVE Typed'
    BY <1>11 DEF CallbackThrew, Catch, authVars, pageVars, retryVars
  <1>12. ASSUME NEW link \in LinksAfter(page), PageDone(link)  PROVE Typed'
    BY <1>12, PagesAssumption
       DEF PageDone, LinksAfter, InvalidLink, authVars, pageVars, retryVars
  <1>13. CASE Loop
    <2>1. attemptsRemaining' \in Nat
      BY <1>13, AttemptsAssumption DEF Loop, FirstAttempt, retryVars
    <2>2. failures' \in {<<>>, failures}
      BY <1>13 DEF Loop, FirstAttempt, retryVars
    <2>3. failures' \in Seq(Errors)
      <3>1. <<>> \in Seq(Errors) /\ failures \in Seq(Errors)
        OBVIOUS
      <3> QED  BY <2>2, <3>1, Zenon
    <2> QED  BY <1>13, <2>1, <2>3 DEF Loop, authVars, listVars, pageVars
  <1>14. CASE UNCHANGED vars
    BY <1>14 DEF vars, authVars, listVars, pageVars, retryVars
  <1> QED
    BY <1>1, <1>2, <1>3, <1>4, <1>5, <1>6, <1>7, <1>8, <1>9, <1>10, <1>11, <1>12,
       <1>13, <1>14
       DEF Next, Progress, Authenticate, Answered, Deliver, StepOver, ErrorsFor

\* Every variable keeps its type: a link with an invalid skiptoken is never
\* stored, the cursor never runs past the listing, and attemptsRemaining never
\* drops below zero.
THEOREM TypeCorrect == Spec => []TypeOK
  <1>1. Typed => TypeOK
    BY DEF Typed
  <1> QED  BY TypedInit, TypedNext, <1>1, PTL DEF Spec
-----------------------------------------------------------------------------
(* One token for all listings.                                             *)

\* Tokens is inductive.
LEMMA TokensNext == Typed /\ Tokens /\ [Next]_vars => Tokens'
  <1> SUFFICES ASSUME Typed, Tokens, [Next]_vars
               PROVE  Tokens'
    OBVIOUS
  <1> USE DEF Tokens
  <1>1. CASE BeginListing
    BY <1>1 DEF BeginListing
  <1>2. CASE Authenticate
    BY <1>2 DEF Authenticate, TokenObtained, TokenFailed, RetryToken, authVars
  <1>3. CASE Answered
    BY <1>3 DEF Answered, PageReceived, RequestRetried, RequestEmpty, RequestFailed,
                Catch, authVars
  <1>4. CASE RetryRequest \/ Loop
    BY <1>4 DEF RetryRequest, Loop, authVars
  <1>5. CASE Deliver
    BY <1>5 DEF Deliver, DeliverResource, CallbackThrew, Catch, PageDone, authVars
  <1>6. CASE UNCHANGED vars
    BY <1>6 DEF vars, authVars
  <1> QED  BY <1>1, <1>2, <1>3, <1>4, <1>5, <1>6 DEF Next, Progress, StepOver

\* While a client has a token it never asks for another.
THEOREM TokenIsFetchedOnce == Spec => TokenFetchedOnce
  <1>1. Init => Tokens
    BY DEF Init, Tokens
  <1>2. Tokens /\ [Next]_vars => [authenticated => tokenRequests' = tokenRequests]_vars
    <2> SUFFICES ASSUME Tokens, Next, authenticated
                 PROVE  tokenRequests' = tokenRequests
      OBVIOUS
    <2>1. CASE BeginListing
      BY <2>1 DEF BeginListing
    <2>2. CASE Authenticate
      BY <2>2 DEF Tokens, Authenticate, TokenObtained, TokenFailed, RetryToken, authVars
    <2>3. CASE Answered
      BY <2>3 DEF Answered, PageReceived, RequestRetried, RequestEmpty, RequestFailed,
                  authVars
    <2>4. CASE RetryRequest \/ Loop
      BY <2>4 DEF RetryRequest, Loop, authVars
    <2>5. CASE Deliver
      BY <2>5 DEF Deliver, DeliverResource, CallbackThrew, PageDone, authVars
    <2>6. CASE StepOver
      BY <2>6 DEF StepOver, vars, authVars
    <2> QED  BY <2>1, <2>2, <2>3, <2>4, <2>5, <2>6 DEF Next, Progress
  <1> QED
    BY <1>1, <1>2, TypedInit, TypedNext, TokensNext, PTL DEF Spec, TokenFetchedOnce

-----------------------------------------------------------------------------
(* The retry loops.                                                        *)

\* What an error adds to the failures of a retry loop.
LEMMA FailureAdded ==
    ASSUME Typed, NEW e \in Errors, Fail(e)
    PROVE  /\ Len(failures') = Len(failures) + 1
           /\ failures'[Len(failures) + 1] = e
           /\ \A i \in 1..Len(failures) : failures'[i] = failures[i]
           /\ DOMAIN failures' = 1..Len(failures) + 1
           /\ DOMAIN failures = 1..Len(failures)
           /\ Len(failures) \in Nat
  BY DEF Fail, Typed, TypeOK

\* A retry loop begins with no failure and all its attempts but the first.
LEMMA LoopBegins ==
    ASSUME NEW max, FirstAttempt(max)
    PROVE  /\ Len(failures') = 0
           /\ DOMAIN failures' = {}
           /\ attemptsRemaining' = max - 1
  BY DEF FirstAttempt

\* Retries is inductive.
LEMMA RetriesNext == Typed /\ Retries /\ [Next]_vars => Retries'
  <1> SUFFICES ASSUME Typed, Retries, [Next]_vars
               PROVE  Retries'
    OBVIOUS
  <1> USE DEF Retries, Budget, AllRetryable
  <1>t. /\ attemptsRemaining \in Nat /\ Len(failures) \in Nat
        /\ TokenAttempts \in Nat /\ PageAttempts \in Nat
        /\ DOMAIN failures = 1..Len(failures)
    BY AttemptsAssumption DEF Typed, TypeOK
  <1>1. CASE BeginListing
    <2>1. \/ phase' = "authenticating" /\ FirstAttempt(TokenAttempts)
          \/ phase' = "requesting" /\ FirstAttempt(PageAttempts)
      BY <1>1 DEF BeginListing
    <2> QED  BY <2>1, <1>t, LoopBegins
  <1>2. CASE TokenObtained
    BY <1>2, <1>t, LoopBegins DEF TokenObtained
  <1>3. ASSUME NEW e \in TokenErrors, TokenFailed(e)  PROVE Retries'
    <2>1. e \in Errors /\ Fail(e)
      BY <1>3 DEF TokenFailed, TokenErrors, Errors
    <2>2. phase = "authenticating" /\ attemptsRemaining' = attemptsRemaining
      BY <1>3 DEF TokenFailed, Fail
    <2>3. \/ phase' = "authBackoff" /\ e \in Retryable
          \/ phase' = "threw"
      BY <1>3 DEF TokenFailed, MayRetry
    <2> QED  BY <2>1, <2>2, <2>3, <1>t, FailureAdded
  <1>4. CASE RetryToken
    BY <1>4, <1>t DEF RetryToken, NextAttempt
  <1>5. CASE PageReceived
    BY <1>5 DEF PageReceived, retryVars
  <1>6. ASSUME NEW e \in Errors, RequestRetried(e)  PROVE Retries'
    <2>1. /\ Fail(e) /\ attemptsRemaining' = attemptsRemaining
          /\ phase = "requesting" /\ phase' = "backoff" /\ e \in Retryable
      BY <1>6 DEF RequestRetried, MayRetry, Fail
    <2> QED  BY <2>1, <1>t, FailureAdded
  <1>7. CASE RetryRequest
    BY <1>7, <1>t DEF RetryRequest, NextAttempt
  <1>8. ASSUME NEW e \in Errors, RequestEmpty(e) \/ RequestFailed(e)  PROVE Retries'
    <2>1. /\ Fail(e) /\ phase = "requesting"
          /\ phase' \in {"looping", "returned", "threw"}
      BY <1>8 DEF RequestEmpty, RequestFailed, Catch
    <2> QED  BY <2>1, <1>t, FailureAdded
  <1>9. CASE Deliver
    <2>1. /\ UNCHANGED <<attemptsRemaining, failures>>
          /\ phase' \in {"delivering", "looping", "returned", "threw"}
          /\ phase = "delivering"
      BY <1>9 DEF Deliver, DeliverResource, CallbackThrew, Catch, PageDone, retryVars
    <2> QED  BY <2>1
  <1>10. CASE Loop
    <2>1. \/ phase' = "requesting" /\ FirstAttempt(PageAttempts)
          \/ phase' = "returned" /\ UNCHANGED <<attemptsRemaining, failures>>
      BY <1>10 DEF Loop, retryVars
    <2> QED  BY <2>1, <1>t, LoopBegins
  <1>11. CASE UNCHANGED vars
    BY <1>11 DEF vars, retryVars
  <1> QED
    BY <1>1, <1>2, <1>3, <1>4, <1>5, <1>6, <1>7, <1>8, <1>9, <1>10, <1>11
       DEF Next, Progress, Authenticate, Answered, StepOver, ErrorsFor

\* Only a 429 or an error that is no RestError is ever retried, and never more
\* often than the attempts the caller granted.
THEOREM RetriesAreDisciplined == Spec => []RetryDiscipline
  <1>1. Init => Retries
    BY DEF Init, Retries, Budget, AllRetryable
  <1>2. Typed /\ Retries => RetryDiscipline
    BY AttemptsAssumption
       DEF Typed, TypeOK, Waiting, Retries, Budget, AllRetryable, RetryDiscipline
  <1> QED  BY <1>1, <1>2, TypedInit, TypedNext, RetriesNext, PTL DEF Spec

\* No listing that met an error it must not absorb returns as if it had
\* succeeded.
THEOREM FinalErrorsReachTheStep == Spec => []FinalErrorsSurface
  <1>1. Init => FinalErrorsSurface
    BY DEF Init, FinalErrorsSurface
  <1>2. Typed /\ Retries /\ FinalErrorsSurface /\ [Next]_vars => FinalErrorsSurface'
    <2> SUFFICES ASSUME Typed, Retries, FinalErrorsSurface, [Next]_vars
                 PROVE  FinalErrorsSurface'
      OBVIOUS
    <2> USE DEF FinalErrorsSurface
    <2>1. CASE BeginListing \/ TokenObtained
      <3>1. PICK max : FirstAttempt(max)
        BY <2>1 DEF BeginListing, TokenObtained
      <3> QED  BY <3>1, LoopBegins
    <2>2. ASSUME NEW e \in TokenErrors, TokenFailed(e)  PROVE FinalErrorsSurface'
      <3>1. e \in Errors /\ Fail(e) /\ phase = "authenticating"
        BY <2>2 DEF TokenFailed, TokenErrors, Errors
      <3>2. e \in Retryable \/ phase' = "threw"
        BY <2>2 DEF TokenFailed, MayRetry
      <3> QED  BY <3>1, <3>2, FailureAdded DEF Retries, AllRetryable
    <2>3. ASSUME NEW e \in Errors, RequestRetried(e) \/ RequestEmpty(e) \/ RequestFailed(e)
          PROVE  FinalErrorsSurface'
      <3>1. Fail(e) /\ phase = "requesting"
        BY <2>3 DEF RequestRetried, RequestEmpty, RequestFailed
      <3>2. e \in Retryable \cup EmptyResponse \cup Status403 \/ phase' = "threw"
        BY <2>3 DEF RequestRetried, RequestEmpty, RequestFailed, MayRetry, Catch
      <3> QED  BY <3>1, <3>2, FailureAdded DEF Retries, AllRetryable
    <2>4. CASE RetryToken \/ RetryRequest \/ PageReceived
      BY <2>4 DEF RetryToken, RetryRequest, PageReceived, NextAttempt, retryVars
    <2>5. CASE Deliver
      <3>1. phase = "delivering" /\ failures' = failures
        BY <2>5 DEF Deliver, DeliverResource, CallbackThrew, PageDone, retryVars
      <3> QED  BY <3>1 DEF Retries, AllRetryable
    <2>6. CASE Loop
      <3>1. \/ FirstAttempt(PageAttempts)
            \/ phase = "looping" /\ failures' = failures
        BY <2>6 DEF Loop, retryVars
      <3> QED  BY <3>1, LoopBegins
    <2>7. CASE UNCHANGED vars
      BY <2>7 DEF vars, retryVars
    <2> QED
      BY <2>1, <2>2, <2>3, <2>4, <2>5, <2>6, <2>7
         DEF Next, Progress, Authenticate, Answered, StepOver, ErrorsFor
  <1>3. Init => Retries
    BY DEF Init, Retries, Budget, AllRetryable
  <1> QED  BY <1>1, <1>2, <1>3, TypedInit, TypedNext, RetriesNext, PTL DEF Spec
-----------------------------------------------------------------------------
(* Listings.                                                               *)

\* A client starts with nothing delivered.
LEMMA InOrderInit == Init => InOrder
  BY DEF Init, InOrder, DeliveredInOrder, CompleteUnlessAbsorbed, Position

\* A page that is being delivered: the callback is within it.
LEMMA WithinPage ==
    ASSUME NoLinkIsLost, Typed, InOrder, phase = "delivering"
    PROVE  /\ page \in 1..Pages
           /\ cursor = Len(delivered)
           /\ cursor \in Nat /\ PageEnd[page] \in Nat
           /\ cursor <= PageEnd[page]
  BY PageBounds, PagesAssumption DEF Typed, TypeOK, InOrder, Position

\* InOrder is inductive.
LEMMA InOrderNext == Typed /\ InOrder /\ [Next]_vars => InOrder'
  <1> SUFFICES ASSUME NoLinkIsLost, Typed, InOrder, [Next]_vars
               PROVE  (DeliveredInOrder /\ CompleteUnlessAbsorbed /\ Position)'
    BY DEF InOrder
  <1> USE DEF DeliveredInOrder, CompleteUnlessAbsorbed, Position
  <1>h. DeliveredInOrder /\ CompleteUnlessAbsorbed /\ Position
    BY DEF InOrder
  <1>t. nextLink \in 0..Pages /\ delivered \in Seq(1..Total) /\ Pages \in Nat
    BY PagesAssumption DEF Typed, TypeOK
  <1>1. CASE BeginListing
    <2>1. /\ delivered' = <<>> /\ nextLink' = 0
          /\ phase' \in {"authenticating", "requesting"}
      BY <1>1 DEF BeginListing
    <2>2. RequestedPage' = 1 /\ PageEnd[0] = 0
      BY <2>1, PageEndAssumption DEF RequestedPage
    <2> QED  BY <2>1, <2>2
  <1>2. CASE Authenticate
    <2>1. /\ nextLink = 0 /\ delivered = <<>> /\ nextLink' = 0 /\ delivered' = <<>>
          /\ phase' \in {"authenticating", "authBackoff", "requesting", "threw"}
      BY <1>2, <1>h
         DEF Authenticate, TokenObtained, TokenFailed, RetryToken, listVars, pageVars
    <2>2. RequestedPage' = 1 /\ PageEnd[0] = 0
      BY <2>1, PageEndAssumption DEF RequestedPage
    <2> QED  BY <2>1, <2>2
  <1>3. CASE PageReceived /\ RequestedPage # InvalidLink
    <2>1. RequestedPage \in 1..Pages
      BY <1>3, RequestedPageInRange DEF Typed
    <2>2. PageEnd[RequestedPage - 1] <= PageEnd[RequestedPage]
      BY <2>1, PageBounds
    <2>3. /\ phase = "requesting" /\ phase' = "delivering"
          /\ page' = RequestedPage /\ cursor' = PageEnd[RequestedPage - 1]
          /\ delivered' = delivered
      BY <1>3 DEF PageReceived
    <2> QED  BY <2>1, <2>2, <2>3, <1>h
  <1>4. ASSUME NEW e \in Errors, RequestRetried(e)
        PROVE  (DeliveredInOrder /\ CompleteUnlessAbsorbed /\ Position)'
    BY <1>4, <1>h DEF RequestRetried, listVars, pageVars, RequestedPage
  <1>5. CASE RetryRequest
    BY <1>5, <1>h DEF RetryRequest, listVars, pageVars, RequestedPage
  <1>6. ASSUME NEW e \in Errors, RequestEmpty(e)
        PROVE  (DeliveredInOrder /\ CompleteUnlessAbsorbed /\ Position)'
    BY <1>6, <1>h, <1>t, LinkIsFollowed DEF RequestEmpty, pageVars
  <1>7. ASSUME NEW e \in Errors, RequestFailed(e)
        PROVE  (DeliveredInOrder /\ CompleteUnlessAbsorbed /\ Position)'
    BY <1>7, <1>h DEF RequestFailed, Catch, pageVars
  <1>8. CASE DeliverResource
    <2>1. /\ phase = "delivering" /\ phase' = "delivering" /\ page' = page
          /\ cursor < PageEnd[page] /\ cursor' = cursor + 1
          /\ delivered' = Append(delivered, cursor + 1)
      BY <1>8 DEF DeliverResource
    <2>2. /\ page \in 1..Pages /\ cursor = Len(delivered)
          /\ cursor \in Nat /\ PageEnd[page] \in Nat
      BY <2>1, WithinPage
    <2>3. /\ Len(delivered') = cursor + 1
          /\ DOMAIN delivered' = 1..cursor + 1 /\ DOMAIN delivered = 1..cursor
          /\ delivered'[cursor + 1] = cursor + 1
          /\ \A i \in 1..cursor : delivered'[i] = delivered[i]
      BY <2>1, <2>2, <1>t
    <2> QED  BY <2>1, <2>2, <2>3, <1>h
  <1>9. ASSUME NEW status403 \in BOOLEAN, CallbackThrew(status403)
        PROVE  (DeliveredInOrder /\ CompleteUnlessAbsorbed /\ Position)'
    BY <1>9, <1>h DEF CallbackThrew, Catch, pageVars
  <1>10. ASSUME NEW link \in LinksAfter(page), PageDone(link)
         PROVE  (DeliveredInOrder /\ CompleteUnlessAbsorbed /\ Position)'
    <2>1. /\ phase = "delivering" /\ cursor = PageEnd[page]
          /\ delivered' = delivered /\ absorbed' = absorbed
          /\ \/ link = InvalidLink /\ phase' = "returned"
             \/ link # InvalidLink /\ phase' = "looping" /\ nextLink' = link
      BY <1>10 DEF PageDone, pageVars
    <2>2. page \in 1..Pages /\ cursor = Len(delivered)
      BY <2>1, WithinPage
    <2>3. \/ link = page + 1 /\ link # 0 /\ link # InvalidLink /\ link - 1 = page
          \/ page = Pages /\ link \in {0, InvalidLink}
      BY <2>2, <1>t DEF LinksAfter, InvalidLink
    <2> QED  BY <2>1, <2>2, <2>3, <1>h DEF Total
  <1>11. CASE Loop
    <2>1. /\ phase = "looping"
          /\ UNCHANGED <<delivered, nextLink, absorbed>>
          /\ \/ nextLink = 0 /\ phase' = "returned"
             \/ nextLink # 0 /\ phase' = "requesting"
      BY <1>11 DEF Loop, listVars, pageVars
    <2>2. RequestedPage' = RequestedPage
      BY <2>1 DEF RequestedPage
    <2> QED  BY <2>1, <2>2, <1>h, <1>t, LinkIsFollowed
  <1>12. CASE UNCHANGED vars
    BY <1>12, <1>h DEF vars, listVars, pageVars, RequestedPage
  <1> QED
    BY <1>1, <1>2, <1>3, <1>4, <1>5, <1>6, <1>7, <1>8, <1>9, <1>10, <1>11, <1>12
       DEF Next, Progress, Answered, Deliver, StepOver, ErrorsFor

\* However many errors, retries and repeated requests lie between two pages, the
\* callback takes each resource once and in the service's order.
THEOREM ResourcesComeInOrder ==
    ASSUME NoLinkIsLost
    PROVE  Spec => []DeliveredInOrder
  <1>1. InOrder => DeliveredInOrder
    BY DEF InOrder
  <1> QED  BY <1>1, TypedInit, TypedNext, InOrderInit, InOrderNext, PTL DEF Spec

\* A listing that returns and absorbed no error has handed over every resource.
THEOREM ListingsAreComplete ==
    ASSUME NoLinkIsLost
    PROVE  Spec => []CompleteUnlessAbsorbed
  <1>1. InOrder => CompleteUnlessAbsorbed
    BY DEF InOrder
  <1> QED  BY <1>1, TypedInit, TypedNext, InOrderInit, InOrderNext, PTL DEF Spec

\* How far an endpoint without a listNext gets, where the service has more than one page.
StaysOnFirstPage ==
    /\ page <= 1
    /\ nextLink \in {0, 2}
    /\ phase = "looping" => nextLink # 0 \/ absorbed # {}
    /\ phase = "returned" => absorbed # {}
    /\ phase = "delivering" => page = 1

\* Every step leaves such an endpoint on the first page.
LEMMA NeverLeavesFirstPage ==
    ASSUME ~NoLinkIsLost, Typed, StaysOnFirstPage, [Next]_vars
    PROVE  StaysOnFirstPage'
  <1> USE DEF StaysOnFirstPage
  <1>t. Pages \in Nat /\ Pages > 1 /\ RequestedPage = 1
    BY PagesAssumption DEF NoLinkIsLost, RequestedPage
  <1>1. CASE BeginListing
    BY <1>1 DEF BeginListing
  <1>2. CASE Authenticate
    BY <1>2 DEF Authenticate, TokenObtained, TokenFailed, RetryToken, listVars, pageVars
  <1>3. CASE PageReceived
    BY <1>3, <1>t DEF PageReceived
  <1>4. ASSUME NEW e, RequestRetried(e) \/ RequestEmpty(e) \/ RequestFailed(e)
        PROVE  StaysOnFirstPage'
    BY <1>4 DEF RequestRetried, RequestEmpty, RequestFailed, Catch, listVars, pageVars
  <1>5. CASE RetryRequest \/ Loop
    BY <1>5 DEF RetryRequest, Loop, listVars, pageVars
  <1>6. CASE DeliverResource
    BY <1>6 DEF DeliverResource
  <1>7. ASSUME NEW status403, CallbackThrew(status403)  PROVE StaysOnFirstPage'
    BY <1>7 DEF CallbackThrew, Catch, pageVars
  <1>8. ASSUME NEW link \in LinksAfter(page), PageDone(link)  PROVE StaysOnFirstPage'
    <2>1. link = 2 /\ link # InvalidLink
      BY <1>8, <1>t DEF PageDone, LinksAfter, InvalidLink
    <2> QED  BY <1>8, <2>1 DEF PageDone, pageVars
  <1>9. CASE UNCHANGED vars
    BY <1>9 DEF vars, listVars, pageVars
  <1> QED  BY <1>1, <1>2, <1>3, <1>4, <1>5, <1>6, <1>7, <1>8, <1>9
              DEF Next, Progress, Answered, Deliver, StepOver

\* The two theorems above ask for no more than they need: where a link is lost, a listing
\* never gets beyond its first page, and never returns without an error it has absorbed.
THEOREM LostLinkIsNeverMadeGood ==
    ASSUME ~NoLinkIsLost
    PROVE  Spec => [](page <= 1 /\ Outcome # "complete")
  <1>1. Init => StaysOnFirstPage
    BY DEF Init, StaysOnFirstPage
  <1>2. StaysOnFirstPage => page <= 1 /\ Outcome # "complete"
    BY DEF StaysOnFirstPage, Outcome
  <1> QED  BY <1>1, <1>2, TypedInit, TypedNext, NeverLeavesFirstPage, PTL DEF Spec
-----------------------------------------------------------------------------
(* The client implements PagedListing.                                     *)

\* A client that has not begun is a listing that has not begun.
LEMMA PromiseInit == Init => Promise!Init
  BY DEF Init, Promise!Init, Outcome

\* Every step of the client is one of the abstract listing, or none.
LEMMA PromiseNext ==
    ASSUME NoLinkIsLost, Typed, InOrder, InOrder', [Next]_vars
    PROVE  [Promise!Next]_(Promise!vars)
  <1> DEFINE Ends == /\ Outcome = "running" /\ Outcome' \in Promise!Outcomes \ {"running"}
                     /\ Outcome' = "complete" => Len(delivered) = Total
                     /\ delivered' = delivered
  <1>e. Ends => Promise!Next
    BY DEF Promise!Next, Promise!End
  <1>s. Outcome' = Outcome /\ delivered' = delivered => UNCHANGED Promise!vars
    BY DEF Promise!vars
  <1>o. /\ phase \notin {"threw", "returned"} => Outcome = "running"
        /\ phase' \notin {"threw", "returned"} => Outcome' = "running"
        /\ phase' = "threw" => Outcome' = "failed"
        /\ phase' = "returned" /\ absorbed' = {} => Outcome' = "complete"
        /\ phase' = "returned" /\ absorbed' # {} => Outcome' = "partial"
    BY DEF Outcome
  <1>c. phase' = "returned" /\ absorbed' = {} => Len(delivered') = Total
    BY DEF InOrder, CompleteUnlessAbsorbed
  <1>1. ASSUME delivered' = delivered, phase \notin {"threw", "returned"}
        PROVE  Ends \/ UNCHANGED Promise!vars
    <2>1. CASE phase' = "threw"
      BY <1>1, <2>1, <1>o DEF Promise!Outcomes
    <2>2. CASE phase' = "returned"
      BY <1>1, <2>2, <1>o, <1>c DEF Promise!Outcomes
    <2>3. CASE phase' \notin {"threw", "returned"}
      BY <1>1, <2>3, <1>o, <1>s
    <2> QED  BY <2>1, <2>2, <2>3
  <1>2. CASE BeginListing
    <2>1. delivered' = <<>> /\ Outcome' = "running"
      BY <1>2, <1>o DEF BeginListing
    <2>2. CASE phase = "idle"
      BY <2>1, <2>2, <1>o, <1>s DEF InOrder, Position
    <2>3. CASE phase \in {"threw", "returned"}
      <3>1. Outcome # "running"
        BY <2>3 DEF Outcome
      <3> QED  BY <2>1, <3>1 DEF Promise!Next, Promise!Restart
    <2> QED  BY <1>2, <2>2, <2>3 DEF BeginListing
  <1>3. CASE Authenticate
    <2>1. delivered' = delivered /\ phase \notin {"threw", "returned"}
      BY <1>3 DEF Authenticate, TokenObtained, TokenFailed, RetryToken, listVars, pageVars
    <2> QED  BY <1>1, <1>e, <2>1
  <1>4. CASE Answered \/ RetryRequest \/ Loop
    <2>1. delivered' = delivered /\ phase \notin {"threw", "returned"}
      BY <1>4 DEF Answered, PageReceived, RequestRetried, RequestEmpty, RequestFailed,
                  RetryRequest, Loop, listVars, pageVars
    <2> QED  BY <1>1, <1>e, <2>1
  <1>5. CASE DeliverResource
    <2>1. /\ phase = "delivering" /\ phase' = "delivering"
          /\ cursor < PageEnd[page]
          /\ delivered' = Append(delivered, cursor + 1)
      BY <1>5 DEF DeliverResource
    <2>2. /\ page \in 0..Pages /\ cursor = Len(delivered) /\ cursor \in Nat
          /\ PageEnd[page] \in 0..Total /\ Total \in Nat
      BY <2>1, WithinPage, PageBounds DEF Typed, TypeOK
    <2>3. Len(delivered) < Total
      BY <2>1, <2>2
    <2>4. Outcome = "running" /\ Outcome' = "running"
      BY <2>1, <1>o
    <2> QED  BY <2>1, <2>2, <2>3, <2>4 DEF Promise!Next, Promise!Deliver
  <1>6. ASSUME NEW status403 \in BOOLEAN, CallbackThrew(status403)
        PROVE  [Promise!Next]_(Promise!vars)
    <2>1. delivered' = delivered /\ phase \notin {"threw", "returned"}
      BY <1>6 DEF CallbackThrew, pageVars
    <2> QED  BY <1>1, <1>e, <2>1
  <1>7. ASSUME NEW link \in LinksAfter(page), PageDone(link)
        PROVE  [Promise!Next]_(Promise!vars)
    <2>1. delivered' = delivered /\ phase \notin {"threw", "returned"}
      BY <1>7 DEF PageDone, pageVars
    <2> QED  BY <1>1, <1>e, <2>1
  <1>8. CASE UNCHANGED vars
    <2>1. delivered' = delivered /\ phase' = phase /\ absorbed' = absorbed
      BY <1>8 DEF vars, listVars, pageVars
    <2>2. Outcome' = Outcome
      BY <2>1 DEF Outcome
    <2> QED  BY <2>1, <2>2, <1>s
  <1> QED
    BY <1>2, <1>3, <1>4, <1>5, <1>6, <1>7, <1>8 DEF Next, Progress, Deliver, StepOver

\* Whatever Azure answers, a client whose endpoint follows the links keeps the
\* promise of PagedListing: resources once and in order, and an outcome that
\* does not call an incomplete listing complete.
THEOREM ClientKeepsPromise ==
    ASSUME NoLinkIsLost
    PROVE  Spec => KeepsPromise
  <1>1. Typed /\ InOrder /\ InOrder' /\ [Next]_vars => [Promise!Next]_(Promise!vars)
    BY PromiseNext
  <1> QED
    BY <1>1, PromiseInit, TypedInit, TypedNext, InOrderInit, InOrderNext, PTL
       DEF Spec, KeepsPromise, Promise!Spec
-----------------------------------------------------------------------------
(* Listings do not go on for ever.                                         *)

\* Work counts down, part by part: the pages still to come; what is to be done before the next
\* request; the resources of a page, or the attempts of a loop; and whether one is under way.
PagesLeft ==
    CASE phase = "delivering" -> Pages - page
      [] phase = "looping" /\ nextLink = 0 -> 0
      [] OTHER -> Pages + 1 - RequestedPage

Stage == CASE phase \in {"authenticating", "authBackoff"} -> 3
           [] phase = "delivering" -> 2
           [] phase = "looping" -> 1
           [] OTHER -> 0

Remaining == IF phase = "delivering" THEN PageEnd[page] - cursor ELSE attemptsRemaining

UnderWay == IF phase \in {"authenticating", "requesting"} THEN 1 ELSE 0

Work == <<PagesLeft, Stage, Remaining, UnderWay>>

Shrinks ==
    \/ PagesLeft' < PagesLeft
    \/ PagesLeft' = PagesLeft /\ Stage' < Stage
    \/ <<PagesLeft, Stage>>' = <<PagesLeft, Stage>> /\ Remaining' < Remaining
    \/ <<PagesLeft, Stage, Remaining>>' = <<PagesLeft, Stage, Remaining>> /\ UnderWay' < UnderWay

WorkIsFinite == Work \in Nat \X Nat \X Nat \X Nat

\* What is left of a page, and of the pages, is a number.
LEMMA WorkIsANumber == ASSUME NoLinkIsLost, Typed, InOrder PROVE WorkIsFinite
  <1>1. /\ Pages \in Nat /\ nextLink \in 0..Pages /\ page \in 0..Pages
        /\ attemptsRemaining \in Nat
        /\ PagesLeft \in Nat /\ Stage \in Nat /\ UnderWay \in Nat
    BY PagesAssumption DEF Typed, TypeOK, PagesLeft, RequestedPage, Stage, UnderWay
  <1>2. Remaining \in Nat
    <2>1. CASE phase = "delivering"
      <3>1. cursor \in Nat /\ cursor <= PageEnd[page]
        BY <2>1, PageBounds DEF Typed, TypeOK, InOrder, Position
      <3> QED  BY <1>1, <2>1, <3>1, PageBounds DEF Remaining
    <2> QED  BY <1>1, <2>1 DEF Remaining
  <1> QED  BY <1>1, <1>2 DEF WorkIsFinite, Work

\* Every step but the begin of a listing, and the one named, ends it or leaves less to do.
LEMMA StepsShrinkWork ==
    ASSUME NoLinkIsLost, Typed, InOrder, [Next]_vars
    PROVE  \/ BeginListing \/ UNCHANGED vars
           \/ nextLink # 0 /\ \E e \in EmptyResponse : RequestEmpty(e)
           \/ phase' \in {"returned", "threw"}
           \/ Shrinks
  <1>t. /\ nextLink \in 0..Pages /\ page \in 0..Pages /\ cursor \in Nat
        /\ attemptsRemaining \in Nat /\ Pages \in Nat \ {0}
    BY PagesAssumption, PageBounds DEF Typed, TypeOK
  <1> USE <1>t
  <1> USE DEF PagesLeft, Stage, Remaining, UnderWay, Shrinks
  <1>1. CASE TokenObtained
    BY <1>1 DEF TokenObtained, RequestedPage, listVars
  <1>2. ASSUME NEW e, TokenFailed(e) \/ RequestRetried(e) \/ RequestFailed(e)
        PROVE  phase' \in {"returned", "threw"} \/ Shrinks
    BY <1>2 DEF TokenFailed, RequestRetried, RequestFailed, Catch, Fail, RequestedPage, listVars
  <1>3. CASE RetryToken \/ RetryRequest
    BY <1>3 DEF RetryToken, RetryRequest, NextAttempt, RequestedPage, listVars
  <1>4. CASE PageReceived
    BY <1>4 DEF PageReceived, RequestedPage
  <1>5. ASSUME NEW e, RequestEmpty(e)
        PROVE  e \in EmptyResponse /\ (nextLink = 0 => Shrinks)
    BY <1>5 DEF RequestEmpty, RequestedPage
  <1>6. CASE DeliverResource
    <2>1. PageEnd[page] \in Nat
      BY PageBounds
    <2> QED  BY <1>6, <2>1 DEF DeliverResource
  <1>7. ASSUME NEW status403, CallbackThrew(status403)
        PROVE  phase' \in {"returned", "threw"}
    BY <1>7 DEF CallbackThrew, Catch
  <1>8. ASSUME NEW link \in LinksAfter(page), PageDone(link)
        PROVE  phase' = "returned" \/ Shrinks
    <2>1. nextLink' \in 0..Pages
      BY TypedNext DEF Typed, TypeOK
    <2>2. RequestedPage' = IF nextLink' # 0 THEN nextLink' ELSE 1
      BY <2>1, PagesAssumption DEF NoLinkIsLost, RequestedPage
    <2> QED  BY <1>8, <2>2 DEF PageDone, LinksAfter, InvalidLink, pageVars
  <1>9. CASE Loop
    BY <1>9 DEF Loop, RequestedPage, listVars
  <1> QED  BY <1>1, <1>2, <1>3, <1>4, <1>5, <1>6, <1>7, <1>8, <1>9
           DEF Next, Progress, Authenticate, Answered, Deliver, StepOver

\* Where the links are followed, every listing has a finite amount of work, and the client ends
\* it or has less to do after each of its steps, unless the request for a next link is answered
\* with an empty response, which makes it ask again.  It is the safety half of ListingEnds.
THEOREM ListingsShrink ==
    ASSUME NoLinkIsLost
    PROVE  Spec => /\ []WorkIsFinite
                   /\ [][\/ BeginListing
                         \/ nextLink # 0 /\ \E e \in EmptyResponse : RequestEmpty(e)
                         \/ phase' \in {"returned", "threw"}
                         \/ Shrinks]_vars
  BY TypedInit, TypedNext, InOrderInit, InOrderNext, WorkIsANumber, StepsShrinkWork, PTL DEF Spec
=============================================================================
