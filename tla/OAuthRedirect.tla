--------------------------- MODULE OAuthRedirect ----------------------------
(***************************************************************************)
(* Signing in with another provider (auth/oauth): a popup answers at once; *)
(* a redirect leaves the page, with the pending event that says what to do *)
(* with the credential the provider comes back with.  The event is kept in *)
(* one place, for one redirect.                                            *)
(***************************************************************************)
EXTENDS Integers, Sequences, FiniteSets

CONSTANTS Providers, Users,
          Pages,         \* callers: pages, or threads of a program
          MaxRequests    \* bound: requests built

VARIABLES handlers,  \* popup_handler, redirect_handler
          pending,   \* redirect_persistence
          requests,  \* OAuthRequest: every one built, and where it is
          arrived,   \* credentials the provider came back with
          calls, user,
          applied    \* history: credentials exchanged, and as what

oauthVars == <<handlers, pending, requests, arrived, calls, user, applied>>

Nobody == "nobody"
Operations == {"SignIn", "Link"}
\* A PKCE verifier is the number of the request it was generated for.
NoVerifier == 0
NoEvent == [provider |-> "none", operation |-> "none", verifier |-> NoVerifier, request |-> 0]
NoCredential == [provider |-> "none", kind |-> "none", challenge |-> 0, verifier |-> 0, request |-> 0, account |-> Nobody]
Idle == [pc |-> "idle", event |-> NoEvent, credential |-> NoCredential]

Init ==
  /\ handlers \in SUBSET {"popup", "redirect"}
  /\ pending = NoEvent /\ requests = <<>> /\ arrived = {} /\ calls = [p \in Pages |-> Idle]
  /\ user \in {Nobody} \cup Users
  /\ applied = {}

At(p, pc) == calls[p].pc = pc
goes(p, call) == calls' = [calls EXCEPT ![p] = call]

TypeOK ==
  /\ pending.request \in 0 .. Len(requests)
  /\ \A p \in Pages : calls[p].event.operation \in Operations \cup {"none"}
  /\ \A a \in applied : a.request \in 1 .. Len(requests) /\ a.operation \in Operations

\* The providers of oauth/providers.rs all enable PKCE; one made with
\* OAuthProvider::new need not.
build_request(provider, pkce) == [provider |-> provider, challenge |-> IF pkce THEN Len(requests) + 1 ELSE NoVerifier, operation |-> "none", back |-> FALSE]

verifier_of(request) == request.challenge


set_pending_redirect_event(request, operation) ==
  [provider |-> request.provider, operation |-> operation, verifier |-> verifier_of(request), request |-> Len(requests) + 1]

\* sign_in_with_redirect, link_with_redirect
StartRedirect(provider, pkce, operation) ==
  /\ "redirect" \in handlers /\ Len(requests) < MaxRequests
  /\ LET request == build_request(provider, pkce)
     IN requests' = Append(requests, [request EXCEPT !.operation = operation]) /\ pending' = set_pending_redirect_event(request, operation)
  /\ UNCHANGED <<handlers, arrived, calls, user, applied>>

\* initiate_redirect fails: the event is cleared, whichever it is.
InitiateFails(provider, pkce, operation) ==
  /\ "redirect" \in handlers /\ Len(requests) < MaxRequests
  /\ requests' = Append(requests, build_request(provider, pkce))
  /\ pending' = NoEvent
  /\ UNCHANGED <<handlers, arrived, calls, user, applied>>

\* The provider comes back from a redirect, this one or an earlier one, with a
\* code to be redeemed or with tokens.
Return(i, kind, account) ==
  /\ requests[i].operation # "none" /\ ~requests[i].back
  /\ requests' = [requests EXCEPT ![i].back = TRUE]
  /\ arrived' = arrived \cup {[provider |-> requests[i].provider, kind |-> kind, challenge |-> requests[i].challenge,
                               verifier |-> NoVerifier, request |-> i, account |-> account]}
  /\ UNCHANGED <<handlers, pending, calls, user, applied>>

\* take_pending_redirect_event reads the event, then clears it.
GetRedirectResult(p) ==
  /\ "redirect" \in handlers /\ At(p, "idle") /\ pending # NoEvent
  /\ goes(p, [Idle EXCEPT !.pc = "taking", !.event = pending])
  /\ UNCHANGED <<handlers, pending, requests, arrived, user, applied>>

Take(p) ==
  /\ At(p, "taking")
  /\ pending' = NoEvent
  /\ goes(p, [calls[p] EXCEPT !.pc = "completing"])
  /\ UNCHANGED <<handlers, requests, arrived, user, applied>>

with_verifier(credential, verifier) == IF credential.verifier = NoVerifier THEN [credential EXCEPT !.verifier = verifier] ELSE credential

\* complete_redirect: the credential of the redirect that came back last, as
\* far as the handler knows: one of those that did.
Complete(p, credential) ==
  /\ At(p, "completing") /\ credential \in arrived
  /\ arrived' = arrived \ {credential}
  /\ goes(p, [calls[p] EXCEPT !.pc = "exchanging", !.credential = with_verifier(credential, calls[p].event.verifier)])
  /\ UNCHANGED <<handlers, pending, requests, user, applied>>

\* None came back, or the handler fails: the event is gone.
NothingToComplete(p) ==
  /\ At(p, "completing")
  /\ goes(p, Idle)
  /\ UNCHANGED <<handlers, pending, requests, arrived, user, applied>>

(***************************************************************************)
(* Popups, and the exchange                                                *)
(***************************************************************************)
\* sign_in_with_popup, link_with_popup: the handler has the PKCE pair.
OpenPopup(p, provider, pkce, operation, account) ==
  /\ "popup" \in handlers /\ At(p, "idle") /\ Len(requests) < MaxRequests
  /\ LET request == build_request(provider, pkce)
         n == Len(requests) + 1
     IN /\ requests' = Append(requests, [request EXCEPT !.operation = operation, !.back = TRUE])
        /\ goes(p, [pc |-> "exchanging", event |-> [NoEvent EXCEPT !.operation = operation, !.request = n],
                    credential |-> [provider |-> provider, kind |-> "code", challenge |-> request.challenge,
                                    verifier |-> verifier_of(request), request |-> n, account |-> account]])
  /\ UNCHANGED <<handlers, pending, arrived, user, applied>>

\* The backend redeems a code with the verifier its request was made with;
\* tokens need none.
Redeemed(credential) == credential.kind = "token" \/ credential.challenge = NoVerifier \/ credential.verifier = credential.challenge

\* exchange_oauth_credential: a link is made to whoever is signed in by then.
Exchange(p) ==
  /\ At(p, "exchanging")
  /\ LET call == calls[p]
         operation == call.event.operation
         ok == Redeemed(call.credential) /\ (operation = "Link" => user # Nobody)
     IN /\ user' = IF ok /\ operation = "SignIn" THEN call.credential.account ELSE user
        /\ applied' = IF ok THEN applied \cup {[request |-> call.credential.request, operation |-> operation,
                                                event |-> call.event.request, kind |-> call.credential.kind]} ELSE applied
  /\ goes(p, Idle)
  /\ UNCHANGED <<handlers, pending, requests, arrived>>

SignOut ==
  /\ user # Nobody /\ user' = Nobody
  /\ UNCHANGED <<handlers, pending, requests, arrived, calls, applied>>

Next ==
  \/ \E provider \in Providers, pkce \in BOOLEAN, operation \in Operations :
       \/ StartRedirect(provider, pkce, operation) \/ InitiateFails(provider, pkce, operation)
       \/ \E p \in Pages, account \in Users : OpenPopup(p, provider, pkce, operation, account)
  \/ \E i \in DOMAIN requests, kind \in {"code", "token"}, account \in Users : Return(i, kind, account)
  \/ \E p \in Pages :
       \/ GetRedirectResult(p) \/ Take(p) \/ NothingToComplete(p) \/ Exchange(p)
       \/ \E credential \in arrived : Complete(p, credential)
  \/ SignOut

Spec == Init /\ [][Next]_oauthVars
-----------------------------------------------------------------------------
\* However redirects overtake each other, a code of a request made with PKCE is
\* redeemed only for what that request was started for, and a request's
\* credential is applied once.
RedirectsCompleteTheirRequest ==
  /\ \A a \in applied : a.kind = "code" /\ requests[a.request].challenge # NoVerifier =>
       a.event = a.request /\ a.operation = requests[a.request].operation
  /\ \A a, b \in applied : a.request = b.request => a = b
=============================================================================
