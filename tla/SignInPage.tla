------------------------------ MODULE SignInPage ------------------------------
(***************************************************************************)
(* Signing in from a browser with several tabs:                            *)
(*   frontend/app/auth/signup/page.tsx, app/auth/verify/page.tsx           *)
(*   frontend/app/lib/{auth,returnTo}.ts, lib/apiFetch.ts                  *)
(*   frontend/middleware.ts, components/Navbar.tsx, context/AuthContext.tsx *)
(*                                                                         *)
(* A sign-in is kept three times: the token and the user in localStorage,  *)
(* the token again in a cookie, which is all that middleware.ts sees.      *)
(* The tabs share the three; what a page shows is its own.                 *)
(*                                                                         *)
(* The server is as its pages see it (Accounts has the rest): it sends a   *)
(* password, or takes the last one it sent, once.  An answer that is lost   *)
(* is to a page what an error is.  Left out: texts, the drawer, locales,   *)
(* and roles: the token carries none (auth.ts:319).                         *)
(* When a page is left the server has done its part of the page's requests, *)
(* or never will (bound).                                                  *)
(* Name_Variant is Name with a plausible mistake in it, as in Escrow.      *)
(***************************************************************************)
EXTENDS Naturals, Sequences

CONSTANTS
  Tabs,
  Phones, NoPhone,
  MaxCodes     \* bound: passwords sent, after which none is asked for

Parameters == NoPhone \notin Phones /\ MaxCodes \in Nat

VARIABLES
  signIns,   \* the tokens issued, and whether each still works
  stored,    \* localStorage and the cookie; 0 is nothing
  code,      \* the password each phone was sent last, until it is used; 0 is none
  sent,      \* how many were sent
  view,      \* each tab's page
  asked      \* the requests of each tab, until their answer is read

vars == <<signIns, stored, code, sent, view, asked>>

\* `box` is the password typed and then the token it is answered with, `bearer` the token
\* that the request for data carries.
NoRequests == [otp |-> "none", verify |-> "none", box |-> 0, data |-> "none", bearer |-> 0]

\* `token`, for the properties, is the sign-in that the tab made, until somebody signs in or
\* out or it ends.
Blank == [page |-> "home", authed |-> FALSE, phone |-> NoPhone, shows |-> "none",
          return |-> "home", token |-> 0]

Nothing == [token |-> 0, user |-> 0, cookie |-> 0]

Init ==
  /\ signIns = <<>>
  /\ stored = Nothing
  /\ code = [p \in Phones |-> 0]
  /\ sent = 0
  /\ view = [t \in Tabs |-> Blank]
  /\ asked = [t \in Tabs |-> NoRequests]

-----------------------------------------------------------------------------
(* auth.ts: what is stored.                                                *)

\* saveToken and saveUser; the cookie lives as long as the token.
Save(n) == [token |-> n, user |-> n, cookie |-> IF signIns[n].expired THEN 0 ELSE n]

ClearToken_KeepsCookie(s) == [s EXCEPT !.token = 0, !.user = 0]

ClearToken(s) == Nothing

\* The views, now that something else is stored.
Disturbed == [t \in Tabs |-> [view[t] EXCEPT !.token = 0]]

\* The token stays in localStorage, its cookie ends.
Expire(n) ==
  /\ ~signIns[n].expired
  /\ signIns' = [signIns EXCEPT ![n].works = FALSE, ![n].expired = TRUE]
  /\ IF stored.cookie = n
     THEN stored' = [stored EXCEPT !.cookie = 0] /\ view' = Disturbed
     ELSE UNCHANGED <<stored, view>>
  /\ UNCHANGED <<code, sent, asked>>

\* POST /auth/revoke, or a change of number.
Revoke(n) ==
  /\ signIns[n].works
  /\ signIns' = [signIns EXCEPT ![n].works = FALSE]
  /\ UNCHANGED <<stored, code, sent, view, asked>>

-----------------------------------------------------------------------------
(* Pages.                                                                  *)

\* middleware.ts: a protected page needs a cookie whose token has not expired.
Admitted == stored.cookie # 0 /\ ~signIns[stored.cookie].expired

\* A page is loaded; Navbar and AuthProvider read what is stored.  On every page the
\* Navbar of who is signed in asks for the balance.
Page(page) == [Blank EXCEPT !.page = page, !.authed = stored.token # 0]

Protected == IF Admitted THEN Page("trades") ELSE [Page("signup") EXCEPT !.return = "trades"]

Asking(to) ==
  IF to.authed THEN [NoRequests EXCEPT !.data = "sent", !.bearer = stored.token] ELSE NoRequests

Goto(v, t, to) ==
  /\ view' = [v EXCEPT ![t] = to]
  /\ asked' = [asked EXCEPT ![t] = Asking(to)]

Visit(t) ==
  /\ \E to \in {Page("home"), Page("signup"), Page("verify"), Protected} : Goto(view, t, to)
  /\ UNCHANGED <<signIns, stored, code, sent>>

\* handleLogout of the Navbar.
Logout(t) ==
  /\ view[t].authed
  /\ stored' = ClearToken(stored)
  /\ Goto(Disturbed, t, Blank)
  /\ UNCHANGED <<signIns, code, sent>>

-----------------------------------------------------------------------------
(* signup/page.tsx.                                                        *)

\* handleSubmit, of a number that the button accepts.
SubmitPhone(t, p) ==
  /\ view[t].page = "signup" /\ asked[t].otp = "none"
  /\ sent < MaxCodes                                       \* bound
  /\ view' = [view EXCEPT ![t].phone = p]
  /\ asked' = [asked EXCEPT ![t].otp = "sent"]
  /\ UNCHANGED <<signIns, stored, code, sent>>

PhoneSubmitted(t) ==
  /\ view[t].page = "signup"
  /\ \/ /\ asked[t].otp = "ok"
        /\ Goto(view, t, [Page("verify") EXCEPT !.phone = view[t].phone,
                                                !.return = view[t].return])
     \/ /\ asked[t].otp = "error"
        /\ asked' = [asked EXCEPT ![t].otp = "none"]
        /\ view' = [view EXCEPT ![t].phone = NoPhone]
  /\ UNCHANGED <<signIns, stored, code, sent>>

-----------------------------------------------------------------------------
(* verify/page.tsx.                                                        *)

\* The box and both buttons are disabled while a message is shown.
Enabled(t) == view[t].page = "verify" /\ view[t].shows = "none"

\* handleSubmit, of any password, the right one or not; a page that was opened without a
\* number shows an error.
SubmitOtp(t) ==
  /\ Enabled(t) /\ asked[t].verify = "none"
  /\ view[t].phone # NoPhone
  /\ \E c \in 1..sent : asked' = [asked EXCEPT ![t].verify = "sent", ![t].box = c]
  /\ UNCHANGED <<signIns, stored, code, sent, view>>

Verified(t) ==
  LET n == asked[t].box
  IN  /\ view[t].page = "verify" /\ asked[t].verify = "ok"
      /\ stored' = Save(n)
      /\ view' = [Disturbed EXCEPT ![t].shows = "verified",
                                   ![t].token = IF signIns[n].expired THEN 0 ELSE n]
      /\ asked' = [asked EXCEPT ![t].verify = "done", ![t].box = 0]
      /\ UNCHANGED <<signIns, code, sent>>

NotVerified(t) ==
  /\ view[t].page = "verify" /\ asked[t].verify = "error"
  /\ asked' = [asked EXCEPT ![t].verify = "none"]
  /\ UNCHANGED <<signIns, stored, code, sent, view>>

\* The timer: to where the user was headed, past the middleware; that may be the page of
\* another verification, with the address it had.
Redirect(t) ==
  /\ view[t].page = "verify" /\ asked[t].verify = "done"
  /\ \/ /\ view[t].return # "verify"
        /\ LET to == IF view[t].return = "home" THEN Page("home") ELSE Protected IN
           Goto(view, t, [to EXCEPT !.token = view[t].token])
     \/ /\ view[t].return = "verify"
        /\ \E p \in Phones \cup {NoPhone}, there \in {"home", "trades", "verify"} :
             Goto(view, t, [Page("verify") EXCEPT !.phone = p, !.return = there])
  /\ UNCHANGED <<signIns, stored, code, sent>>

\* handleResend.
Resend(t) ==
  /\ Enabled(t) /\ asked[t].otp = "none"
  /\ view[t].phone # NoPhone
  /\ sent < MaxCodes                                       \* bound
  /\ asked' = [asked EXCEPT ![t].otp = "sent"]
  /\ UNCHANGED <<signIns, stored, code, sent, view>>

\* Its message stays, and with it the form stays disabled, until the page is reloaded.
Resent(t) ==
  /\ view[t].page = "verify" /\ asked[t].otp \in {"ok", "error"}
  /\ view' = IF asked[t].otp = "ok" THEN [view EXCEPT ![t].shows = "sent"] ELSE view
  /\ asked' = [asked EXCEPT ![t].otp = "none"]
  /\ UNCHANGED <<signIns, stored, code, sent>>

\* The address keeps the number.
Reload(t) ==
  /\ view[t].page = "verify"
  /\ Goto(view, t, [Page("verify") EXCEPT !.phone = view[t].phone, !.return = view[t].return])
  /\ UNCHANGED <<signIns, stored, code, sent>>

-----------------------------------------------------------------------------
(* Requests for data: apiFetch.                                            *)

\* A page that asks for more than the Navbar; one request of a tab at a time (bound).
Fetch(t) ==
  /\ view[t].page = "trades" /\ asked[t].data = "none"
  /\ asked' = [asked EXCEPT ![t].data = "sent", ![t].bearer = stored.token]
  /\ UNCHANGED <<signIns, stored, code, sent, view>>

\* It is answered, or never is.
Answered(t) ==
  /\ asked[t].data = "sent"
  /\ asked' = [asked EXCEPT ![t].data = "none", ![t].bearer = 0]
  /\ UNCHANGED <<signIns, stored, code, sent, view>>

\* authenticate.ts: no token, or one that works no more and never will again, so that the
\* answer may come at any time after it ceased to.  Whatever is stored by now is cleared, be
\* it that token or another; and every page but the sign-up is left for it.
SessionExpired(t) ==
  LET refused == asked[t].bearer
      seen == IF refused = stored.token THEN Disturbed ELSE view
  IN  /\ asked[t].data = "sent"
      /\ refused # 0 => ~signIns[refused].works
      /\ stored' = ClearToken(stored)
      /\ IF view[t].page = "signup"
         THEN /\ view' = seen
              /\ asked' = [asked EXCEPT ![t].data = "none", ![t].bearer = 0]
         ELSE Goto(seen, t, [Blank EXCEPT !.page = "signup", !.return = view[t].page])
      /\ UNCHANGED <<signIns, code, sent>>

-----------------------------------------------------------------------------
(* The server.                                                             *)

\* POST /auth/request-otp; it may refuse, or fail, or its answer be lost.
SendOtp(t) ==
  /\ asked[t].otp = "sent"
  /\ \/ /\ sent < MaxCodes
        /\ sent' = sent + 1
        /\ code' = [code EXCEPT ![view[t].phone] = sent + 1]
        /\ \E a \in {"ok", "error"} : asked' = [asked EXCEPT ![t].otp = a]
     \/ /\ asked' = [asked EXCEPT ![t].otp = "error"]
        /\ UNCHANGED <<code, sent>>
  /\ UNCHANGED <<signIns, stored, view>>

\* POST /auth/verify-otp.
VerifyOtp(t) ==
  /\ asked[t].verify = "sent"
  /\ \/ /\ code[view[t].phone] = asked[t].box
        /\ code' = [code EXCEPT ![view[t].phone] = 0]
        /\ signIns' = Append(signIns, [works |-> TRUE, expired |-> FALSE])
        /\ \/ asked' = [asked EXCEPT ![t].verify = "ok", ![t].box = Len(signIns')]
           \/ asked' = [asked EXCEPT ![t].verify = "error", ![t].box = 0]
     \/ /\ asked' = [asked EXCEPT ![t].verify = "error", ![t].box = 0]
        /\ UNCHANGED <<signIns, code>>
  /\ UNCHANGED <<stored, sent, view>>

Next ==
  \/ \E t \in Tabs :
       \/ Visit(t) \/ Logout(t)
       \/ PhoneSubmitted(t) \/ SubmitOtp(t) \/ Verified(t) \/ NotVerified(t)
       \/ Redirect(t) \/ Resend(t) \/ Resent(t) \/ Reload(t)
       \/ Fetch(t) \/ Answered(t) \/ SessionExpired(t)
       \/ SendOtp(t) \/ VerifyOtp(t)
       \/ \E p \in Phones : SubmitPhone(t, p)
  \/ \E n \in DOMAIN signIns : Expire(n) \/ Revoke(n)

Spec == Init /\ [][Next]_vars

-----------------------------------------------------------------------------
(* Properties.                                                             *)

\* Every page, request and stored value has the type its code gives it.
TypeOK ==
  /\ signIns \in Seq([works : BOOLEAN, expired : BOOLEAN])
  /\ stored \in [token : 0..MaxCodes, user : 0..MaxCodes, cookie : 0..MaxCodes]
  /\ code \in [Phones -> 0..MaxCodes] /\ sent \in 0..MaxCodes
  /\ view \in [Tabs -> [page : {"home", "signup", "verify", "trades"}, authed : BOOLEAN,
                        phone : Phones \cup {NoPhone},
                        shows : {"none", "sent", "verified"}, return : {"home", "trades", "verify"},
                        token : 0..MaxCodes]]
  /\ asked \in [Tabs -> [otp : {"none", "sent", "ok", "error"},
                         verify : {"none", "sent", "ok", "error", "done"},
                         box : 0..MaxCodes, data : {"none", "sent"},
                         bearer : 0..MaxCodes]]

\* auth.ts: the middleware lets in only whom the pages take for signed in, with the same
\* token, and turns away nobody whose stored token has not expired.
CookieIsTheSession ==
  /\ stored.token = stored.user
  /\ stored.cookie # 0 => stored.cookie = stored.token
  /\ stored.token # 0 /\ ~signIns[stored.token].expired => stored.cookie = stored.token

\* verify/page.tsx: once a tab has verified its password, and until somebody signs in or out
\* or its own session ends, what is stored is the session that came of it, the middleware lets
\* the tab in and it arrives where it was headed; or nothing at all is stored, as when the 401
\* of an older session's request comes late.  It never has half of its session, or another's.
VerifiedHasItsSession ==
  \A t \in Tabs :
    view[t].token # 0 =>
      \/ stored = Nothing
      \/ stored.token = view[t].token /\ Admitted /\ view[t].page # "signup"

-----------------------------------------------------------------------------
(* The inductive invariant.                                                *)

SignIns == [works : BOOLEAN, expired : BOOLEAN]

Stored == [token : Nat, user : Nat, cookie : Nat]

Views ==
  [page : {"home", "signup", "verify", "trades"}, authed : BOOLEAN, phone : Phones \cup {NoPhone},
   shows : {"none", "sent", "verified"}, return : {"home", "trades", "verify"}, token : Nat]

Waiting ==
  [otp : {"none", "sent", "ok", "error"}, verify : {"none", "sent", "ok", "error", "done"},
   box : Nat, data : {"none", "sent"}, bearer : Nat]

\* What is stored is of a token that was issued.
Typed ==
  /\ signIns \in Seq(SignIns)
  /\ stored \in Stored /\ stored.token <= Len(signIns)
  /\ sent \in Nat
  /\ view \in [Tabs -> Views]
  /\ asked \in [Tabs -> Waiting]

\* A page's requests are those of its kind, and a password that was taken issued a token; a
\* page that signed in asks for no other sign-in.
RequestsAreOfThePage ==
  \A t \in Tabs :
    /\ asked[t].bearer <= Len(signIns)
    /\ asked[t].verify # "none" => view[t].page = "verify"
    /\ asked[t].verify = "ok" => asked[t].box \in 1..Len(signIns)
    /\ view[t].token # 0 /\ view[t].page = "verify" =>
         asked[t].verify = "done" /\ view[t].shows # "none"

IInv == Typed /\ RequestsAreOfThePage /\ CookieIsTheSession /\ VerifiedHasItsSession

=============================================================================
