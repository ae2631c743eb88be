---------------------------- MODULE WalletBrowser ----------------------------
(***************************************************************************)
(* The browser of one user: the cookie, the cached session, the wallet the *)
(* user has connected, and what the wallet button shows (lib/supabase/     *)
(* client.ts and WalletButton of GlobalNav.tsx).  Every request carries    *)
(* the cookie of the moment it is sent; its answer may change the cookie,  *)
(* and then its continuation changes the page, whatever the user has done  *)
(* in the meantime.                                                        *)
(***************************************************************************)
EXTENDS WalletServer

VARIABLES
    jar,   \* the cookie peernotary_session
    page   \* connected wallet, the one before, shown state, cached session

vars == <<mem, db, revoking, calls, issued, spent, past, jar, page>>

Init ==
    /\ ServerInit
    /\ jar = Null
    /\ page = [connected |-> Null, prev |-> Null, shown |-> FALSE, cached |-> Null]

ServerQuiet == UNCHANGED <<mem, db, revoking, issued>>
Start(c, kind, step, w, want) ==
    /\ calls[c] = Idle
    /\ Spend("ops", MaxOps)
    /\ Move(c, [Idle EXCEPT !.kind = kind, !.step = step, !.w = w,
                            !.cookie = jar, !.want = want])
(* Requests whose answer may bring a cookie.                               *)
AskingKinds == {"check", "signin", "challenge", "verify", "repeat", "rename"}
Asking == {c \in Calls : calls[c].kind \in AskingKinds}
-----------------------------------------------------------------------------
(* A page that keeps what it shows until the sign-out is answered.          *)
StillShown == page.shown
ShownAfterChange == page.shown /\ page.prev = Null

(* The effect on [address, isConnected]: the first wallet is checked for a *)
(* session, any other change signs out and asks for nothing.               *)
ChangeWallet(c, w) ==
    /\ w # page.connected
    /\ page' = [page EXCEPT !.connected = w, !.prev = w,
                            !.shown = ShownAfterChange,
                            !.cached = IF page.prev = Null THEN @ ELSE Null]
    /\ IF page.prev = Null THEN Start(c, "check", "session", w, Null)
       ELSE Start(c, "signout", "logout", page.prev, Null)
    /\ IF Asking = {} THEN UNCHANGED past ELSE Trouble("switch")
    /\ ServerQuiet /\ UNCHANGED jar

(* authenticate, from the button or after connecting.                      *)
SignIn(c) ==
    /\ page.connected # Null /\ ~page.shown
    /\ \A d \in Calls : calls[d].kind \notin {"signin", "challenge", "verify"}
    /\ Start(c, "signin", "session", page.connected, Null)
    /\ ServerQuiet /\ UNCHANGED <<jar, page, past>>
SignOut(c) ==
    /\ page.connected # Null /\ page.shown
    /\ Start(c, "signout", "logout", page.connected, Null)
    /\ page' = [page EXCEPT !.shown = FALSE, !.cached = Null]
    /\ ServerQuiet /\ UNCHANGED <<jar, past>>
Rename(c, n) ==
    /\ page.connected # Null /\ page.shown
    /\ Start(c, "rename", "session", page.connected, n)
    /\ ServerQuiet /\ UNCHANGED <<jar, page, past>>
(* Another browser, signed in with its own wallet, asks for a name.         *)
RenameElsewhere(c, w, n) ==
    /\ calls[c] = Idle /\ page.connected \notin {w, Null}
    /\ Spend("ops", MaxOps)
    /\ Move(c, Resolving([Idle EXCEPT !.kind = "elsewhere", !.w = w, !.want = n],
                         w, "naming"))
    /\ ServerQuiet /\ UNCHANGED <<jar, page, past>>

(* The wallet signs, or the user refuses.                                  *)
Sign(c) ==
    /\ At(c, "verify", "sign")
    /\ \/ Move(c, [calls[c] EXCEPT !.step = "verify"]) /\ UNCHANGED page
       \/ Move(c, Idle) /\ page' = [page EXCEPT !.shown = FALSE]
    /\ ServerQuiet /\ UNCHANGED <<spent, past, jar>>
(* The same verify request reaches the server again.                       *)
Repeat(c, d) ==
    /\ calls[c] = Idle
    /\ calls[d].kind = "verify" /\ calls[d].step # "sign"
    /\ Spend("ops", MaxOps)
    /\ Move(c, [Idle EXCEPT !.kind = "repeat", !.step = "verify",
                            !.w = calls[d].w, !.nonce = calls[d].nonce])
    /\ ServerQuiet /\ UNCHANGED <<past, jar, page>>

LoseAnswer(c) ==
    /\ calls[c].step = "reply" /\ calls[c].out # "lost"
    /\ Fails /\ Trouble("answer")
    /\ Move(c, [calls[c] EXCEPT !.out = "lost", !.set = "keep"])
    /\ ServerQuiet /\ UNCHANGED <<jar, page>>
-----------------------------------------------------------------------------
(* An answer arrives: the cookie first, then the continuation.             *)
Receive(c) ==
    /\ calls[c].step = "reply"
    /\ jar' = CASE calls[c].set = "keep" -> jar
                [] calls[c].set = "clear" -> Null
                [] calls[c].set = "put" -> calls[c].new
    /\ ServerQuiet /\ UNCHANGED <<spent, past>>
Show(w) == page' = [page EXCEPT !.shown = TRUE, !.cached = w]
Hide(cached) == page' = [page EXCEPT !.shown = FALSE, !.cached = cached]

(* Whether getSupabaseWalletSession finds the wallet signed in: an answer  *)
(* that does not come is replaced by the cached session.                   *)
SignedIn(call) ==
    call.out = "ok" \/ (call.out = "lost" /\ page.cached = call.w)

CheckAnswered(c) ==
    /\ calls[c].kind = "check" /\ Receive(c)
    /\ Move(c, Idle)
    /\ IF SignedIn(calls[c]) THEN Show(calls[c].w) ELSE Hide(Null)
SignInAnswered(c) ==
    /\ calls[c].kind = "signin" /\ Receive(c)
    /\ IF SignedIn(calls[c]) THEN Show(calls[c].w) /\ Move(c, Idle)
       ELSE /\ page' = [page EXCEPT !.cached = Null]
            /\ Move(c, [Idle EXCEPT !.kind = "challenge", !.step = "challenge",
                                    !.w = calls[c].w])
ChallengeAnswered(c) ==
    /\ calls[c].kind = "challenge" /\ Receive(c)
    /\ IF calls[c].out = "ok"
       THEN /\ Move(c, [Idle EXCEPT !.kind = "verify", !.step = "sign",
                                    !.w = calls[c].w, !.nonce = calls[c].nonce])
            /\ UNCHANGED page
       ELSE Move(c, Idle) /\ Hide(page.cached)
VerifyAnswered(c) ==
    /\ calls[c].kind = "verify" /\ Receive(c)
    /\ Move(c, Idle)
    /\ IF calls[c].out = "ok" THEN Show(calls[c].w) ELSE Hide(page.cached)
(* supabaseWalletSignOut tells every listener, whatever the answer was.    *)
SignOutAnswered(c) ==
    /\ calls[c].kind = "signout" /\ Receive(c)
    /\ Move(c, Idle) /\ Hide(page.cached)
OtherAnswered(c) ==
    /\ calls[c].kind \in {"rename", "repeat", "elsewhere"} /\ Receive(c)
    /\ Move(c, Idle) /\ UNCHANGED page

Next ==
    \/ (ServerStep /\ UNCHANGED <<jar, page>>)
    \/ \E c \in Calls :
        \/ \E w \in Wallets \cup {Null} : ChangeWallet(c, w)
        \/ SignIn(c) \/ SignOut(c) \/ \E n \in Names : Rename(c, n)
        \/ \E w \in Wallets, n \in Names : RenameElsewhere(c, w, n)
        \/ Sign(c) \/ \E d \in Calls : Repeat(c, d)
        \/ LoseAnswer(c)
        \/ CheckAnswered(c) \/ SignInAnswered(c) \/ ChallengeAnswered(c)
        \/ VerifyAnswered(c) \/ SignOutAnswered(c) \/ OtherAnswered(c)

Spec == Init /\ [][Next]_vars
=============================================================================
