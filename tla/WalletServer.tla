---------------------------- MODULE WalletServer ----------------------------
(***************************************************************************)
(* Wallet sessions on the server (lib/auth/wallet.ts and the auth and      *)
(* username routes): the Maps of one Node process, the Supabase tables     *)
(* behind them, and the requests in flight.  A request is one record of    *)
(* calls that moves from await to await; what happens between two awaits   *)
(* is one action.  A read may fail, which the code takes for an empty      *)
(* table; a write may be lost or refused, which the code does not notice.  *)
(*                                                                         *)
(* Rate limits, expiry of sessions and the onboarding flag are left out:   *)
(* they refuse or display and change none of the state below.              *)
(***************************************************************************)
EXTENDS Integers, FiniteSets

CONSTANTS Wallets, Ids, Tokens, Nonces, Names, Calls,
    MaxOps,       \* requests the browser starts
    MaxFaults,    \* failed reads, lost writes and lost answers
    MaxRestarts,  \* restarts of the process
    Null

ASSUME WalletBounds == {MaxOps, MaxFaults, MaxRestarts} \subseteq Nat

VARIABLES
    mem,       \* users, sessions, directory and nonces of the process
    db,        \* accounts, profiles, sessions and nonces of the database
    revoking,  \* tokens whose revocation was sent and not awaited
    calls,     \* requests in flight
    issued,    \* ids, tokens and nonces drawn so far
    spent,     \* how much of each bound is used
    past       \* history: disturbances, and sessions a nonce opened

serverVars == <<mem, db, revoking, calls, issued, spent, past>>
-----------------------------------------------------------------------------
User == [id : Ids, name : Names \cup {Null}]
Session == [wallet : Wallets, id : Ids]
Cookie == [token : Tokens, wallet : Wallets, id : Ids, name : Names \cup {Null}]
NonceRow == [wallet : Wallets, used : BOOLEAN]
Profile == [name : Names \cup {Null}]

(* Null stands for what is not there: it is none of the values above.       *)
ASSUME NullAssumption ==
    Null \notin Wallets \cup Ids \cup Tokens \cup Nonces \cup Names
                \cup User \cup Session \cup Cookie \cup NonceRow \cup Profile

(* w is the wallet the browser names, who the wallet being resolved, user  *)
(* the user object and held whether the directory of users still holds     *)
(* that very object.  set is what the answer does to the cookie: keep it,  *)
(* clear it, or put new in its place.                                      *)
Idle ==
    [kind |-> "idle", step |-> "idle", w |-> Null, who |-> Null,
     cookie |-> Null, user |-> Null, held |-> FALSE, want |-> Null,
     nonce |-> Null, after |-> "none", set |-> "keep",
     new |-> Null, out |-> "none"]

EmptyProcess ==
    [users |-> [w \in Wallets |-> Null], sessions |-> [t \in Tokens |-> Null],
     directory |-> [n \in Names |-> Null], nonces |-> [n \in Nonces |-> Null]]

ServerInit ==
    /\ mem = EmptyProcess
    /\ db = [accounts |-> [w \in Wallets |-> Null],
             profiles |-> [i \in Ids |-> Null],
             sessions |-> [t \in Tokens |-> Null],
             nonces |-> [n \in Nonces |-> Null]]
    /\ revoking = {} /\ issued = {}
    /\ calls = [c \in Calls |-> Idle]
    /\ spent = [ops |-> 0, faults |-> 0, restarts |-> 0]
    /\ past = [trouble |-> {}, opened |-> [n \in Nonces |-> 0]]

Spend(what, bound) ==
    /\ spent[what] < bound
    /\ spent' = [spent EXCEPT ![what] = @ + 1]
(* A read or a write does what it should, or counts as a fault.            *)
Works == UNCHANGED spent
Fails == Spend("faults", MaxFaults)
Trouble(what) == past' = [past EXCEPT !.trouble = @ \cup {what}]

At(c, kind, step) == calls[c].kind = kind /\ calls[c].step = step
Move(c, changes) == calls' = [calls EXCEPT ![c] = changes]
(* An answer on its way: the browser needs no more of the request.         *)
Answered(call, out) ==
    [Idle EXCEPT !.kind = call.kind, !.step = "reply", !.w = call.w, !.nonce = call.nonce,
                 !.set = call.set, !.new = call.new, !.out = out]
Answer(c, out) == Move(c, Answered(calls[c], out))
Draw(S) == S \ issued
-----------------------------------------------------------------------------
(* resolveOrCreateSupabaseUser, up to four awaits.                         *)
Resolving(call, w, after) ==
    [call EXCEPT !.who = w, !.step = "account", !.after = after,
                 !.user = Null, !.held = FALSE]

(* A process that does not look a user up makes a profile at every resolve. *)
UnknownUser(w) == Null

(* The user object the process already has for a wallet.                   *)
KnownUser(w) == mem.users[w]

(* An account that cannot be read is taken for one that does not exist.    *)
ReadAccount(c) ==
    LET call == calls[c]
        found == db.accounts[call.who]
    IN  /\ call.step = "account"
        /\ \/ /\ found # Null /\ Works
              /\ Move(c, [call EXCEPT !.step = "profile",
                                      !.user = [id |-> found, name |-> db.profiles[found].name]])
              /\ UNCHANGED <<mem, issued, past>>
           \/ /\ IF found = Null THEN Works /\ UNCHANGED past
                 ELSE Fails /\ Trouble("read")
              /\ IF KnownUser(call.who) # Null
                 THEN /\ Move(c, [call EXCEPT !.step = "putProfile", !.held = TRUE,
                                              !.user = KnownUser(call.who)])
                      /\ UNCHANGED <<mem, issued>>
                 ELSE /\ Draw(Ids) # {}
                      /\ LET new == [id |-> CHOOSE i \in Draw(Ids) : TRUE, name |-> Null] IN
                         /\ mem' = [mem EXCEPT !.users[call.who] = new]
                         /\ issued' = issued \cup {new.id}
                         /\ Move(c, [call EXCEPT !.step = "putProfile",
                                                 !.held = TRUE, !.user = new])
    /\ UNCHANGED <<db, revoking>>

(* The user object is made anew: whoever holds the old one keeps it.        *)
Rebuilt(call, name) ==
    LET old == mem.users[call.who] IN
    [id |-> call.user.id,
     name |-> IF name # Null THEN name ELSE IF old = Null THEN Null ELSE old.name]
Rebuild(c, user) ==
    LET call == calls[c]
        old == mem.users[call.who]
    IN  /\ mem' = [mem EXCEPT
             !.users[call.who] = user,
             !.directory = [n \in Names |-> IF n = user.name THEN call.who ELSE @[n]]]
        /\ calls' = [d \in Calls |->
             IF d = c THEN [call EXCEPT !.step = call.after, !.user = user, !.held = TRUE]
             ELSE IF calls[d].held /\ calls[d].who = call.who
             THEN [calls[d] EXCEPT !.held = FALSE, !.user = old]
             ELSE calls[d]]

(* The row is as it was when asked for or when answered.                   *)
ReadProfile(c) ==
    LET call == calls[c]
        row == db.profiles[call.user.id]
    IN  /\ call.step = "profile"
        /\ \/ Works /\ UNCHANGED past
              /\ \E name \in {row.name, call.user.name} : Rebuild(c, Rebuilt(call, name))
           \/ row.name # Null /\ Fails /\ Rebuild(c, Rebuilt(call, Null)) /\ Trouble("read")
        /\ UNCHANGED <<db, revoking, issued>>

(* profiles.username is unique: a name another profile has is refused.     *)
NameFree(id, name) ==
    name = Null \/ \A i \in Ids \ {id} : db.profiles[i] # Null => db.profiles[i].name # name
ProfilesWith(id, name) ==
    IF NameFree(id, name) THEN [db.profiles EXCEPT ![id] = [name |-> name]]
    ELSE db.profiles

PutProfile(c) ==
    LET call == calls[c] IN
    /\ call.step = "putProfile"
    /\ \/ Works /\ db' = [db EXCEPT !.profiles = ProfilesWith(call.user.id, call.user.name)]
          /\ UNCHANGED past
       \/ Fails /\ Trouble("write") /\ UNCHANGED db
    /\ Move(c, [call EXCEPT !.step = "putAccount"])
    /\ UNCHANGED <<mem, revoking, issued>>

(* wallet_accounts.profile_id references a profile.                        *)
AccountsWith(call) ==
    IF db.profiles[call.user.id] = Null THEN db.accounts
    ELSE [db.accounts EXCEPT ![call.who] = call.user.id]

PutAccount(c) ==
    LET call == calls[c] IN
    /\ call.step = "putAccount"
    /\ \/ Works /\ db' = [db EXCEPT !.accounts = AccountsWith(call)] /\ UNCHANGED past
       \/ Fails /\ Trouble("write") /\ UNCHANGED db
    /\ Move(c, [call EXCEPT !.step = call.after])
    /\ UNCHANGED <<mem, revoking, issued>>

(* The object as it is now.                                                *)
Object(call) == IF call.held THEN mem.users[call.who] ELSE call.user
-----------------------------------------------------------------------------
(* getAuthenticatedSessionAndUser: what a session found for the request    *)
(* leads to.  The session of another wallet is logged out.                 *)
Dropped(m, t) == [m EXCEPT !.sessions[t] = Null]

Authenticated(c, m, wallet, t) ==
    LET call == calls[c] IN
    IF wallet # call.w
    THEN /\ mem' = Dropped(m, t)
         /\ revoking' = revoking \cup {t}
         /\ Move(c, Answered([call EXCEPT !.set = "clear"], "no"))
    ELSE /\ mem' = m
         /\ UNCHANGED revoking
         /\ IF call.kind = "rename" THEN Move(c, Resolving(call, wallet, "naming"))
            ELSE Answer(c, "ok")

ReadSession(c) ==
    LET call == calls[c]
        t == call.cookie.token
    IN  /\ call.step = "session"
        /\ IF call.cookie = Null
           THEN Move(c, Resolving(call, call.w, "opened")) /\ UNCHANGED <<mem, revoking>>
           ELSE IF mem.sessions[t] # Null /\ mem.users[mem.sessions[t].wallet] # Null
           THEN Authenticated(c, mem, mem.sessions[t].wallet, t)
           ELSE Move(c, [call EXCEPT !.step = "lookup"]) /\ UNCHANGED <<mem, revoking>>
        /\ UNCHANGED <<db, issued, spent, past>>

(* Not in memory: the row, and failing that what the cookie itself says.   *)
LookUpSession(c) ==
    LET call == calls[c]
        ck == call.cookie
        row == db.sessions[ck.token]
        user == IF mem.users[ck.wallet] # Null THEN mem.users[ck.wallet]
                ELSE [id |-> ck.id, name |-> ck.name]
    IN  /\ call.step = "lookup"
        /\ \/ /\ row # Null /\ Works
              /\ Move(c, Resolving(call, row.wallet, "restored"))
              /\ UNCHANGED <<mem, revoking, past>>
           \/ /\ IF row = Null THEN Works /\ UNCHANGED past
                 ELSE Fails /\ Trouble("read")
              /\ Authenticated(c,
                   [mem EXCEPT !.users[ck.wallet] = user,
                               !.sessions[ck.token] = [wallet |-> ck.wallet, id |-> user.id]],
                   ck.wallet, ck.token)
        /\ UNCHANGED <<db, issued>>

RestoreSession(c) ==
    LET call == calls[c]
        t == call.cookie.token
    IN  /\ call.step = "restored"
        /\ Authenticated(c,
             [mem EXCEPT !.sessions[t] = [wallet |-> call.who, id |-> Object(call).id]],
             call.who, t)
        /\ UNCHANGED <<db, issued, spent, past>>

(* A new token for the resolved user; the cookie copies what is known.     *)
NewCookie(call) ==
    [token |-> CHOOSE t \in Draw(Tokens) : TRUE, wallet |-> call.who,
     id |-> Object(call).id, name |-> Object(call).name]
Opened(cookie) ==
    /\ issued' = issued \cup {cookie.token}
    /\ mem' = [mem EXCEPT !.sessions[cookie.token] =
                [wallet |-> cookie.wallet, id |-> cookie.id]]

(* A request without a cookie that names a wallet gets a session, which no *)
(* row of the database knows.                                              *)
OpenSession(c) ==
    LET call == calls[c]
        cookie == NewCookie(call)
        next == [call EXCEPT !.set = "put", !.new = cookie]
    IN  /\ call.step = "opened" /\ Draw(Tokens) # {}
        /\ Opened(cookie)
        /\ IF call.kind = "rename" THEN Move(c, Resolving(next, call.who, "naming"))
           ELSE Move(c, Answered(next, "ok"))
        /\ UNCHANGED <<db, revoking, spent, past>>

Logout(c) ==
    LET call == calls[c] IN
    /\ call.step = "logout"
    /\ IF call.cookie = Null THEN UNCHANGED <<mem, revoking>>
       ELSE /\ mem' = Dropped(mem, call.cookie.token)
            /\ revoking' = revoking \cup {call.cookie.token}
    /\ Move(c, Answered([call EXCEPT !.set = "clear"], "ok"))
    /\ UNCHANGED <<db, issued, spent, past>>
-----------------------------------------------------------------------------
(* What a challenge remembers; a mix-up of the two wallets of a request.    *)
MisboundNonce(call) == [wallet |-> call.who, used |-> FALSE]
FreshNonce(call) == [wallet |-> call.w, used |-> FALSE]

(* createWalletChallenge.                                                  *)
MakeNonce(c) ==
    LET call == calls[c] IN
    /\ call.step = "challenge" /\ Draw(Nonces) # {}
    /\ LET n == CHOOSE x \in Draw(Nonces) : TRUE IN
       /\ issued' = issued \cup {n}
       /\ mem' = [mem EXCEPT !.nonces[n] = FreshNonce(call)]
       /\ Move(c, [call EXCEPT !.step = "putNonce", !.nonce = n])
    /\ UNCHANGED <<db, revoking, spent, past>>
PutNonce(c) ==
    LET call == calls[c] IN
    /\ call.step = "putNonce"
    /\ \/ Works /\ db' = [db EXCEPT !.nonces[call.nonce] = call.w] /\ UNCHANGED past
       \/ Fails /\ Trouble("write") /\ UNCHANGED db
    /\ Answer(c, "ok")
    /\ UNCHANGED <<mem, revoking, issued>>

(* Without the look at usedAt a nonce is good until it expires.             *)
Unchecked(n) == n = Null

(* signInWallet.  The nonce is checked and marked in one step; the column   *)
(* used_at that the update names does not exist (the table calls it         *)
(* consumed_at), so a row never tells that its nonce was used.             *)
Unusable(n) == n = Null \/ n.used
UseNonce(c, m) ==
    LET call == calls[c]
        n == m.nonces[call.nonce]
    IN  IF Unusable(n) THEN Answer(c, "no") /\ mem' = m /\ UNCHANGED past
        ELSE /\ mem' = [m EXCEPT !.nonces[call.nonce].used = TRUE]
             /\ past' = [past EXCEPT !.opened[call.nonce] = IF @ = 2 THEN 2 ELSE @ + 1]
             /\ Move(c, Resolving(call, call.w, "signed"))

CheckNonce(c) ==
    /\ calls[c].step = "verify"
    /\ IF mem.nonces[calls[c].nonce] # Null THEN UseNonce(c, mem)
       ELSE Move(c, [calls[c] EXCEPT !.step = "loadNonce"]) /\ UNCHANGED <<mem, past>>
    /\ UNCHANGED <<db, revoking, issued, spent>>
(* Two requests that both found no nonce in memory each load one.          *)
LoadNonce(c) ==
    LET n == calls[c].nonce
        row == IF db.nonces[n] = Null THEN Null ELSE [wallet |-> db.nonces[n], used |-> FALSE]
    IN  /\ calls[c].step = "loadNonce"
        /\ \/ /\ Works
              /\ UseNonce(c, IF row = Null THEN mem ELSE [mem EXCEPT !.nonces[n] = row])
           \/ row # Null /\ Fails /\ Trouble("read")
              /\ Answer(c, "no") /\ UNCHANGED mem
        /\ UNCHANGED <<db, revoking, issued>>

(* A nonce lives for five minutes.                                         *)
ExpireNonce(n) ==
    /\ mem.nonces[n] # Null \/ db.nonces[n] # Null
    /\ mem' = [mem EXCEPT !.nonces[n] = IF @ = Null THEN Null ELSE [@ EXCEPT !.used = TRUE]]
    /\ db' = [db EXCEPT !.nonces[n] = Null]
    /\ UNCHANGED <<revoking, calls, issued, spent, past>>

SignSession(c) ==
    LET cookie == NewCookie(calls[c]) IN
    /\ calls[c].step = "signed" /\ Draw(Tokens) # {}
    /\ Opened(cookie)
    /\ Move(c, [calls[c] EXCEPT !.step = "putSession", !.set = "put",
                            !.new = cookie])
    /\ UNCHANGED <<db, revoking, spent, past>>
(* wallet_sessions.profile_id references a profile.                        *)
PutSession(c) ==
    LET ck == calls[c].new IN
    /\ calls[c].step = "putSession"
    /\ \/ /\ Works /\ UNCHANGED past
          /\ db' = IF db.profiles[ck.id] = Null THEN db
                   ELSE [db EXCEPT !.sessions[ck.token] = [wallet |-> ck.wallet, id |-> ck.id]]
       \/ Fails /\ Trouble("write") /\ UNCHANGED db
    /\ Answer(c, "ok")
    /\ UNCHANGED <<mem, revoking, issued>>

(* The update of a revocation arrives, if the row does exist by then.      *)
Revoke(t) ==
    /\ t \in revoking
    /\ revoking' = revoking \ {t}
    /\ db' = [db EXCEPT !.sessions[t] = Null]
    /\ UNCHANGED <<mem, calls, issued, spent, past>>
-----------------------------------------------------------------------------
(* Claims that ask the database alone miss the names on their way there.   *)
NotAsked(call) == FALSE

(* setWalletUsername: the directory is asked, then the database, and the   *)
(* name is taken without asking the directory again.                       *)
TakenElsewhere(call) == mem.directory[call.want] \notin {Null, call.who}
CheckDirectory(c) ==
    LET call == calls[c] IN
    /\ call.step = "naming"
    /\ IF TakenElsewhere(call) THEN Answer(c, "no")
       ELSE Move(c, [call EXCEPT !.step = "conflict",
                !.out = IF NameFree(Object(call).id, call.want) THEN "none" ELSE "no"])
    /\ UNCHANGED <<mem, db, revoking, issued, spent, past>>

Rivals(c) == {d \in Calls \ {c} : calls[d].step = "conflict"
                                  /\ calls[d].want = calls[c].want
                                  /\ calls[d].who # calls[c].who}
(* What a claim may cost: another claim of the name, or the name given up. *)
Disturbed(c, old) ==
    (IF Rivals(c) = {} THEN {} ELSE {"overlap"})
    \cup (IF old.name \in {Null, calls[c].want} THEN {} ELSE {"released"})
Claim(c, old, trouble) ==
    LET call == calls[c]
        user == [old EXCEPT !.name = call.want]
    IN  /\ past' = [past EXCEPT !.trouble = @ \cup Disturbed(c, old) \cup trouble]
        /\ mem' = [mem EXCEPT
             !.directory = [n \in Names |->
                IF n = call.want THEN call.who
                ELSE IF n = old.name THEN Null ELSE @[n]],
             !.users = IF call.held THEN [@ EXCEPT ![call.who] = user] ELSE @]
        /\ Move(c, [call EXCEPT !.step = "saveName", !.user = user])
ClaimName(c) ==
    LET call == calls[c]
        old == Object(call)
        taken == {~NameFree(old.id, call.want), call.out = "no"}
    IN  /\ call.step = "conflict"
        /\ \/ TRUE \in taken /\ Works /\ Answer(c, "no") /\ UNCHANGED <<mem, past>>
           \/ FALSE \in taken /\ Works /\ Claim(c, old, {})
           \/ TRUE \in taken /\ Fails /\ Claim(c, old, {"read"})
        /\ UNCHANGED <<db, revoking, issued>>
SaveName(c) ==
    LET call == calls[c] IN
    /\ call.step = "saveName"
    /\ \/ Works /\ db' = [db EXCEPT !.profiles = ProfilesWith(call.user.id, call.want)]
          /\ UNCHANGED past
       \/ Fails /\ Trouble("write") /\ UNCHANGED db
    /\ Answer(c, "ok")
    /\ UNCHANGED <<mem, revoking, issued>>
-----------------------------------------------------------------------------
(* A restart forgets the Maps and drops every request it was serving; the  *)
(* write such a request waited for may still arrive.                       *)
ServerSteps ==
    {"session", "lookup", "account", "profile", "putProfile", "putAccount", "opened",
     "restored", "signed", "putSession", "verify", "loadNonce", "challenge",
     "putNonce", "naming", "conflict", "saveName", "logout"}
Restart ==
    LET served == {c \in Calls : calls[c].step \in ServerSteps}
        writing == {c \in served : calls[c].step \in {"putProfile", "putAccount", "saveName"}}
    IN  /\ Spend("restarts", MaxRestarts)
        /\ mem' = EmptyProcess
        /\ \/ UNCHANGED db
           \/ \E c \in writing :
                db' = CASE calls[c].step = "putAccount" ->
                             [db EXCEPT !.accounts = AccountsWith(calls[c])]
                        [] calls[c].step = "putProfile" ->
                             [db EXCEPT !.profiles = ProfilesWith(calls[c].user.id, calls[c].user.name)]
                        [] OTHER ->
                             [db EXCEPT !.profiles = ProfilesWith(calls[c].user.id, calls[c].want)]
        /\ calls' = [c \in Calls |-> IF c \in served
                        THEN Answered([calls[c] EXCEPT !.set = "keep"], "lost")
                        ELSE calls[c]]
        /\ past' = [past EXCEPT !.trouble = @ \cup {"restart"}
                    \cup (IF writing = {} THEN {} ELSE {"write"})]
        /\ UNCHANGED <<revoking, issued>>

ServerStep ==
    \/ \E c \in Calls :
        \/ ReadAccount(c) \/ ReadProfile(c) \/ PutProfile(c) \/ PutAccount(c)
        \/ ReadSession(c) \/ LookUpSession(c) \/ RestoreSession(c) \/ OpenSession(c)
        \/ Logout(c) \/ MakeNonce(c) \/ PutNonce(c) \/ CheckNonce(c) \/ LoadNonce(c)
        \/ SignSession(c) \/ PutSession(c)
        \/ CheckDirectory(c) \/ ClaimName(c) \/ SaveName(c)
    \/ \E n \in Nonces : ExpireNonce(n)
    \/ \E t \in Tokens : Revoke(t)
    \/ Restart
=============================================================================
