---------------------------- MODULE WalletProofs ----------------------------
(***************************************************************************)
(* Proofs about wallet sessions, for any number of wallets, profiles,      *)
(* tokens, nonces, names and requests in flight, and any number of faults  *)
(* and restarts: type correctness and the five promises of                 *)
(* WalletProperties.  One inductive invariant per promise:                 *)
(*                                                                         *)
(*   Typed      shapes of the state, stages of a request, and that what a  *)
(*              request points at is there;                                *)
(*   NoncesInv  until a restart, who holds a nonce finds it in memory;     *)
(*   TokensInv  a session token is of one wallet for good;                 *)
(*   PageInv    until the wallet changes under a request, what the page    *)
(*              has asked for and been told is about the connected wallet; *)
(*   OneIdInv   until a restart, a wallet has one profile and a profile    *)
(*              one wallet, in memory, tables, cookies and requests;       *)
(*   CalmInv    while writes arrive and no restart meets a failed read,    *)
(*              what names a profile of a wallet names its account's;      *)
(*   NamesInv   the directory knows whose every name is, until claims      *)
(*              overlap, the process restarts or a name is given up.       *)
(*                                                                         *)
(* A step is the business of one request: the frame lemmas (AllFollow,     *)
(* Keeps, Fresh, Aside) say what it leaves alone.                          *)
(***************************************************************************)
EXTENDS WalletProperties, TLAPS

ResolveSteps == {"account", "profile", "putProfile", "putAccount"}
NameSteps == {"naming", "conflict", "saveName"}
ResolvedSteps == {"opened", "restored", "signed", "naming", "conflict", "saveName"}
UserSteps == {"profile", "putProfile", "putAccount", "opened", "restored", "signed",
              "naming", "conflict", "saveName"}

Kinds == {"idle", "check", "signin", "challenge", "verify", "repeat", "rename", "signout",
          "elsewhere"}
Steps == {"idle", "sign", "reply", "session", "lookup", "account", "profile", "putProfile",
          "putAccount", "opened", "restored", "signed", "putSession", "verify", "loadNonce",
          "challenge", "putNonce", "naming", "conflict", "saveName", "logout"}
Goals == {"none", "opened", "restored", "signed", "naming"}
CookieOrders == {"keep", "clear", "put"}
Outcomes == {"none", "ok", "no", "lost"}
CallType ==
    [kind : Kinds, step : Steps, w : Optional(Wallets), who : Optional(Wallets),
     cookie : Optional(Cookie), user : Optional(User), held : BOOLEAN,
     want : Optional(Names), nonce : Optional(Nonces), after : Goals,
     set : CookieOrders, new : Optional(Cookie), out : Outcomes]

(* A call at a step, or on its way there through the resolver.             *)
Doing(call, step) == call.step = step \/ (call.step \in ResolveSteps /\ call.after = step)

Resolver(call) == call.kind \in {"check", "signin", "rename"}
Signer(call) == call.kind \in {"verify", "repeat"}
Stage(call) ==
    \/ call.step \in {"idle", "reply"}
    \/ call.step = "session" /\ Resolver(call)
    \/ call.step = "lookup" /\ Resolver(call) /\ call.cookie # Null
    \/ Doing(call, "opened") /\ Resolver(call) /\ call.who = call.w
    \/ Doing(call, "restored") /\ Resolver(call) /\ call.cookie # Null
    \/ (Doing(call, "naming") \/ call.step \in NameSteps)
         /\ call.kind \in {"rename", "elsewhere"} /\ call.who = call.w
    \/ Doing(call, "signed") /\ Signer(call) /\ call.who = call.w
    \/ call.step = "putSession" /\ Signer(call) /\ call.set = "put"
    \/ call.step \in {"sign", "verify", "loadNonce"} /\ Signer(call)
    \/ call.step \in {"challenge", "putNonce"} /\ call.kind = "challenge"
    \/ call.step = "logout" /\ call.kind = "signout"

CallOK(call) ==
    /\ call \in CallType
    /\ Stage(call)
    /\ call.kind # "idle" => call.w \in Wallets
    /\ call.step # "idle" => call.kind # "idle"
    /\ call.kind \in {"rename", "elsewhere"} /\ call.step # "reply" => call.want \in Names
    /\ call.step \in ResolveSteps \cup ResolvedSteps => call.who \in Wallets
    /\ call.step \in UserSteps => call.user # Null
    /\ Signer(call) => call.nonce \in Nonces
    /\ call.step = "putNonce" \/ (call.kind = "challenge" /\ call.out = "ok") => call.nonce \in Nonces
    /\ call.set = "put" => call.new # Null /\ call.new.wallet = call.w /\ call.kind \in AskingKinds
    /\ (call.kind = "verify" /\ call.step = "reply" /\ call.out = "ok") => call.set = "put"
    /\ call.step # "reply" => call.out # "ok"

Backed(call) ==
    /\ call.held => call.who \in Wallets /\ mem.users[call.who] # Null
    /\ call.step \in {"putProfile", "putAccount"} \cup ResolvedSteps => mem.users[call.who] # Null
    /\ call.step = "profile" => db.profiles[call.user.id] # Null
    /\ call.step \in {"idle", "sign", "reply", "account", "profile"} => ~call.held

Troubles == {"read", "write", "restart", "answer", "switch", "overlap", "released"}
PastType == [trouble : SUBSET Troubles, opened : [Nonces -> 0..2]]
Rows ==
    /\ past \in PastType
    /\ page.prev = page.connected
    /\ \A w \in Wallets : db.accounts[w] # Null => db.profiles[db.accounts[w]] # Null
    /\ \A t \in Tokens : mem.sessions[t] # Null => mem.users[mem.sessions[t].wallet] # Null

CallsOK ==
    /\ calls \in [Calls -> CallType]
    /\ \A c \in Calls : CallOK(calls[c]) /\ Backed(calls[c])
Typed == TypeOK /\ CallsOK /\ Rows
-----------------------------------------------------------------------------
LEMMA NullApart ==
    /\ Null \notin Wallets /\ Null \notin Ids /\ Null \notin Tokens /\ Null \notin Nonces
    /\ Null \notin Names /\ Null \notin User /\ Null \notin Session /\ Null \notin Cookie
    /\ Null \notin NonceRow /\ Null \notin Profile
    BY NullAssumption

LEMMA Drawn ==
    ASSUME NEW S, Draw(S) # {}
    PROVE  (CHOOSE x \in Draw(S) : TRUE) \in S \ issued
    BY DEF Draw

LEMMA Maybe ==
    /\ Null \in Optional(Wallets) /\ Null \in Optional(Cookie) /\ Null \in Optional(User)
    /\ Null \in Optional(Names) /\ Null \in Optional(Nonces) /\ Null \in Optional(Session)
    /\ Null \in Optional(NonceRow) /\ Null \in Optional(Ids) /\ Null \in Optional(Profile)
    /\ \A x \in Wallets : x \in Optional(Wallets)
    /\ \A x \in Cookie : x \in Optional(Cookie)
    /\ \A x \in User : x \in Optional(User)
    /\ \A x \in Names : x \in Optional(Names)
    /\ \A x \in Nonces : x \in Optional(Nonces)
    BY DEF Optional

LEMMA WordsOK ==
    /\ "reply" \in Steps /\ "account" \in Steps /\ "profile" \in Steps
    /\ "putProfile" \in Steps /\ "putAccount" \in Steps /\ "lookup" \in Steps
    /\ "putSession" \in Steps /\ "loadNonce" \in Steps /\ "verify" \in Steps
    /\ "putNonce" \in Steps /\ "conflict" \in Steps /\ "saveName" \in Steps
    /\ "session" \in Steps /\ "logout" \in Steps /\ "challenge" \in Steps /\ "sign" \in Steps
    /\ "none" \in Goals /\ Goals \subseteq Steps \cup {"none"}
    /\ "keep" \in CookieOrders /\ "clear" \in CookieOrders /\ "put" \in CookieOrders
    /\ "none" \in Outcomes /\ "no" \in Outcomes /\ "lost" \in Outcomes /\ "ok" \in Outcomes
    BY DEF Steps, Goals, CookieOrders, Outcomes

LEMMA IdleFields ==
    /\ Idle \in CallType
    /\ Idle.kind = "idle" /\ Idle.step = "idle" /\ Idle.w = Null /\ Idle.who = Null
    /\ Idle.cookie = Null /\ Idle.user = Null /\ Idle.held = FALSE /\ Idle.want = Null
    /\ Idle.nonce = Null /\ Idle.after = "none" /\ Idle.set = "keep" /\ Idle.new = Null
    /\ Idle.out = "none"
    BY DEF Idle, CallType, Kinds, Steps, Goals, CookieOrders, Outcomes, Optional

(* A call that has no user object is backed whatever the state.            *)
Plain(call) == ~call.held /\ call.step \notin UserSteps
LEMMA PlainBacked ==
    ASSUME NEW call, Plain(call)
    PROVE  Backed(call) /\ Backed(call)'
    BY DEF Plain, Backed, UserSteps, ResolvedSteps

LEMMA IdleOK == CallOK(Idle) /\ Plain(Idle)
<1>1. CallOK(Idle)
    BY IdleFields DEF CallOK, Stage, Signer, ResolveSteps, ResolvedSteps, UserSteps, AskingKinds
<1>2. Plain(Idle)
    BY IdleFields DEF Plain, UserSteps
<1> QED
    BY <1>1, <1>2

LEMMA AnsweredFields ==
    ASSUME NEW call \in CallType, NEW out \in Outcomes, NEW a, a = Answered(call, out)
    PROVE  /\ a \in CallType
           /\ a.kind = call.kind /\ a.step = "reply" /\ a.w = call.w /\ a.nonce = call.nonce
           /\ a.set = call.set /\ a.new = call.new /\ a.out = out
<1>1. a \in CallType
    BY Maybe, WordsOK DEF Answered, Idle, CallType
<1>2. /\ a.kind = call.kind /\ a.step = "reply" /\ a.w = call.w /\ a.nonce = call.nonce
      /\ a.set = call.set /\ a.new = call.new /\ a.out = out
    BY DEF Answered, Idle
<1> QED
    BY <1>1, <1>2

LEMMA AnsweredBlank ==
    ASSUME NEW call, NEW out
    PROVE  /\ Answered(call, out).who = Null /\ Answered(call, out).cookie = Null
           /\ Answered(call, out).user = Null /\ Answered(call, out).held = FALSE
    BY DEF Answered, Idle

LEMMA AnsweredOK ==
    ASSUME NEW call, CallOK(call), NEW out \in {"ok", "no", "lost"}, call.kind # "idle",
           call.kind = "verify" /\ out = "ok" => call.set = "put",
           call.kind = "challenge" /\ out = "ok" => call.nonce \in Nonces
    PROVE  CallOK(Answered(call, out)) /\ Plain(Answered(call, out))
<1>1. PICK a : a = Answered(call, out)
    OBVIOUS
<1>2. call \in CallType
    BY DEF CallOK
<1>o. out \in Outcomes
    BY WordsOK
<1>b. a.held = FALSE
    BY <1>1, AnsweredBlank
<1>3. /\ a \in CallType
      /\ a.kind = call.kind /\ a.step = "reply" /\ a.w = call.w /\ a.nonce = call.nonce
      /\ a.set = call.set /\ a.new = call.new /\ a.out = out
    BY <1>1, <1>2, <1>o, AnsweredFields
<1>4. CallOK(a)
    BY <1>3, <1>b DEF CallOK, Stage, Signer, ResolveSteps, ResolvedSteps, UserSteps
<1>5. Plain(a)
    BY <1>3, <1>b DEF Plain, UserSteps
<1> QED
    BY <1>1, <1>4, <1>5

LEMMA ResolvingFields ==
    ASSUME NEW call \in CallType, NEW w \in Wallets, NEW after \in Goals, NEW a,
           a = Resolving(call, w, after)
    PROVE  /\ a \in CallType
           /\ a.kind = call.kind /\ a.step = "account" /\ a.w = call.w /\ a.who = w
           /\ a.held = FALSE /\ a.after = after
<1>1. a \in CallType
    BY Maybe, WordsOK DEF Resolving, CallType
<1>2. /\ a.kind = call.kind /\ a.step = "account" /\ a.w = call.w /\ a.who = w
      /\ a.held = FALSE /\ a.after = after
    BY DEF Resolving, CallType
<1> QED
    BY <1>1, <1>2

LEMMA ResolvingKeeps ==
    ASSUME NEW call \in CallType, NEW w, NEW after
    PROVE  /\ Resolving(call, w, after).cookie = call.cookie
           /\ Resolving(call, w, after).want = call.want
           /\ Resolving(call, w, after).nonce = call.nonce
           /\ Resolving(call, w, after).set = call.set
           /\ Resolving(call, w, after).new = call.new
           /\ Resolving(call, w, after).out = call.out
    BY DEF Resolving, CallType

LEMMA ResolvingOK ==
    ASSUME NEW call, CallOK(call), NEW w \in Wallets, NEW after,
           call.kind # "idle", call.out # "ok",
           \/ after = "opened" /\ Resolver(call) /\ w = call.w
           \/ after = "restored" /\ Resolver(call) /\ call.cookie # Null
           \/ after = "naming" /\ call.kind \in {"rename", "elsewhere"} /\ w = call.w
           \/ after = "signed" /\ Signer(call) /\ w = call.w,
           call.step # "reply"
    PROVE  CallOK(Resolving(call, w, after)) /\ Plain(Resolving(call, w, after))
<1>1. PICK a : a = Resolving(call, w, after)
    OBVIOUS
<1>2. call \in CallType /\ after \in Goals
    BY DEF CallOK, Goals
<1>t. a \in CallType
    BY <1>1, <1>2, ResolvingFields
<1>f. /\ a.kind = call.kind /\ a.step = "account" /\ a.w = call.w /\ a.who = w
      /\ a.held = FALSE /\ a.after = after
    BY <1>1, <1>2 DEF Resolving, CallType
<1>k. /\ a.cookie = call.cookie /\ a.want = call.want /\ a.nonce = call.nonce
      /\ a.set = call.set /\ a.new = call.new /\ a.out = call.out
    BY <1>1, <1>2, ResolvingKeeps
<1>4. Stage(a)
    BY <1>t, <1>f, <1>k DEF Stage, Doing, Resolver, Signer, ResolveSteps
<1>5. CallOK(a)
    BY <1>t, <1>f, <1>k, <1>4 DEF CallOK, Signer, ResolveSteps, ResolvedSteps, UserSteps
<1>6. Plain(a)
    BY <1>f DEF Plain, UserSteps
<1> QED
    BY <1>1, <1>5, <1>6

-----------------------------------------------------------------------------
(* What no step but a restart takes back.                                  *)
Grows ==
    /\ \A w \in Wallets : mem.users[w] # Null => mem'.users[w] # Null
    /\ \A i \in Ids : db.profiles[i] # Null => db'.profiles[i] # Null

LEMMA BackedGrows ==
    ASSUME TypeOK, Grows, NEW call, CallOK(call), Backed(call)
    PROVE  Backed(call)'
<1>1. call.step \in {"putProfile", "putAccount"} \cup ResolvedSteps => call.who \in Wallets
    BY DEF CallOK, ResolveSteps
<1>2. call.step = "profile" => call.user.id \in Ids
    <2> SUFFICES ASSUME call.step = "profile" PROVE call.user.id \in Ids
        OBVIOUS
    <2>1. call.user \in User
        BY DEF CallOK, CallType, UserSteps, Optional
    <2> QED
        BY <2>1 DEF User
<1> QED
    BY <1>1, <1>2 DEF Grows, Backed

LEMMA MoveTyped ==
    ASSUME TypeOK, CallsOK, Grows, NEW c \in Calls, NEW n, Move(c, n), CallOK(n), Backed(n)'
    PROVE  CallsOK'
<1>1. n \in CallType
    BY DEF CallOK
<1>2. calls' \in [Calls -> CallType] /\ \A d \in Calls : calls'[d] = IF d = c THEN n ELSE calls[d]
    BY <1>1 DEF Move, CallsOK
<1>3. ASSUME NEW d \in Calls
      PROVE  (CallOK(calls[d]) /\ Backed(calls[d]))'
    <2>1. PICK x : x = calls[d]
        OBVIOUS
    <2>2. CallOK(x) /\ Backed(x)
        BY <2>1 DEF CallsOK
    <2>3. Backed(x)'
        BY <2>2, BackedGrows
    <2>4. PICK y : y = calls'[d]
        OBVIOUS
    <2>5. CallOK(y) /\ Backed(y)'
        BY <1>2, <2>1, <2>2, <2>3, <2>4
    <2> QED
        BY <2>4, <2>5 DEF Backed
<1> QED
    BY <1>2, <1>3 DEF CallsOK

LEMMA CallAt ==
    ASSUME CallsOK, NEW c \in Calls, NEW call, call = calls[c]
    PROVE  CallOK(call) /\ Backed(call) /\ call \in CallType
    BY DEF CallsOK

LEMMA UserMade ==
    ASSUME NEW i \in Ids, NEW n \in Optional(Names)
    PROVE  [id |-> i, name |-> n] \in User
    BY DEF User, Optional

LEMMA PastTyped ==
    ASSUME NEW what \in Troubles, past \in PastType, Trouble(what)
    PROVE  past' \in PastType
    BY DEF Trouble, PastType

(* A call that differs in where it is, and in the user object it has.      *)
Keeps(n, call) ==
    /\ n.kind = call.kind /\ n.w = call.w /\ n.who = call.who /\ n.cookie = call.cookie
    /\ n.want = call.want /\ n.nonce = call.nonce /\ n.after = call.after
    /\ n.set = call.set /\ n.new = call.new /\ n.out = call.out

LEMMA Resolves ==
    ASSUME NEW call, CallOK(call), call.step \in ResolveSteps, NEW n \in CallType, Keeps(n, call),
           n.step \in ResolveSteps \/ n.step = call.after, n.user # Null
    PROVE  CallOK(n)
<1>1. Stage(n)
    BY DEF Keeps, CallOK, Stage, Doing, Resolver, Signer, ResolveSteps, NameSteps
<1>2. n.step # "reply" /\ call.step # "reply" /\ n.step # "putNonce" /\ n.step # "idle" /\ call.step # "idle"
    BY DEF CallOK, Stage, Doing, ResolveSteps, NameSteps
<1> QED
    BY <1>1, <1>2 DEF Keeps, CallOK, Signer, ResolveSteps, ResolvedSteps, UserSteps
-----------------------------------------------------------------------------
(* The steps of the resolver keep the types.                               *)
LEMMA ReadAccountTyped ==
    ASSUME Typed, NEW c \in Calls, ReadAccount(c), UNCHANGED <<jar, page>>
    PROVE  Typed'
<1>1. PICK call : call = calls[c]
    OBVIOUS
<1>2. CallOK(call) /\ Backed(call) /\ call \in CallType /\ call.step = "account"
      /\ call.who \in Wallets
    <2>1. CallOK(call) /\ Backed(call) /\ call \in CallType /\ call.step = "account"
        BY <1>1, CallAt DEF Typed, ReadAccount
    <2> QED
        BY <2>1 DEF CallOK, ResolveSteps
<1> DEFINE Found(i) ==
             /\ i = db.accounts[call.who]
             /\ Move(c, [call EXCEPT !.step = "profile",
                                     !.user = [id |-> i, name |-> db.profiles[i].name]])
             /\ UNCHANGED <<mem, past>>
           Known ==
             /\ KnownUser(call.who) # Null
             /\ Move(c, [call EXCEPT !.step = "putProfile", !.held = TRUE,
                                     !.user = KnownUser(call.who)])
             /\ UNCHANGED mem
           Made(i) ==
             /\ mem' = [mem EXCEPT !.users[call.who] = [id |-> i, name |-> Null]]
             /\ Move(c, [call EXCEPT !.step = "putProfile", !.held = TRUE,
                                     !.user = [id |-> i, name |-> Null]])
<1>3. past' \in PastType
    BY PastTyped DEF ReadAccount, Rows, Typed, Troubles
<1>4. UNCHANGED <<db, jar, page>>
    BY DEF ReadAccount
<1>a. ASSUME NEW i \in Ids, Found(i)
      PROVE  Typed'
    <2>2. db.profiles[i] \in Profile
        BY <1>a, <1>2, NullApart DEF Typed, TypeOK, DbType, Optional, Rows
    <2>3. PICK user \in User : user = [id |-> i, name |-> db.profiles[i].name]
        BY <2>2, UserMade DEF Profile, Optional
    <2>4. PICK n : n = [call EXCEPT !.step = "profile", !.user = user]
        OBVIOUS
    <2>t. n \in CallType
        BY <2>4, <1>2, Maybe, WordsOK DEF CallType
    <2>f. Keeps(n, call) /\ n.step = "profile" /\ n.user = user /\ n.held = call.held
        BY <2>4, <1>2 DEF CallType, Keeps
    <2>5. user # Null /\ user.id = i
        BY <2>3, NullApart
    <2>7. CallOK(n)
        BY <1>2, <2>t, <2>f, <2>5, Resolves DEF ResolveSteps
    <2>8. Backed(n)'
        BY <1>a, <1>4, <1>2, <2>2, <2>f, <2>5, NullApart DEF Backed, ResolvedSteps, Keeps
    <2>9. Grows /\ Move(c, n)
        BY <1>a, <1>4, <2>3, <2>4 DEF Grows
    <2>10. CallsOK'
        BY <2>7, <2>8, <2>9, MoveTyped DEF Typed
    <2> QED
        BY <1>a, <1>4, <2>10 DEF Typed, TypeOK, Rows
<1>b. CASE Known
    <2>3. PICK user \in User : user = KnownUser(call.who)
        BY <1>b, <1>2 DEF Typed, TypeOK, MemType, Optional, KnownUser
    <2>4. PICK n : n = [call EXCEPT !.step = "putProfile", !.held = TRUE, !.user = user]
        OBVIOUS
    <2>t. n \in CallType
        BY <2>4, <1>2, Maybe, WordsOK DEF CallType
    <2>f. Keeps(n, call) /\ n.step = "putProfile" /\ n.user = user /\ n.held = TRUE
        BY <2>4, <1>2 DEF CallType, Keeps
    <2>7. CallOK(n)
        BY <1>2, <2>t, <2>f, <2>3, NullApart, Resolves DEF ResolveSteps
    <2>8. Backed(n)'
        BY <1>b, <1>2, <2>f DEF Backed, KnownUser, Keeps
    <2>9. Grows /\ Move(c, n)
        BY <1>b, <1>4, <2>3, <2>4 DEF Grows
    <2>10. CallsOK'
        BY <2>7, <2>8, <2>9, MoveTyped DEF Typed
    <2> QED
        BY <1>b, <1>3, <1>4, <2>10 DEF Typed, TypeOK, Rows
<1>c. ASSUME NEW i \in Ids, Made(i)
      PROVE  Typed'
    <2>3. PICK user \in User : user = [id |-> i, name |-> Null]
        BY UserMade, Maybe
    <2>4. PICK n : n = [call EXCEPT !.step = "putProfile", !.held = TRUE, !.user = user]
        OBVIOUS
    <2>t. n \in CallType
        BY <2>4, <1>2, Maybe, WordsOK DEF CallType
    <2>f. Keeps(n, call) /\ n.step = "putProfile" /\ n.user = user /\ n.held = TRUE
        BY <2>4, <1>2 DEF CallType, Keeps
    <2>7. CallOK(n)
        BY <1>2, <2>t, <2>f, <2>3, NullApart, Resolves DEF ResolveSteps
    <2>m. /\ mem' \in MemType
          /\ mem'.users = [mem.users EXCEPT ![call.who] = user]
          /\ mem'.sessions = mem.sessions
        BY <1>c, <1>2, <2>3, Maybe DEF Typed, TypeOK, MemType
    <2>u. mem.users \in [Wallets -> Optional(User)] /\ user # Null
        BY <2>3, NullApart DEF Typed, TypeOK, MemType
    <2>8. Backed(n)'
        BY <1>2, <2>m, <2>u, <2>f DEF Backed, Keeps
    <2>9. Grows /\ Move(c, n)
        BY <1>c, <1>4, <2>m, <2>u, <2>3, <2>4, <1>2 DEF Grows
    <2>10. CallsOK'
        BY <2>7, <2>8, <2>9, MoveTyped DEF Typed
    <2>s. \A t \in Tokens : mem.sessions[t] # Null => mem.sessions[t].wallet \in Wallets
        BY DEF Typed, TypeOK, MemType, Optional, Session
    <2>r. Rows'
        BY <1>3, <1>4, <2>m, <2>s, <2>9 DEF Typed, Rows, Grows
    <2> QED
        BY <1>4, <2>m, <2>10, <2>r DEF Typed, TypeOK
<1>5. CASE db.accounts[call.who] # Null /\ Found(db.accounts[call.who])
    <2>1. db.accounts[call.who] \in Ids
        BY <1>2, <1>5 DEF Typed, TypeOK, DbType, Optional
    <2> QED
        BY <1>5, <2>1, <1>a
<1>6. CASE KnownUser(call.who) = Null /\ Draw(Ids) # {} /\ Made(CHOOSE i \in Draw(Ids) : TRUE)
    BY <1>6, <1>c, Drawn
<1> HIDE DEF Found, Known, Made
<1>7. \/ db.accounts[call.who] # Null /\ Found(db.accounts[call.who])
      \/ Known
      \/ KnownUser(call.who) = Null /\ Draw(Ids) # {} /\ Made(CHOOSE i \in Draw(Ids) : TRUE)
    BY <1>1, SMTT(40) DEF ReadAccount, Found, Known, Made, Move
<1> QED
    BY <1>b, <1>5, <1>6, <1>7

LetGo(call, user) == [call EXCEPT !.held = FALSE, !.user = user]
LEMMA LetsGo ==
    ASSUME NEW call, CallOK(call), NEW user \in User, NEW n, n = LetGo(call, user)
    PROVE  CallOK(n) /\ Keeps(n, call) /\ n.step = call.step /\ n.user = user /\ ~n.held
<1>1. call \in CallType
    BY DEF CallOK
<1>2. n \in CallType
    BY <1>1, Maybe DEF CallType, LetGo
<1>3. Keeps(n, call) /\ n.step = call.step /\ n.user = user /\ n.held = FALSE
    BY <1>1 DEF CallType, Keeps, LetGo
<1>4. Stage(n)
    BY <1>3 DEF CallOK, Stage, Doing, Resolver, Signer, Keeps
<1>5. CallOK(n)
    BY <1>2, <1>3, <1>4, NullApart DEF CallOK, Signer, Keeps
<1> QED
    BY <1>3, <1>5

(* What Rebuild does, in terms of the call it is given.                    *)
LEMMA RebuildUsers ==
    ASSUME NEW c \in Calls, NEW user, Rebuild(c, user), NEW call, call = calls[c],
           call.who \in Wallets, TypeOK
    PROVE  /\ mem'.users = [mem.users EXCEPT ![call.who] = user]
           /\ mem'.sessions = mem.sessions /\ mem'.nonces = mem.nonces
    BY DEF Rebuild, TypeOK, MemType

LEMMA RebuildDirectory ==
    ASSUME NEW c \in Calls, NEW user, Rebuild(c, user), NEW call, call = calls[c],
           call.who \in Wallets, TypeOK
    PROVE  mem'.directory = [n \in Names |-> IF n = user.name THEN call.who
                                             ELSE mem.directory[n]]
    BY DEF Rebuild, TypeOK, MemType

Served(call, user) == [call EXCEPT !.step = call.after, !.user = user, !.held = TRUE]
LEMMA RebuildCalls ==
    ASSUME NEW c \in Calls, NEW user, Rebuild(c, user), NEW d \in Calls
    PROVE  /\ d = c => calls'[d] = Served(calls[c], user)
           /\ d # c /\ calls[d].held /\ calls[d].who = calls[c].who
                => calls'[d] = LetGo(calls[d], mem.users[calls[c].who])
           /\ d # c /\ ~(calls[d].held /\ calls[d].who = calls[c].who) => calls'[d] = calls[d]
    BY DEF Rebuild, LetGo, Served

LEMMA RebuildTyped ==
    ASSUME Typed, NEW c \in Calls, NEW user \in User, Rebuild(c, user), NEW call, call = calls[c],
           call.step = "profile", UNCHANGED db
    PROVE  /\ CallsOK' /\ Grows /\ mem' \in MemType
           /\ mem'.sessions = mem.sessions
<1>2. CallOK(call) /\ Backed(call) /\ call \in CallType /\ call.who \in Wallets
    <2>1. CallOK(call) /\ Backed(call) /\ call \in CallType
        BY CallAt DEF Typed
    <2> QED
        BY <2>1 DEF CallOK, ResolveSteps
<1>3. /\ mem'.users = [mem.users EXCEPT ![call.who] = user]
      /\ mem'.sessions = mem.sessions
    BY <1>2, RebuildUsers DEF Typed
<1>4. mem' \in MemType
    <2> DEFINE dir == [n \in Names |-> IF n = user.name THEN call.who ELSE mem.directory[n]]
    <2>1. dir \in [Names -> Optional(Wallets)]
        BY <1>2, Maybe DEF Typed, TypeOK, MemType
    <2>2. mem' = [mem EXCEPT !.users[call.who] = user, !.directory = dir]
        BY DEF Rebuild
    <2> HIDE DEF dir
    <2> QED
        BY <2>1, <2>2, <1>2, Maybe DEF Typed, TypeOK, MemType
<1>5. mem.users \in [Wallets -> Optional(User)] /\ user # Null
    BY NullApart DEF Typed, TypeOK, MemType
<1>6. Grows
    BY <1>3, <1>5, <1>2 DEF Grows
<1>7. ASSUME NEW d \in Calls
      PROVE  CallOK(calls'[d]) /\ Backed(calls[d])'
    <2>1. PICK x : x = calls[d]
        OBVIOUS
    <2>2. CallOK(x) /\ Backed(x)
        BY <2>1, CallAt DEF Typed
    <2>3. PICK n : n = calls'[d]
        OBVIOUS
    <2>a. CASE d = c
        <3>1. n = Served(call, user)
            BY <2>a, <2>3, RebuildCalls
        <3>2. call.after \in {"opened", "restored", "signed", "naming"}
            BY <1>2 DEF CallOK, Stage, Doing, NameSteps
        <3>3. n \in CallType
            <4>1. call.after \in Steps
                BY <3>2 DEF Steps
            <4> QED
                BY <4>1, <3>1, <1>2, Maybe DEF CallType, Served
        <3>4. Keeps(n, call) /\ n.step = call.after /\ n.user = user /\ n.held = TRUE
            BY <3>1, <1>2 DEF CallType, Keeps, Served
        <3>5. CallOK(n)
            BY <3>3, <3>4, <1>2, <1>5, Resolves DEF ResolveSteps
        <3>6. mem'.users[call.who] # Null
            BY <1>3, <1>5, <1>2
        <3>7. Backed(n)'
            BY <3>2, <3>4, <3>6, <1>2 DEF Backed, Keeps
        <3> QED
            BY <2>3, <3>5, <3>7 DEF Backed
    <2>b. CASE d # c /\ calls[d].held /\ calls[d].who = call.who
        <3>0. PICK old : old = mem.users[call.who]
            OBVIOUS
        <3>1. old \in User
            BY <3>0, <2>b, <2>1, <2>2, <1>2, <1>5 DEF Backed, Optional
        <3>2. n = LetGo(x, old)
            BY <3>0, <2>1, <2>b, <2>3, RebuildCalls
        <3>3. CallOK(n) /\ Keeps(n, x) /\ n.step = x.step /\ ~n.held
            BY <3>1, <3>2, <2>2, LetsGo
        <3>4. x.step # "profile" /\ x.held
            BY <2>1, <2>b, <2>2 DEF Backed
        <3>5. Backed(x)'
            BY <2>2, <1>6, BackedGrows DEF Typed
        <3>6. Backed(n)'
            BY <3>3, <3>4, <3>5 DEF Backed, Keeps
        <3> QED
            BY <2>3, <3>3, <3>6 DEF Backed
    <2>c. CASE d # c /\ ~(calls[d].held /\ calls[d].who = call.who)
        <3>1. n = x
            BY <2>1, <2>c, <2>3, RebuildCalls
        <3>2. Backed(n)'
            BY <3>1, <2>2, <1>6, BackedGrows DEF Typed
        <3> QED
            BY <2>3, <3>1, <3>2, <2>2 DEF Backed
    <2> QED
        BY <2>a, <2>b, <2>c
<1>8. CallsOK'
    <2>1. \A d \in Calls : calls'[d] \in CallType
        BY <1>7 DEF CallOK
    <2>2. calls' = [d \in Calls |-> calls'[d]]
        BY DEF Rebuild
    <2>3. calls' \in [Calls -> CallType]
        BY <2>1, <2>2
    <2> QED
        BY <1>7, <2>3 DEF CallsOK
<1> QED
    BY <1>3, <1>4, <1>6, <1>8

LEMMA ReadProfileTyped ==
    ASSUME Typed, NEW c \in Calls, ReadProfile(c), UNCHANGED <<jar, page>>
    PROVE  Typed'
<1>1. PICK call : call = calls[c]
    OBVIOUS
<1>2. CallOK(call) /\ Backed(call) /\ call \in CallType /\ call.step = "profile"
      /\ call.who \in Wallets /\ call.user \in User /\ call.user.id \in Ids
    <2>1. CallOK(call) /\ Backed(call) /\ call \in CallType /\ call.step = "profile"
        BY <1>1, CallAt DEF Typed, ReadProfile
    <2>2. call.who \in Wallets /\ call.user \in User
        BY <2>1 DEF CallOK, ResolveSteps, UserSteps, CallType, Optional
    <2> QED
        BY <2>1, <2>2 DEF User
<1>3. past' \in PastType
    BY PastTyped DEF ReadProfile, Rows, Typed, Troubles
<1>4. UNCHANGED <<db, jar, page>>
    BY DEF ReadProfile
<1>5. db.profiles[call.user.id] \in Profile
    BY <1>2 DEF Backed, Typed, TypeOK, DbType, Optional
<1>6. ASSUME NEW name \in Optional(Names)
      PROVE  Rebuilt(call, name) \in User
    <2>1. PICK old \in Optional(User) : old = mem.users[call.who]
        BY <1>2 DEF Typed, TypeOK, MemType
    <2>2. old # Null => old.name \in Optional(Names)
        BY DEF User, Optional
    <2>3. (IF name # Null THEN name ELSE IF old = Null THEN Null ELSE old.name) \in Optional(Names)
        BY <2>2, Maybe
    <2> QED
        BY <2>1, <2>3, <1>2, UserMade DEF Rebuilt
<1>7. PICK user \in User : Rebuild(c, user)
    <2>1. \E name \in {db.profiles[call.user.id].name, call.user.name, Null} :
            Rebuild(c, Rebuilt(call, name))
        BY <1>1 DEF ReadProfile
    <2>2. {db.profiles[call.user.id].name, call.user.name, Null} \subseteq Optional(Names)
        BY <1>2, <1>5 DEF User, Profile, Optional
    <2> QED
        BY <2>1, <2>2, <1>6
<1>8. CallsOK' /\ Grows /\ mem' \in MemType /\ mem'.sessions = mem.sessions
    BY <1>1, <1>2, <1>4, <1>7, RebuildTyped
<1>s. \A t \in Tokens : mem.sessions[t] # Null => mem.sessions[t].wallet \in Wallets
    BY DEF Typed, TypeOK, MemType, Optional, Session
<1>r. Rows'
    BY <1>3, <1>4, <1>8, <1>s DEF Typed, Rows, Grows
<1> QED
    BY <1>4, <1>8, <1>r DEF Typed, TypeOK

(* A step that moves one call and leaves the rest, but for the history.    *)
LEMMA QuietTyped ==
    ASSUME Typed, NEW c \in Calls, NEW n, Move(c, n), CallOK(n), Backed(n),
           UNCHANGED <<mem, db, jar, page>>, past' \in PastType
    PROVE  Typed'
<1>1. Grows
    BY DEF Grows
<1>2. Backed(n)'
    BY DEF Backed
<1>3. CallsOK'
    BY <1>1, <1>2, MoveTyped DEF Typed
<1> QED
    BY <1>3 DEF Typed, TypeOK, Rows

LEMMA SessionsTyped ==
    ASSUME TypeOK
    PROVE  \A t \in Tokens : mem.sessions[t] # Null => mem.sessions[t].wallet \in Wallets
    BY DEF TypeOK, MemType, Optional, Session

(* A step that writes profiles or accounts.                                *)
LEMMA DbTyped ==
    ASSUME Typed, NEW c \in Calls, NEW n, Move(c, n), CallOK(n), Backed(n)', db' \in DbType,
           \A i \in Ids : db.profiles[i] # Null => db'.profiles[i] # Null,
           \A w \in Wallets : db'.accounts[w] # Null => db'.profiles[db'.accounts[w]] # Null,
           UNCHANGED <<mem, jar, page>>, past' \in PastType
    PROVE  Typed'
<1>1. Grows
    BY DEF Grows
<1>3. CallsOK'
    BY <1>1, MoveTyped DEF Typed
<1> QED
    BY <1>3 DEF Typed, TypeOK, Rows

LEMMA ProfilesKept ==
    ASSUME TypeOK, NEW i \in Ids, NEW name \in Optional(Names)
    PROVE  /\ ProfilesWith(i, name) \in [Ids -> Optional(Profile)]
           /\ \A j \in Ids : db.profiles[j] # Null => ProfilesWith(i, name)[j] # Null
           /\ name = Null => ProfilesWith(i, name)[i] # Null
<1>1. db.profiles \in [Ids -> Optional(Profile)]
    BY DEF TypeOK, DbType
<1>2. [name |-> name] \in Profile
    BY DEF Profile, Optional
<1>3. [name |-> name] \in Optional(Profile) /\ [name |-> name] # Null
    BY <1>2, NullApart DEF Optional
<1> QED
    BY <1>1, <1>3 DEF ProfilesWith, NameFree

Stepped(call, step) == [call EXCEPT !.step = step]
LEMMA SteppedFields ==
    ASSUME NEW call \in CallType, NEW step \in Steps, NEW n, n = Stepped(call, step)
    PROVE  n \in CallType /\ Keeps(n, call) /\ n.step = step /\ n.user = call.user
           /\ n.held = call.held
    BY DEF CallType, Keeps, Stepped

LEMMA GoalSteps ==
    ASSUME NEW call, CallOK(call), call.step \in ResolveSteps
    PROVE  call.after \in {"opened", "restored", "signed", "naming"} /\ call.after \in Steps
    BY DEF CallOK, Stage, Doing, ResolveSteps, NameSteps, Steps

LEMMA PutProfileTyped ==
    ASSUME Typed, NEW c \in Calls, PutProfile(c), UNCHANGED <<jar, page>>
    PROVE  Typed'
<1>1. PICK call : call = calls[c]
    OBVIOUS
<1>2. CallOK(call) /\ Backed(call) /\ call \in CallType /\ call.step = "putProfile"
    BY <1>1, CallAt DEF Typed, PutProfile
<1>3. call.user \in User /\ call.user # Null
    BY <1>2 DEF CallOK, UserSteps, CallType, Optional
<1>4. PICK n : n = Stepped(call, "putAccount")
    OBVIOUS
<1>5. n \in CallType /\ Keeps(n, call) /\ n.step = "putAccount" /\ n.user = call.user
      /\ n.held = call.held
    <2>1. "putAccount" \in Steps
        BY DEF Steps
    <2> QED
        BY <1>4, <1>2, <2>1, SteppedFields
<1>6. CallOK(n)
    BY <1>2, <1>3, <1>5, Resolves DEF ResolveSteps
<1>7. UNCHANGED <<mem, jar, page>> /\ past' \in PastType /\ Move(c, n)
    BY <1>1, <1>4, PastTyped DEF PutProfile, Stepped, Typed, Rows, Troubles
<1>8. Backed(n)'
    BY <1>2, <1>5, <1>7 DEF Backed, Keeps
<1>9. call.user.id \in Ids /\ call.user.name \in Optional(Names)
    BY <1>3 DEF User, Optional
<1>10. /\ db' \in DbType /\ db'.accounts = db.accounts
       /\ \A j \in Ids : db.profiles[j] # Null => db'.profiles[j] # Null
    <2>1. CASE db' = [db EXCEPT !.profiles = ProfilesWith(call.user.id, call.user.name)]
        <3>1. PICK p : p = ProfilesWith(call.user.id, call.user.name)
            OBVIOUS
        <3>2. /\ p \in [Ids -> Optional(Profile)]
              /\ \A j \in Ids : db.profiles[j] # Null => p[j] # Null
            BY <3>1, <1>9, ProfilesKept DEF Typed
        <3> QED
            BY <2>1, <3>1, <3>2 DEF Typed, TypeOK, DbType
    <2>2. CASE UNCHANGED db
        BY <2>2 DEF Typed, TypeOK
    <2> QED
        BY <2>1, <2>2, <1>1 DEF PutProfile
<1>11. \A w \in Wallets : db.accounts[w] # Null => db.accounts[w] \in Ids
    BY DEF Typed, TypeOK, DbType, Optional
<1>12. \A w \in Wallets : db'.accounts[w] # Null => db'.profiles[db'.accounts[w]] # Null
    BY <1>10, <1>11 DEF Typed, Rows
<1> QED
    BY <1>6, <1>7, <1>8, <1>10, <1>12, DbTyped

LEMMA AccountsKept ==
    ASSUME TypeOK, Rows, NEW call, call.who \in Wallets, call.user.id \in Ids
    PROVE  /\ AccountsWith(call) \in [Wallets -> Optional(Ids)]
           /\ \A w \in Wallets : AccountsWith(call)[w] # Null =>
                db.profiles[AccountsWith(call)[w]] # Null
<1>1. db.accounts \in [Wallets -> Optional(Ids)] /\ call.user.id \in Optional(Ids)
    BY DEF TypeOK, DbType, Optional
<1> QED
    BY <1>1 DEF AccountsWith, Rows

LEMMA PutAccountTyped ==
    ASSUME Typed, NEW c \in Calls, PutAccount(c), UNCHANGED <<jar, page>>
    PROVE  Typed'
<1>1. PICK call : call = calls[c]
    OBVIOUS
<1>2. CallOK(call) /\ Backed(call) /\ call \in CallType /\ call.step = "putAccount"
    BY <1>1, CallAt DEF Typed, PutAccount
<1>3. call.user \in User /\ call.user # Null /\ call.user.id \in Ids /\ call.who \in Wallets
    <2>1. call.user \in User /\ call.user # Null /\ call.who \in Wallets
        BY <1>2 DEF CallOK, UserSteps, CallType, Optional, ResolveSteps
    <2> QED
        BY <2>1 DEF User
<1>4. PICK n : n = Stepped(call, call.after)
    OBVIOUS
<1>a. call.after \in {"opened", "restored", "signed", "naming"} /\ call.after \in Steps
    BY <1>2, GoalSteps DEF ResolveSteps
<1>5. n \in CallType /\ Keeps(n, call) /\ n.step = call.after /\ n.user = call.user
      /\ n.held = call.held
    BY <1>4, <1>2, <1>a, SteppedFields
<1>6. CallOK(n)
    BY <1>2, <1>3, <1>5, Resolves DEF ResolveSteps
<1>7. UNCHANGED <<mem, jar, page>> /\ past' \in PastType /\ Move(c, n)
    BY <1>1, <1>4, PastTyped DEF PutAccount, Stepped, Typed, Rows, Troubles
<1>8. Backed(n)'
    BY <1>2, <1>5, <1>7, <1>a DEF Backed, Keeps
<1>10. /\ db' \in DbType /\ db'.profiles = db.profiles
       /\ \A w \in Wallets : db'.accounts[w] # Null => db'.profiles[db'.accounts[w]] # Null
    <2>1. CASE db' = [db EXCEPT !.accounts = AccountsWith(call)]
        BY <2>1, <1>3, AccountsKept DEF Typed, TypeOK, DbType
    <2>2. CASE UNCHANGED db
        BY <2>2 DEF Typed, TypeOK, Rows
    <2> QED
        BY <2>1, <2>2, <1>1 DEF PutAccount
<1> QED
    BY <1>6, <1>7, <1>8, <1>10, DbTyped

-----------------------------------------------------------------------------
(* The steps of sessions keep the types.                                   *)
Cleared(call) == [call EXCEPT !.set = "clear"]
LEMMA ClearedOK ==
    ASSUME NEW call, CallOK(call), call.step \in {"session", "lookup", "restored", "logout"},
           NEW n, n = Cleared(call)
    PROVE  CallOK(n) /\ n.kind = call.kind /\ n.nonce = call.nonce
<1>1. call \in CallType
    BY DEF CallOK
<1>2. n \in CallType
    BY <1>1 DEF CallType, Cleared, CookieOrders
<1>3. /\ n.kind = call.kind /\ n.w = call.w /\ n.who = call.who /\ n.cookie = call.cookie
      /\ n.want = call.want /\ n.nonce = call.nonce /\ n.after = call.after
      /\ n.step = call.step /\ n.user = call.user
    BY <1>1 DEF CallType, Cleared
<1>4. n.set = "clear" /\ n.new = call.new /\ n.out = call.out
    BY <1>1 DEF CallType, Cleared
<1>5. Stage(n)
    BY <1>3, <1>4 DEF CallOK, Stage, Doing, Resolver, Signer, ResolveSteps, NameSteps
<1>6. call.kind # "verify"
    BY DEF CallOK, Stage, Doing, Resolver, ResolveSteps, NameSteps
<1> QED
    BY <1>2, <1>3, <1>4, <1>5, <1>6 DEF CallOK, Signer

LEMMA AuthenticatedMoves ==
    ASSUME NEW c \in Calls, NEW call, call = calls[c], CallOK(call), Resolver(call),
           call.step \in {"session", "lookup", "restored"},
           NEW m, NEW wallet \in Wallets, NEW t, Authenticated(c, m, wallet, t)
    PROVE  /\ \E n : Move(c, n) /\ CallOK(n) /\ Plain(n)
           /\ mem' = m \/ mem' = Dropped(m, t)
<1>1. call.kind \in {"check", "signin", "rename"} /\ call.out # "ok" /\ call.step # "reply"
    BY DEF Resolver, CallOK
<1>a. CASE wallet # call.w
    <2>1. PICK x : x = Cleared(call)
        OBVIOUS
    <2>2. CallOK(x) /\ x.kind = call.kind
        BY <2>1, ClearedOK
    <2>3. CallOK(Answered(x, "no")) /\ Plain(Answered(x, "no"))
        BY <2>2, <1>1, AnsweredOK
    <2> QED
        BY <1>a, <2>1, <2>3 DEF Authenticated, Cleared
<1>b. CASE wallet = call.w /\ call.kind = "rename"
    <2>1. CallOK(Resolving(call, wallet, "naming")) /\ Plain(Resolving(call, wallet, "naming"))
        BY <1>b, <1>1, ResolvingOK
    <2> QED
        BY <1>b, <2>1 DEF Authenticated
<1>c. CASE wallet = call.w /\ call.kind # "rename"
    <2>1. CallOK(Answered(call, "ok")) /\ Plain(Answered(call, "ok"))
        BY <1>c, <1>1, AnsweredOK
    <2> QED
        BY <1>c, <2>1 DEF Authenticated, Answer
<1> QED
    BY <1>a, <1>b, <1>c

(* A step that writes the Maps of the process.                             *)
LEMMA MemTyped ==
    ASSUME Typed, NEW c \in Calls, NEW n, Move(c, n), CallOK(n), Plain(n),
           mem' \in MemType,
           \A w \in Wallets : mem.users[w] # Null => mem'.users[w] # Null,
           \A t \in Tokens : mem'.sessions[t] # Null =>
             mem'.sessions[t] = mem.sessions[t] \/ mem'.users[mem'.sessions[t].wallet] # Null,
           UNCHANGED <<db, jar, page>>, past' \in PastType
    PROVE  Typed'
<1>1. Grows
    BY DEF Grows
<1>2. CallsOK'
    BY <1>1, MoveTyped, PlainBacked DEF Typed
<1>3. \A t \in Tokens : mem'.sessions[t] # Null => mem'.users[mem'.sessions[t].wallet] # Null
    BY SessionsTyped DEF Typed, Rows
<1> QED
    BY <1>2, <1>3 DEF Typed, TypeOK, Rows

LEMMA DroppedTyped ==
    ASSUME NEW m \in MemType, NEW t \in Tokens
    PROVE  /\ Dropped(m, t) \in MemType
           /\ Dropped(m, t).users = m.users
           /\ Dropped(m, t).sessions = [m.sessions EXCEPT ![t] = Null]
    BY Maybe DEF Dropped, MemType

LEMMA PlaceSession ==
    ASSUME NEW m \in MemType, NEW t \in Tokens, NEW x \in Session
    PROVE  /\ [m EXCEPT !.sessions[t] = x] \in MemType
           /\ [m EXCEPT !.sessions[t] = x].users = m.users
           /\ [m EXCEPT !.sessions[t] = x].sessions = [m.sessions EXCEPT ![t] = x]
<1>1. x \in Optional(Session)
    BY DEF Optional
<1> QED
    BY <1>1 DEF MemType

LEMMA CookieTyped ==
    ASSUME NEW call, CallOK(call), call.cookie # Null
    PROVE  /\ call.cookie \in Cookie /\ call.cookie.token \in Tokens /\ call.cookie.wallet \in Wallets
           /\ call.cookie.id \in Ids /\ call.cookie.name \in Optional(Names)
<1>1. call.cookie \in Cookie
    BY DEF CallOK, CallType, Optional
<1> QED
    BY <1>1 DEF Cookie, Optional

LEMMA ReadSessionTyped ==
    ASSUME Typed, NEW c \in Calls, ReadSession(c), UNCHANGED <<jar, page>>
    PROVE  Typed'
<1>1. PICK call : call = calls[c]
    OBVIOUS
<1>2. CallOK(call) /\ call \in CallType /\ call.step = "session"
    BY <1>1, CallAt DEF Typed, ReadSession
<1>3. Resolver(call) /\ call.w \in Wallets /\ call.kind # "idle" /\ call.out # "ok"
    BY <1>2 DEF CallOK, Stage, Resolver, Doing, ResolveSteps, NameSteps
<1>4. UNCHANGED <<db, jar, page, past>> /\ past' \in PastType
    BY DEF ReadSession, Typed, Rows
<1>a. CASE call.cookie = Null
    <2>1. CallOK(Resolving(call, call.w, "opened")) /\ Plain(Resolving(call, call.w, "opened"))
        BY <1>2, <1>3, ResolvingOK
    <2>2. Move(c, Resolving(call, call.w, "opened")) /\ UNCHANGED mem
        BY <1>a, <1>1 DEF ReadSession
    <2> QED
        BY <2>1, <2>2, <1>4, PlainBacked, QuietTyped
<1>b. CASE /\ call.cookie # Null
           /\ ~(/\ mem.sessions[call.cookie.token] # Null
                /\ mem.users[mem.sessions[call.cookie.token].wallet] # Null)
    <2>1. PICK n : n = Stepped(call, "lookup")
        OBVIOUS
    <2>s. "lookup" \in Steps
        BY DEF Steps
    <2>2. n \in CallType /\ Keeps(n, call) /\ n.step = "lookup" /\ n.user = call.user
          /\ n.held = call.held
        BY <2>1, <2>s, <1>2, SteppedFields
    <2>3. CallOK(n)
        BY <2>2, <1>b, <1>2, <1>3 DEF CallOK, Stage, Keeps, Resolver, Signer, ResolveSteps,
           ResolvedSteps, UserSteps
    <2>4. Backed(n)
        BY <2>2, <1>1, CallAt DEF Typed, Backed, ResolvedSteps, Keeps
    <2>5. Move(c, n) /\ UNCHANGED mem
        BY <1>b, <1>1, <2>1 DEF ReadSession, Stepped
    <2> QED
        BY <2>3, <2>4, <2>5, <1>4, QuietTyped
<1>c. CASE /\ call.cookie # Null
           /\ mem.sessions[call.cookie.token] # Null
           /\ mem.users[mem.sessions[call.cookie.token].wallet] # Null
    <2>1. PICK t \in Tokens : t = call.cookie.token
        BY <1>c, <1>2, CookieTyped
    <2>2. mem.sessions[t].wallet \in Wallets
        BY <1>c, <2>1, SessionsTyped DEF Typed
    <2>3. Authenticated(c, mem, mem.sessions[t].wallet, t)
        BY <1>c, <1>1, <2>1 DEF ReadSession
    <2>4. /\ \E n : Move(c, n) /\ CallOK(n) /\ Plain(n)
          /\ mem' = mem \/ mem' = Dropped(mem, t)
        BY <2>2, <2>3, <1>1, <1>2, <1>3, AuthenticatedMoves
    <2>5. mem \in MemType
        BY DEF Typed, TypeOK
    <2>6. mem' \in MemType /\ mem'.users = mem.users
          /\ \A u \in Tokens : mem'.sessions[u] # Null => mem'.sessions[u] = mem.sessions[u]
        <3>1. CASE mem' = Dropped(mem, t)
            <4>1. /\ mem' \in MemType /\ mem'.users = mem.users
                  /\ mem'.sessions = [mem.sessions EXCEPT ![t] = Null]
                BY <3>1, <2>5, DroppedTyped
            <4>2. mem.sessions \in [Tokens -> Optional(Session)]
                BY <2>5 DEF MemType
            <4> QED
                BY <4>1, <4>2
        <3>2. CASE mem' = mem
            BY <3>2, <2>5
        <3> QED
            BY <3>1, <3>2, <2>4
    <2> QED
        BY <2>4, <2>6, <1>4, MemTyped
<1> QED
    BY <1>a, <1>b, <1>c

(* After an authentication from Maps m into which the session of t went.   *)
LEMMA AuthenticatedTyped ==
    ASSUME Typed, NEW c \in Calls, NEW call, call = calls[c], Resolver(call),
           call.step \in {"session", "lookup", "restored"},
           NEW m \in MemType, NEW wallet \in Wallets, NEW t \in Tokens,
           Authenticated(c, m, wallet, t),
           \A w \in Wallets : mem.users[w] # Null => m.users[w] # Null,
           \A u \in Tokens : m.sessions[u] # Null =>
             m.sessions[u] = mem.sessions[u] \/ m.users[m.sessions[u].wallet] # Null,
           UNCHANGED <<db, jar, page>>, past' \in PastType
    PROVE  Typed'
<1>1. CallOK(call)
    BY CallAt DEF Typed
<1>2. /\ \E n : Move(c, n) /\ CallOK(n) /\ Plain(n)
      /\ mem' = m \/ mem' = Dropped(m, t)
    BY <1>1, AuthenticatedMoves
<1>3. mem' \in MemType /\ mem'.users = m.users
      /\ \A u \in Tokens : mem'.sessions[u] # Null => mem'.sessions[u] = m.sessions[u]
    <2>1. CASE mem' = Dropped(m, t)
        <3>1. /\ mem' \in MemType /\ mem'.users = m.users
              /\ mem'.sessions = [m.sessions EXCEPT ![t] = Null]
            BY <2>1, DroppedTyped
        <3>2. m.sessions \in [Tokens -> Optional(Session)]
            BY DEF MemType
        <3> QED
            BY <3>1, <3>2
    <2>2. CASE mem' = m
        BY <2>2
    <2> QED
        BY <2>1, <2>2, <1>2
<1> QED
    BY <1>2, <1>3, MemTyped

LEMMA LookUpSessionTyped ==
    ASSUME Typed, NEW c \in Calls, LookUpSession(c), UNCHANGED <<jar, page>>
    PROVE  Typed'
<1>1. PICK call : call = calls[c]
    OBVIOUS
<1>2. CallOK(call) /\ call \in CallType /\ call.step = "lookup"
    BY <1>1, CallAt DEF Typed, LookUpSession
<1>3. Resolver(call) /\ call.cookie # Null /\ call.kind # "idle" /\ call.out # "ok"
    BY <1>2 DEF CallOK, Stage, Resolver, Doing, ResolveSteps, NameSteps
<1>4. UNCHANGED <<db, jar, page>> /\ past' \in PastType
    BY PastTyped DEF LookUpSession, Typed, Rows, Troubles
<1>5. PICK ck \in Cookie : ck = call.cookie
    BY <1>2, <1>3, CookieTyped
<1>6. ck.token \in Tokens /\ ck.wallet \in Wallets /\ ck.id \in Ids /\ ck.name \in Optional(Names)
    BY <1>2, <1>3, <1>5, CookieTyped
<1>a. CASE /\ db.sessions[ck.token] # Null
           /\ Move(c, Resolving(call, db.sessions[ck.token].wallet, "restored"))
           /\ UNCHANGED mem
    <2>1. PICK w \in Wallets : w = db.sessions[ck.token].wallet
        BY <1>a, <1>6 DEF Typed, TypeOK, DbType, Session, Optional
    <2>2. CallOK(Resolving(call, w, "restored")) /\ Plain(Resolving(call, w, "restored"))
        BY <1>2, <1>3, ResolvingOK
    <2> QED
        BY <1>a, <2>1, <2>2, <1>4, PlainBacked, QuietTyped
<1>b. ASSUME NEW user \in User,
             Authenticated(c, [mem EXCEPT !.users[ck.wallet] = user,
                                          !.sessions[ck.token] = [wallet |-> ck.wallet, id |-> user.id]],
                           ck.wallet, ck.token)
      PROVE  Typed'
    <2>1. PICK x \in Session : x = [wallet |-> ck.wallet, id |-> user.id]
        BY <1>6 DEF User, Session
    <2>2. PICK m : m = [mem EXCEPT !.users[ck.wallet] = user, !.sessions[ck.token] = x]
        OBVIOUS
    <2>3. mem.users \in [Wallets -> Optional(User)] /\ mem.sessions \in [Tokens -> Optional(Session)]
          /\ mem \in MemType
        BY DEF Typed, TypeOK, MemType
    <2>4. user \in Optional(User) /\ x \in Optional(Session) /\ user # Null
        BY NullApart DEF Optional
    <2>5. /\ m \in MemType
          /\ m.users = [mem.users EXCEPT ![ck.wallet] = user]
          /\ m.sessions = [mem.sessions EXCEPT ![ck.token] = x]
        BY <2>2, <2>3, <2>4, <1>6 DEF MemType
    <2>6. \A w \in Wallets : mem.users[w] # Null => m.users[w] # Null
        BY <2>5, <2>4, <2>3
    <2>7. \A u \in Tokens : m.sessions[u] # Null =>
             m.sessions[u] = mem.sessions[u] \/ m.users[m.sessions[u].wallet] # Null
        BY <2>5, <2>4, <2>3, <2>1, <1>6
    <2> QED
        BY <1>1, <1>2, <1>3, <1>4, <1>6, <1>b, <2>1, <2>2, <2>5, <2>6, <2>7, AuthenticatedTyped
<1>7. (IF mem.users[ck.wallet] # Null THEN mem.users[ck.wallet]
       ELSE [id |-> ck.id, name |-> ck.name]) \in User
    BY <1>6, UserMade DEF Typed, TypeOK, MemType, Optional
<1>8. \/ <1>a!1
      \/ \E user \in User :
           Authenticated(c, [mem EXCEPT !.users[ck.wallet] = user,
                                        !.sessions[ck.token] = [wallet |-> ck.wallet, id |-> user.id]],
                         ck.wallet, ck.token)
    BY <1>1, <1>5, <1>7 DEF LookUpSession
<1> QED
    BY <1>a, <1>b, <1>8

LEMMA ObjectTyped ==
    ASSUME Typed, NEW c \in Calls, calls[c].step \in ResolvedSteps
    PROVE  /\ Object(calls[c]) \in User /\ Object(calls[c]).id \in Ids
           /\ Object(calls[c]).name \in Optional(Names) /\ calls[c].who \in Wallets
           /\ mem.users[calls[c].who] # Null
<1>1. PICK call : call = calls[c]
    OBVIOUS
<1>2. CallOK(call) /\ Backed(call)
    BY <1>1, CallAt DEF Typed
<1>3. call.who \in Wallets /\ call.user \in User /\ mem.users[call.who] # Null
    BY <1>1, <1>2 DEF CallOK, CallType, UserSteps, ResolvedSteps, Optional, Backed
<1>4. mem.users[call.who] \in User
    BY <1>3 DEF Typed, TypeOK, MemType, Optional
<1>5. Object(call) \in User
    BY <1>3, <1>4 DEF Object
<1> QED
    BY <1>1, <1>3, <1>5 DEF User, Optional

LEMMA RestoreSessionTyped ==
    ASSUME Typed, NEW c \in Calls, RestoreSession(c), UNCHANGED <<jar, page>>
    PROVE  Typed'
<1>1. PICK call : call = calls[c]
    OBVIOUS
<1>2. CallOK(call) /\ call \in CallType /\ call.step = "restored"
    BY <1>1, CallAt DEF Typed, RestoreSession
<1>3. Resolver(call) /\ call.cookie # Null
    BY <1>2 DEF CallOK, Stage, Resolver, Doing, ResolveSteps, NameSteps
<1>4. UNCHANGED <<db, jar, page>> /\ past' \in PastType
    BY DEF RestoreSession, Typed, Rows
<1>5. PICK t \in Tokens : t = call.cookie.token
    BY <1>2, <1>3, CookieTyped
<1>6. Object(call).id \in Ids /\ call.who \in Wallets /\ mem.users[call.who] # Null
    BY <1>1, <1>2, ObjectTyped DEF ResolvedSteps
<1>7. PICK x \in Session : x = [wallet |-> call.who, id |-> Object(call).id]
    BY <1>6 DEF Session
<1>8. PICK m : m = [mem EXCEPT !.sessions[t] = x]
    OBVIOUS
<1>9. Authenticated(c, m, call.who, t)
    BY <1>1, <1>5, <1>7, <1>8 DEF RestoreSession
<1>10. mem \in MemType /\ mem.sessions \in [Tokens -> Optional(Session)]
    BY DEF Typed, TypeOK, MemType
<1>11. m \in MemType /\ m.users = mem.users /\ m.sessions = [mem.sessions EXCEPT ![t] = x]
    BY <1>8, <1>10, PlaceSession
<1>12. x.wallet = call.who
    BY <1>7
<1>13. \A u \in Tokens : m.sessions[u] # Null =>
             m.sessions[u] = mem.sessions[u] \/ m.users[m.sessions[u].wallet] # Null
    BY <1>10, <1>11, <1>12, <1>6
<1> QED
    BY <1>1, <1>2, <1>3, <1>4, <1>6, <1>9, <1>11, <1>13, AuthenticatedTyped

(* A new cookie, and the Maps with its session.                            *)
LEMMA OpenedTyped ==
    ASSUME Typed, NEW c \in Calls, NEW call, call = calls[c], call.step \in ResolvedSteps,
           Draw(Tokens) # {}, Opened(NewCookie(call))
    PROVE  /\ NewCookie(call) \in Cookie /\ NewCookie(call).wallet = call.who
           /\ mem' \in MemType /\ mem'.users = mem.users
           /\ \A t \in Tokens : mem'.sessions[t] # Null =>
                mem'.sessions[t] = mem.sessions[t] \/ mem'.users[mem'.sessions[t].wallet] # Null
<1>1. /\ Object(call).id \in Ids /\ Object(call).name \in Optional(Names)
      /\ call.who \in Wallets /\ mem.users[call.who] # Null
    BY ObjectTyped
<1>2. PICK t \in Tokens : t = CHOOSE x \in Draw(Tokens) : TRUE
    BY Drawn
<1>3. PICK ck : ck = NewCookie(call)
    OBVIOUS
<1>4. ck = [token |-> t, wallet |-> call.who, id |-> Object(call).id, name |-> Object(call).name]
    BY <1>2, <1>3 DEF NewCookie
<1>5. ck \in Cookie /\ ck.token = t /\ ck.wallet = call.who /\ ck.id = Object(call).id
    BY <1>1, <1>4 DEF Cookie, Optional
<1>6. PICK x \in Session : x = [wallet |-> ck.wallet, id |-> ck.id]
    BY <1>1, <1>5 DEF Session
<1>7. mem' = [mem EXCEPT !.sessions[t] = x]
    BY <1>3, <1>5, <1>6 DEF Opened
<1>8. mem \in MemType /\ mem.sessions \in [Tokens -> Optional(Session)]
    BY DEF Typed, TypeOK, MemType
<1>9. mem' \in MemType /\ mem'.users = mem.users /\ mem'.sessions = [mem.sessions EXCEPT ![t] = x]
    BY <1>7, <1>8, PlaceSession
<1>10. x.wallet = call.who
    BY <1>5, <1>6
<1>11. \A u \in Tokens : mem'.sessions[u] # Null =>
         mem'.sessions[u] = mem.sessions[u] \/ mem'.users[mem'.sessions[u].wallet] # Null
    BY <1>1, <1>8, <1>9, <1>10
<1> QED
    BY <1>3, <1>5, <1>9, <1>11

Bearing(call, cookie) == [call EXCEPT !.set = "put", !.new = cookie]
LEMMA BearingFields ==
    ASSUME NEW call \in CallType, NEW cookie \in Cookie, NEW n, n = Bearing(call, cookie)
    PROVE  /\ n \in CallType /\ n.kind = call.kind /\ n.step = call.step /\ n.w = call.w
           /\ n.who = call.who /\ n.cookie = call.cookie /\ n.want = call.want
           /\ n.nonce = call.nonce /\ n.after = call.after
<1>1. cookie \in Optional(Cookie) /\ "put" \in CookieOrders
    BY DEF Optional, CookieOrders
<1>2. n \in CallType
    BY <1>1 DEF CallType, Bearing
<1>3. /\ n.kind = call.kind /\ n.step = call.step /\ n.w = call.w
      /\ n.who = call.who /\ n.cookie = call.cookie /\ n.want = call.want
      /\ n.nonce = call.nonce /\ n.after = call.after
    BY DEF CallType, Bearing
<1> QED
    BY <1>2, <1>3

LEMMA BearingMore ==
    ASSUME NEW call \in CallType, NEW cookie, NEW n, n = Bearing(call, cookie)
    PROVE  /\ n.set = "put" /\ n.new = cookie /\ n.out = call.out /\ n.user = call.user
           /\ n.held = call.held
    BY DEF CallType, Bearing

LEMMA BearingOK ==
    ASSUME NEW call, CallOK(call), NEW cookie \in Cookie, cookie.wallet = call.w,
           call.kind \in AskingKinds, NEW n, n = Bearing(call, cookie)
    PROVE  CallOK(n) /\ n.kind = call.kind /\ n.step = call.step /\ n.w = call.w
           /\ n.set = "put" /\ n.out = call.out /\ n.nonce = call.nonce
<1>1. call \in CallType
    BY DEF CallOK
<1>2. /\ n \in CallType /\ n.kind = call.kind /\ n.step = call.step /\ n.w = call.w
      /\ n.who = call.who /\ n.cookie = call.cookie /\ n.want = call.want
      /\ n.nonce = call.nonce /\ n.after = call.after
    BY <1>1, BearingFields
<1>3. n.set = "put" /\ n.new = cookie /\ n.out = call.out /\ n.user = call.user
    BY <1>1, BearingMore
<1>4. Stage(n)
    BY <1>2, <1>3 DEF CallOK, Stage, Doing, Resolver, Signer
<1>5. cookie # Null
    BY NullApart
<1> QED
    BY <1>2, <1>3, <1>4, <1>5 DEF CallOK, Signer

LEMMA OpenSessionTyped ==
    ASSUME Typed, NEW c \in Calls, OpenSession(c), UNCHANGED <<jar, page>>
    PROVE  Typed'
<1>1. PICK call : call = calls[c]
    OBVIOUS
<1>2. CallOK(call) /\ call.step = "opened" /\ call \in CallType
    BY <1>1, CallAt DEF Typed, OpenSession
<1>3. Resolver(call) /\ call.who = call.w /\ call.who \in Wallets
    BY <1>2 DEF CallOK, Stage, Doing, ResolveSteps, NameSteps, ResolvedSteps
<1>4. call.kind \in {"check", "signin", "rename"} /\ call.kind \in AskingKinds /\ call.out # "ok"
    BY <1>2, <1>3 DEF Resolver, AskingKinds, CallOK
<1>5. UNCHANGED <<db, jar, page>> /\ past' \in PastType
    BY DEF OpenSession, Typed, Rows
<1>6. PICK cookie : cookie = NewCookie(call)
    OBVIOUS
<1>7. /\ cookie \in Cookie /\ cookie.wallet = call.w
      /\ mem' \in MemType /\ mem'.users = mem.users
      /\ \A t \in Tokens : mem'.sessions[t] # Null =>
           mem'.sessions[t] = mem.sessions[t] \/ mem'.users[mem'.sessions[t].wallet] # Null
    BY <1>1, <1>2, <1>3, <1>6, OpenedTyped DEF OpenSession, ResolvedSteps
<1>8. PICK n : n = Bearing(call, cookie)
    OBVIOUS
<1>9. CallOK(n) /\ n.kind = call.kind /\ n.w = call.w /\ n.set = "put" /\ n.out = call.out
      /\ n.step = call.step
    BY <1>2, <1>4, <1>7, <1>8, BearingOK
<1>10. \E x : Move(c, x) /\ CallOK(x) /\ Plain(x)
    <2>1. CASE call.kind = "rename"
        <3>1. CallOK(Resolving(n, call.who, "naming")) /\ Plain(Resolving(n, call.who, "naming"))
            BY <2>1, <1>2, <1>3, <1>4, <1>9, ResolvingOK
        <3>2. Move(c, Resolving(n, call.who, "naming"))
            BY <2>1, <1>1, <1>6, <1>8 DEF OpenSession, Bearing
        <3> QED
            BY <3>1, <3>2
    <2>2. CASE call.kind # "rename"
        <3>1. CallOK(Answered(n, "ok")) /\ Plain(Answered(n, "ok"))
            BY <2>2, <1>4, <1>9, AnsweredOK
        <3>2. Move(c, Answered(n, "ok"))
            BY <2>2, <1>1, <1>6, <1>8 DEF OpenSession, Bearing
        <3> QED
            BY <3>1, <3>2
    <2> QED
        BY <2>1, <2>2
<1> QED
    BY <1>5, <1>7, <1>10, MemTyped

LEMMA LogoutTyped ==
    ASSUME Typed, NEW c \in Calls, Logout(c), UNCHANGED <<jar, page>>
    PROVE  Typed'
<1>1. PICK call : call = calls[c]
    OBVIOUS
<1>2. CallOK(call) /\ call.step = "logout" /\ call \in CallType
    BY <1>1, CallAt DEF Typed, Logout
<1>3. call.kind = "signout"
    BY <1>2 DEF CallOK, Stage, Doing, ResolveSteps, NameSteps
<1>4. UNCHANGED <<db, jar, page>> /\ past' \in PastType
    BY DEF Logout, Typed, Rows
<1>5. PICK n : n = Cleared(call)
    OBVIOUS
<1>6. CallOK(n) /\ n.kind = call.kind
    BY <1>2, <1>5, ClearedOK
<1>7. CallOK(Answered(n, "ok")) /\ Plain(Answered(n, "ok"))
    BY <1>3, <1>6, AnsweredOK
<1>8. Move(c, Answered(n, "ok"))
    BY <1>1, <1>5 DEF Logout, Cleared
<1>9. mem' = mem \/ \E t \in Tokens : mem' = Dropped(mem, t)
    BY <1>1, <1>2, CookieTyped DEF Logout
<1>m. mem \in MemType /\ mem.sessions \in [Tokens -> Optional(Session)]
    BY DEF Typed, TypeOK, MemType
<1> DEFINE Kept == /\ mem' \in MemType /\ mem'.users = mem.users
                   /\ \A u \in Tokens : mem'.sessions[u] # Null => mem'.sessions[u] = mem.sessions[u]
<1>10. ASSUME NEW t \in Tokens, mem' = Dropped(mem, t) PROVE Kept
    BY <1>10, <1>m, DroppedTyped
<1>11. ASSUME mem' = mem PROVE Kept
    BY <1>11, <1>m
<1>12. Kept
    BY <1>9, <1>10, <1>11
<1> QED
    BY <1>4, <1>7, <1>8, <1>12, MemTyped

-----------------------------------------------------------------------------
(* The steps of challenges and signatures keep the types.                  *)
LEMMA NoncePlaced ==
    ASSUME NEW m \in MemType, NEW n \in Nonces, NEW r \in Optional(NonceRow)
    PROVE  /\ [m EXCEPT !.nonces[n] = r] \in MemType
           /\ [m EXCEPT !.nonces[n] = r].users = m.users
           /\ [m EXCEPT !.nonces[n] = r].sessions = m.sessions
    BY DEF MemType

(* A step that leaves users and sessions alone.                            *)
LEMMA NoncesTyped ==
    ASSUME Typed, NEW c \in Calls, NEW n, Move(c, n), CallOK(n), Plain(n),
           mem' \in MemType, mem'.users = mem.users, mem'.sessions = mem.sessions,
           UNCHANGED <<db, jar, page>>, past' \in PastType
    PROVE  Typed'
    BY MemTyped

LEMMA MakeNonceTyped ==
    ASSUME Typed, NEW c \in Calls, MakeNonce(c), UNCHANGED <<jar, page>>
    PROVE  Typed'
<1>1. PICK call : call = calls[c]
    OBVIOUS
<1>2. CallOK(call) /\ call.step = "challenge" /\ call \in CallType /\ Backed(call)
    BY <1>1, CallAt DEF Typed, MakeNonce
<1>3. call.kind = "challenge" /\ call.w \in Wallets
    BY <1>2 DEF CallOK, Stage, Doing, ResolveSteps, NameSteps
<1>4. UNCHANGED <<db, jar, page>> /\ past' \in PastType
    BY DEF MakeNonce, Typed, Rows
<1>5. PICK k \in Nonces : k = CHOOSE x \in Draw(Nonces) : TRUE
    BY Drawn DEF MakeNonce
<1>6. PICK r : r = FreshNonce(call)
    OBVIOUS
<1>7. r \in NonceRow /\ r \in Optional(NonceRow)
    BY <1>3, <1>6 DEF FreshNonce, NonceRow, Optional
<1>8. mem' = [mem EXCEPT !.nonces[k] = r]
    BY <1>1, <1>5, <1>6 DEF MakeNonce
<1>9. mem' \in MemType /\ mem'.users = mem.users /\ mem'.sessions = mem.sessions
    BY <1>7, <1>8, NoncePlaced DEF Typed, TypeOK
<1>10. PICK n : n = [call EXCEPT !.step = "putNonce", !.nonce = k]
    OBVIOUS
<1>11. n \in CallType
    <2>1. "putNonce" \in Steps /\ k \in Optional(Nonces)
        BY DEF Steps, Optional
    <2> QED
        BY <2>1, <1>2, <1>10 DEF CallType
<1>12. /\ n.kind = call.kind /\ n.step = "putNonce" /\ n.w = call.w /\ n.want = call.want
       /\ n.set = call.set /\ n.new = call.new /\ n.out = call.out /\ n.nonce = k
    BY <1>2, <1>10 DEF CallType
<1>13. n.held = call.held /\ n.who = call.who
    BY <1>2, <1>10 DEF CallType
<1>14. CallOK(n)
    BY <1>2, <1>3, <1>11, <1>12 DEF CallOK, Stage, Signer, ResolveSteps, ResolvedSteps, UserSteps
<1>p. Backed(n)'
    BY <1>2, <1>12, <1>13, <1>9 DEF Backed, ResolvedSteps
<1>16. Move(c, n)
    BY <1>1, <1>5, <1>10 DEF MakeNonce
<1>17. Grows
    BY <1>4, <1>9 DEF Grows
<1>18. CallsOK'
    BY <1>14, <1>p, <1>16, <1>17, MoveTyped DEF Typed
<1> QED
    BY <1>4, <1>9, <1>18 DEF Typed, TypeOK, Rows

LEMMA PutNonceTyped ==
    ASSUME Typed, NEW c \in Calls, PutNonce(c), UNCHANGED <<jar, page>>
    PROVE  Typed'
<1>1. PICK call : call = calls[c]
    OBVIOUS
<1>2. CallOK(call) /\ call.step = "putNonce" /\ call \in CallType
    BY <1>1, CallAt DEF Typed, PutNonce
<1>3. call.kind = "challenge" /\ call.w \in Wallets /\ call.nonce \in Nonces
    BY <1>2 DEF CallOK, Stage, Doing, ResolveSteps, NameSteps
<1>4. UNCHANGED <<mem, jar, page>> /\ past' \in PastType
    BY PastTyped DEF PutNonce, Typed, Rows, Troubles
<1>5. CallOK(Answered(call, "ok")) /\ Plain(Answered(call, "ok"))
    BY <1>2, <1>3, AnsweredOK
<1>6. Move(c, Answered(call, "ok"))
    BY <1>1 DEF PutNonce, Answer
<1>7. db' \in DbType /\ db'.profiles = db.profiles /\ db'.accounts = db.accounts
    <2>1. call.w \in Optional(Wallets)
        BY <1>3 DEF Optional
    <2> QED
        BY <1>1, <1>3, <2>1 DEF PutNonce, Typed, TypeOK, DbType
<1> QED
    BY <1>4, <1>5, <1>6, <1>7, PlainBacked, DbTyped DEF Typed, Rows

(* A nonce is used, from Maps that differ from the present in nonces.      *)
LEMMA UseNonceTyped ==
    ASSUME Typed, NEW c \in Calls, NEW call, call = calls[c], Signer(call),
           call.step \in {"verify", "loadNonce"},
           NEW m \in MemType, m.users = mem.users, m.sessions = mem.sessions,
           UseNonce(c, m), UNCHANGED <<db, jar, page>>
    PROVE  Typed'
<1>1. CallOK(call) /\ call \in CallType
    BY CallAt DEF Typed
<1>2. /\ call.nonce \in Nonces /\ call.w \in Wallets /\ call.kind # "idle" /\ call.out # "ok"
      /\ call.kind # "challenge"
    BY <1>1 DEF CallOK, Signer
<1>3. PICK k \in Nonces : k = call.nonce
    BY <1>2
<1>a. CASE Unusable(m.nonces[k])
    <2>1. Move(c, Answered(call, "no")) /\ mem' = m /\ past' = past
        BY <1>a, <1>3 DEF UseNonce, Answer
    <2>2. CallOK(Answered(call, "no")) /\ Plain(Answered(call, "no"))
        BY <1>1, <1>2, AnsweredOK
    <2>3. past' \in PastType
        BY <2>1 DEF Typed, Rows
    <2> QED
        BY <2>1, <2>2, <2>3, NoncesTyped
<1>b. CASE ~Unusable(m.nonces[k])
    <2>1. /\ Move(c, Resolving(call, call.w, "signed"))
          /\ mem' = [m EXCEPT !.nonces[k].used = TRUE]
          /\ past' = [past EXCEPT !.opened[k] = IF @ = 2 THEN 2 ELSE @ + 1]
        BY <1>b, <1>3 DEF UseNonce
    <2>2. CallOK(Resolving(call, call.w, "signed")) /\ Plain(Resolving(call, call.w, "signed"))
        BY <1>1, <1>2, ResolvingOK DEF Signer
    <2>3. past' \in PastType
        BY <2>1 DEF Typed, Rows, PastType
    <2>4. PICK r : r = [m.nonces[k] EXCEPT !.used = TRUE]
        OBVIOUS
    <2>5. m.nonces[k] \in NonceRow
        BY <1>b DEF Unusable, MemType, Optional
    <2>6. r \in NonceRow /\ r \in Optional(NonceRow)
        BY <2>4, <2>5 DEF NonceRow, Optional
    <2>7. mem' = [m EXCEPT !.nonces[k] = r]
        BY <2>1, <2>4
    <2>8. mem' \in MemType /\ mem'.users = mem.users /\ mem'.sessions = mem.sessions
        BY <2>6, <2>7, NoncePlaced
    <2> QED
        BY <2>1, <2>2, <2>3, <2>8, NoncesTyped
<1> QED
    BY <1>a, <1>b

LEMMA CheckNonceTyped ==
    ASSUME Typed, NEW c \in Calls, CheckNonce(c), UNCHANGED <<jar, page>>
    PROVE  Typed'
<1>1. PICK call : call = calls[c]
    OBVIOUS
<1>2. CallOK(call) /\ call.step = "verify" /\ call \in CallType /\ Backed(call)
    BY <1>1, CallAt DEF Typed, CheckNonce
<1>3. Signer(call)
    BY <1>2 DEF CallOK, Stage, Doing, ResolveSteps, NameSteps
<1>a. CASE UseNonce(c, mem)
    BY <1>a, <1>1, <1>2, <1>3, UseNonceTyped DEF CheckNonce, Typed, TypeOK
<1>b. CASE Move(c, [call EXCEPT !.step = "loadNonce"]) /\ UNCHANGED <<mem, past>>
    <2>1. PICK n : n = Stepped(call, "loadNonce")
        OBVIOUS
    <2>2. "loadNonce" \in Steps
        BY DEF Steps
    <2>3. n \in CallType /\ Keeps(n, call) /\ n.step = "loadNonce" /\ n.user = call.user
          /\ n.held = call.held
        BY <1>2, <2>1, <2>2, SteppedFields
    <2>4. CallOK(n)
        BY <2>3, <1>2, <1>3 DEF CallOK, Stage, Keeps, Signer, ResolveSteps,
           ResolvedSteps, UserSteps
    <2>5. Backed(n)
        BY <2>3, <1>2 DEF Backed, ResolvedSteps, Keeps
    <2>6. Move(c, n) /\ UNCHANGED <<mem, db, jar, page>> /\ past' \in PastType
        BY <1>b, <2>1 DEF CheckNonce, Stepped, Typed, Rows
    <2> QED
        BY <2>4, <2>5, <2>6, QuietTyped
<1> QED
    BY <1>a, <1>b, <1>1 DEF CheckNonce

LEMMA LoadNonceTyped ==
    ASSUME Typed, NEW c \in Calls, LoadNonce(c), UNCHANGED <<jar, page>>
    PROVE  Typed'
<1>1. PICK call : call = calls[c]
    OBVIOUS
<1>2. CallOK(call) /\ call.step = "loadNonce" /\ call \in CallType
    BY <1>1, CallAt DEF Typed, LoadNonce
<1>3. Signer(call)
    BY <1>2 DEF CallOK, Stage, Doing, ResolveSteps, NameSteps
<1>4. call.nonce \in Nonces /\ call.kind # "idle" /\ call.kind # "challenge"
    BY <1>2, <1>3 DEF CallOK, Signer
<1>5. PICK k \in Nonces : k = call.nonce
    BY <1>4
<1>6. UNCHANGED <<db, jar, page>>
    BY DEF LoadNonce
<1>a. CASE db.nonces[k] = Null /\ UseNonce(c, mem)
    BY <1>a, <1>1, <1>2, <1>3, <1>6, UseNonceTyped DEF Typed, TypeOK
<1>b. CASE db.nonces[k] # Null
           /\ UseNonce(c, [mem EXCEPT !.nonces[k] = [wallet |-> db.nonces[k], used |-> FALSE]])
    <2>1. PICK r : r = [wallet |-> db.nonces[k], used |-> FALSE]
        OBVIOUS
    <2>2. r \in Optional(NonceRow)
        BY <1>b, <2>1 DEF Typed, TypeOK, DbType, Optional, NonceRow
    <2>3. PICK m : m = [mem EXCEPT !.nonces[k] = r]
        OBVIOUS
    <2>4. m \in MemType /\ m.users = mem.users /\ m.sessions = mem.sessions
        BY <2>2, <2>3, NoncePlaced DEF Typed, TypeOK
    <2>5. UseNonce(c, m)
        BY <1>b, <2>1, <2>3
    <2> QED
        BY <2>4, <2>5, <1>1, <1>2, <1>3, <1>6, UseNonceTyped
<1>c. CASE Trouble("read") /\ Answer(c, "no") /\ UNCHANGED mem
    <2>1. CallOK(Answered(call, "no")) /\ Plain(Answered(call, "no"))
        BY <1>2, <1>4, AnsweredOK
    <2>2. Move(c, Answered(call, "no")) /\ past' \in PastType
        BY <1>c, <1>1, PastTyped DEF Answer, Typed, Rows, Troubles
    <2> QED
        BY <1>c, <1>6, <2>1, <2>2, PlainBacked, QuietTyped
<1>7. (k # Null /\ [wallet |-> db.nonces[k], used |-> FALSE] # Null) \/ db.nonces[k] = Null
    <2>1. db.nonces[k] # Null => [wallet |-> db.nonces[k], used |-> FALSE] \in NonceRow
        BY DEF Typed, TypeOK, DbType, Optional, NonceRow
    <2> QED
        BY <2>1, NullApart
<1> QED
    BY <1>a, <1>b, <1>c, <1>1, <1>5, <1>7 DEF LoadNonce

(* A step of no request: the Maps and tables keep users and profiles.      *)
LEMMA AsideTyped ==
    ASSUME Typed, UNCHANGED <<calls, past, jar, page>>, mem' \in MemType, db' \in DbType,
           mem'.users = mem.users, mem'.sessions = mem.sessions,
           db'.profiles = db.profiles, db'.accounts = db.accounts
    PROVE  Typed'
<1>1. Grows
    BY DEF Grows
<1>2. \A c \in Calls : Backed(calls[c])'
    BY <1>1, BackedGrows DEF Typed, CallsOK
<1>3. CallsOK'
    BY <1>2 DEF Typed, CallsOK
<1> QED
    BY <1>3 DEF Typed, TypeOK, Rows

LEMMA ExpireNonceTyped ==
    ASSUME Typed, NEW k \in Nonces, ExpireNonce(k), UNCHANGED <<jar, page>>
    PROVE  Typed'
<1>1. PICK r : r = IF mem.nonces[k] = Null THEN Null ELSE [mem.nonces[k] EXCEPT !.used = TRUE]
    OBVIOUS
<1>2. mem.nonces[k] = Null \/ mem.nonces[k] \in NonceRow
    BY DEF Typed, TypeOK, MemType, Optional
<1>3. r \in Optional(NonceRow)
    BY <1>1, <1>2 DEF NonceRow, Optional
<1>4. mem' = [mem EXCEPT !.nonces[k] = r]
    BY <1>1 DEF ExpireNonce
<1>5. mem' \in MemType /\ mem'.users = mem.users /\ mem'.sessions = mem.sessions
    BY <1>3, <1>4, NoncePlaced DEF Typed, TypeOK
<1>6. db' \in DbType /\ db'.profiles = db.profiles /\ db'.accounts = db.accounts
    BY Maybe DEF ExpireNonce, Typed, TypeOK, DbType
<1> QED
    BY <1>5, <1>6, AsideTyped DEF ExpireNonce

LEMMA RevokeTyped ==
    ASSUME Typed, NEW t \in Tokens, Revoke(t), UNCHANGED <<jar, page>>
    PROVE  Typed'
<1>1. db' \in DbType /\ db'.profiles = db.profiles /\ db'.accounts = db.accounts
    BY Maybe DEF Revoke, Typed, TypeOK, DbType
<1> QED
    BY <1>1, AsideTyped DEF Revoke, Typed, TypeOK

LEMMA SignSessionTyped ==
    ASSUME Typed, NEW c \in Calls, SignSession(c), UNCHANGED <<jar, page>>
    PROVE  Typed'
<1>1. PICK call : call = calls[c]
    OBVIOUS
<1>2. CallOK(call) /\ call.step = "signed" /\ call \in CallType /\ Backed(call)
    BY <1>1, CallAt DEF Typed, SignSession
<1>3. Signer(call) /\ call.who = call.w /\ call.who \in Wallets
    BY <1>2 DEF CallOK, Stage, Doing, ResolveSteps, NameSteps, ResolvedSteps
<1>4. call.kind \in AskingKinds /\ call.out # "ok"
    BY <1>2, <1>3 DEF Signer, AskingKinds, CallOK
<1>5. UNCHANGED <<db, jar, page>> /\ past' \in PastType
    BY DEF SignSession, Typed, Rows
<1>6. PICK cookie : cookie = NewCookie(call)
    OBVIOUS
<1>7. /\ cookie \in Cookie /\ cookie.wallet = call.w
      /\ mem' \in MemType /\ mem'.users = mem.users
      /\ \A t \in Tokens : mem'.sessions[t] # Null =>
           mem'.sessions[t] = mem.sessions[t] \/ mem'.users[mem'.sessions[t].wallet] # Null
    BY <1>1, <1>2, <1>3, <1>6, OpenedTyped DEF SignSession, ResolvedSteps
<1>8. PICK n : n = Bearing(call, cookie)
    OBVIOUS
<1>9. CallOK(n) /\ n.kind = call.kind /\ n.w = call.w /\ n.set = "put" /\ n.out = call.out
      /\ n.step = call.step
    BY <1>2, <1>4, <1>7, <1>8, BearingOK
<1>h. n.user = call.user /\ n.held = call.held /\ n.who = call.who /\ n \in CallType
    BY <1>2, <1>7, <1>8, BearingFields, BearingMore
<1>10. PICK x : x = Stepped(n, "putSession")
    OBVIOUS
<1>11. x \in CallType /\ Keeps(x, n) /\ x.step = "putSession" /\ x.user = n.user
       /\ x.held = n.held
    <2>1. "putSession" \in Steps
        BY DEF Steps
    <2> QED
        BY <2>1, <1>h, <1>10, SteppedFields
<1>12. CallOK(x)
    BY <1>2, <1>4, <1>9, <1>11, <1>3 DEF CallOK, Stage, Keeps, Signer, ResolveSteps, ResolvedSteps, UserSteps
<1>13. Move(c, x)
    BY <1>1, <1>6, <1>8, <1>10 DEF SignSession, Bearing, Stepped
<1>14. Grows
    BY <1>5, <1>7 DEF Grows
<1>15. Backed(x)'
    BY <1>2, <1>7, <1>h, <1>11 DEF Backed, ResolvedSteps, Keeps
<1>16. CallsOK'
    BY <1>12, <1>13, <1>14, <1>15, MoveTyped DEF Typed
<1>17. \A t \in Tokens : mem'.sessions[t] # Null => mem'.users[mem'.sessions[t].wallet] # Null
    BY <1>7, SessionsTyped DEF Typed, Rows
<1> QED
    BY <1>5, <1>7, <1>16, <1>17 DEF Typed, TypeOK, Rows

LEMMA PutSessionTyped ==
    ASSUME Typed, NEW c \in Calls, PutSession(c), UNCHANGED <<jar, page>>
    PROVE  Typed'
<1>1. PICK call : call = calls[c]
    OBVIOUS
<1>2. CallOK(call) /\ call.step = "putSession" /\ call \in CallType
    BY <1>1, CallAt DEF Typed, PutSession
<1>3. Signer(call) /\ call.set = "put" /\ call.kind # "idle" /\ call.kind # "challenge"
    BY <1>2 DEF CallOK, Stage, Doing, ResolveSteps, NameSteps, Signer
<1>4. call.new \in Cookie
    BY <1>2, <1>3 DEF CallOK, CallType, Optional
<1>5. CallOK(Answered(call, "ok")) /\ Plain(Answered(call, "ok"))
    BY <1>2, <1>3, AnsweredOK
<1>6. Move(c, Answered(call, "ok")) /\ UNCHANGED <<mem, jar, page>> /\ past' \in PastType
    BY <1>1, PastTyped DEF PutSession, Answer, Typed, Rows, Troubles
<1>7. PICK ck \in Cookie : ck = call.new
    BY <1>4
<1>8. PICK x : x = [wallet |-> ck.wallet, id |-> ck.id]
    OBVIOUS
<1>9. x \in Optional(Session) /\ ck.token \in Tokens
    BY <1>8 DEF Cookie, Session, Optional
<1>10. db' = db \/ db' = [db EXCEPT !.sessions[ck.token] = x]
    BY <1>1, <1>7, <1>8 DEF PutSession
<1>11. db' \in DbType /\ db'.profiles = db.profiles /\ db'.accounts = db.accounts
    <2>1. CASE db' = db
        BY <2>1 DEF Typed, TypeOK
    <2>2. CASE db' = [db EXCEPT !.sessions[ck.token] = x]
        BY <2>2, <1>9 DEF Typed, TypeOK, DbType
    <2> QED
        BY <2>1, <2>2, <1>10
<1> QED
    BY <1>5, <1>6, <1>11, PlainBacked, DbTyped DEF Typed, Rows

-----------------------------------------------------------------------------
(* The steps of names keep the types.                                      *)
Refused(call, out) == [call EXCEPT !.step = "conflict", !.out = out]

LEMMA CheckDirectoryTyped ==
    ASSUME Typed, NEW c \in Calls, CheckDirectory(c), UNCHANGED <<jar, page>>
    PROVE  Typed'
<1>1. PICK call : call = calls[c]
    OBVIOUS
<1>2. CallOK(call) /\ call.step = "naming" /\ call \in CallType /\ Backed(call)
    BY <1>1, CallAt DEF Typed, CheckDirectory
<1>3. call.kind \in {"rename", "elsewhere"} /\ call.who = call.w
    BY <1>2 DEF CallOK, Stage, Doing, ResolveSteps, NameSteps
<1>4. UNCHANGED <<mem, db, jar, page>> /\ past' \in PastType
    BY DEF CheckDirectory, Typed, Rows
<1>a. CASE Answer(c, "no")
    <2>1. CallOK(Answered(call, "no")) /\ Plain(Answered(call, "no"))
        BY <1>2, <1>3, AnsweredOK
    <2> QED
        BY <1>a, <1>1, <1>4, <2>1, PlainBacked, QuietTyped DEF Answer
<1>b. ASSUME NEW out \in {"none", "no"}, Move(c, Refused(call, out))
      PROVE  Typed'
    <2>1. PICK n : n = Refused(call, out)
        OBVIOUS
    <2>2. "conflict" \in Steps /\ out \in Outcomes
        BY DEF Steps, Outcomes
    <2>3. n \in CallType
        BY <1>2, <2>1, <2>2 DEF CallType, Refused
    <2>4. /\ n.kind = call.kind /\ n.w = call.w /\ n.who = call.who /\ n.cookie = call.cookie
          /\ n.want = call.want /\ n.nonce = call.nonce /\ n.set = call.set /\ n.new = call.new
        BY <1>2, <2>1 DEF CallType, Refused
    <2>5. n.step = "conflict" /\ n.out = out /\ n.user = call.user /\ n.held = call.held
        BY <1>2, <2>1 DEF CallType, Refused
    <2>6. CallOK(n)
        BY <1>2, <1>3, <2>3, <2>4, <2>5 DEF CallOK, Stage, NameSteps, Signer, ResolveSteps,
           ResolvedSteps, UserSteps
    <2>7. Backed(n)
        BY <1>2, <2>4, <2>5 DEF Backed, ResolvedSteps
    <2> QED
        BY <1>b, <1>4, <2>1, <2>6, <2>7, QuietTyped
<1>5. \/ Answer(c, "no")
      \/ \E out \in {"none", "no"} : Move(c, Refused(call, out))
    BY <1>1 DEF CheckDirectory, Refused
<1> QED
    BY <1>a, <1>b, <1>5

LEMMA SaveNameTyped ==
    ASSUME Typed, NEW c \in Calls, SaveName(c), UNCHANGED <<jar, page>>
    PROVE  Typed'
<1>1. PICK call : call = calls[c]
    OBVIOUS
<1>2. CallOK(call) /\ call.step = "saveName" /\ call \in CallType
    BY <1>1, CallAt DEF Typed, SaveName
<1>3. call.kind \in {"rename", "elsewhere"}
    BY <1>2 DEF CallOK, Stage, Doing, ResolveSteps
<1>4. call.want \in Optional(Names) /\ call.user \in User /\ call.user.id \in Ids
    <2>1. call.want \in Optional(Names) /\ call.user \in User
        BY <1>2, <1>3 DEF CallOK, UserSteps, CallType, Optional
    <2> QED
        BY <2>1 DEF User
<1>5. CallOK(Answered(call, "ok")) /\ Plain(Answered(call, "ok"))
    BY <1>2, <1>3, AnsweredOK
<1>6. Move(c, Answered(call, "ok")) /\ UNCHANGED <<mem, jar, page>> /\ past' \in PastType
    BY <1>1, PastTyped DEF SaveName, Answer, Typed, Rows, Troubles
<1>7. /\ db' \in DbType /\ db'.accounts = db.accounts
      /\ \A j \in Ids : db.profiles[j] # Null => db'.profiles[j] # Null
    <2>1. CASE db' = [db EXCEPT !.profiles = ProfilesWith(call.user.id, call.want)]
        <3>1. PICK p : p = ProfilesWith(call.user.id, call.want)
            OBVIOUS
        <3>2. /\ p \in [Ids -> Optional(Profile)]
              /\ \A j \in Ids : db.profiles[j] # Null => p[j] # Null
            BY <3>1, <1>4, ProfilesKept DEF Typed
        <3> QED
            BY <2>1, <3>1, <3>2 DEF Typed, TypeOK, DbType
    <2>2. CASE UNCHANGED db
        BY <2>2 DEF Typed, TypeOK
    <2> QED
        BY <2>1, <2>2, <1>1 DEF SaveName
<1>8. \A w \in Wallets : db.accounts[w] # Null => db.accounts[w] \in Ids
    BY DEF Typed, TypeOK, DbType, Optional
<1>9. \A w \in Wallets : db'.accounts[w] # Null => db'.profiles[db'.accounts[w]] # Null
    BY <1>7, <1>8 DEF Typed, Rows
<1> QED
    BY <1>5, <1>6, <1>7, <1>9, PlainBacked, DbTyped

NamedUser(call, user) == [call EXCEPT !.step = "saveName", !.user = user]

LEMMA ClaimParts ==
    ASSUME TypeOK, NEW c \in Calls, NEW old, NEW trouble, Claim(c, old, trouble),
           NEW call, call = calls[c], call.who \in Wallets,
           NEW user, user = [old EXCEPT !.name = call.want]
    PROVE  /\ Move(c, NamedUser(call, user))
           /\ mem'.sessions = mem.sessions /\ mem'.nonces = mem.nonces
           /\ mem'.users = IF call.held THEN [mem.users EXCEPT ![call.who] = user] ELSE mem.users
    BY DEF Claim, NamedUser, TypeOK, MemType

LEMMA ClaimDirectory ==
    ASSUME TypeOK, NEW c \in Calls, NEW old, NEW trouble, Claim(c, old, trouble)
    PROVE  mem'.directory = [n \in Names |->
             IF n = calls[c].want THEN calls[c].who
             ELSE IF n = old.name THEN Null ELSE mem.directory[n]]
    BY DEF Claim, TypeOK, MemType

LEMMA ClaimTyped ==
    ASSUME Typed, NEW c \in Calls, calls[c].step = "conflict",
           NEW trouble \in SUBSET {"read"}, Claim(c, Object(calls[c]), trouble),
           UNCHANGED <<db, jar, page>>
    PROVE  Typed'
<1>1. PICK call : call = calls[c]
    OBVIOUS
<1>2. CallOK(call) /\ Backed(call) /\ call.step = "conflict" /\ call \in CallType
    BY <1>1, CallAt DEF Typed
<1>3. call.kind \in {"rename", "elsewhere"} /\ call.who = call.w /\ call.out # "ok"
    BY <1>2 DEF CallOK, Stage, Doing, ResolveSteps
<1>4. call.want \in Names /\ call.who \in Wallets
    BY <1>2, <1>3 DEF CallOK, ResolvedSteps
<1>5. PICK old \in User : old = Object(calls[c])
    BY <1>1, <1>2, ObjectTyped DEF ResolvedSteps
<1>6. PICK user : user = [old EXCEPT !.name = call.want]
    OBVIOUS
<1>7. user \in User /\ user # Null
    <2>1. user \in User
        BY <1>4, <1>6 DEF User
    <2> QED
        BY <2>1, NullApart
<1>8. /\ Move(c, NamedUser(call, user))
      /\ mem'.sessions = mem.sessions /\ mem'.nonces = mem.nonces
      /\ mem'.users = IF call.held THEN [mem.users EXCEPT ![call.who] = user] ELSE mem.users
    BY <1>1, <1>4, <1>5, <1>6, ClaimParts DEF Typed
<1>9. mem' \in MemType
    <2> DEFINE dir == [n \in Names |-> IF n = call.want THEN call.who
                                       ELSE IF n = old.name THEN Null ELSE mem.directory[n]]
               us == IF call.held THEN [mem.users EXCEPT ![call.who] = user] ELSE mem.users
    <2>1. dir \in [Names -> Optional(Wallets)]
        BY <1>4, Maybe DEF Typed, TypeOK, MemType
    <2>2. us \in [Wallets -> Optional(User)]
        BY <1>4, <1>7, Maybe DEF Typed, TypeOK, MemType
    <2>3. mem' = [mem EXCEPT !.directory = dir, !.users = us]
        BY <1>1, <1>5, <1>6 DEF Claim
    <2> HIDE DEF dir, us
    <2> QED
        BY <2>1, <2>2, <2>3 DEF Typed, TypeOK, MemType
<1>10. past' \in PastType
    BY <1>5 DEF Claim, Disturbed, Typed, Rows, PastType, Troubles
<1>11. mem.users \in [Wallets -> Optional(User)]
    BY DEF Typed, TypeOK, MemType
<1>12. Grows
    BY <1>7, <1>8, <1>11 DEF Grows
<1>13. PICK n : n = NamedUser(call, user)
    OBVIOUS
<1>14. n \in CallType
    <2>1. "saveName" \in Steps /\ user \in Optional(User)
        BY <1>7, Maybe DEF Steps
    <2> QED
        BY <2>1, <1>2, <1>13 DEF CallType, NamedUser
<1>15. Keeps(n, call) /\ n.step = "saveName" /\ n.user = user /\ n.held = call.held
    BY <1>2, <1>13 DEF CallType, Keeps, NamedUser
<1>16. CallOK(n)
    BY <1>2, <1>3, <1>4, <1>7, <1>14, <1>15 DEF CallOK, Stage, NameSteps, Signer, Keeps, ResolveSteps,
       ResolvedSteps, UserSteps
<1>17. mem.users[call.who] # Null
    BY <1>2 DEF Backed, ResolvedSteps
<1>18. Backed(n)'
    BY <1>4, <1>12, <1>15, <1>17 DEF Backed, Keeps, Grows
<1>19. CallsOK'
    BY <1>8, <1>12, <1>13, <1>16, <1>18, MoveTyped DEF Typed
<1>20. \A t \in Tokens : mem'.sessions[t] # Null => mem'.users[mem'.sessions[t].wallet] # Null
    BY <1>8, <1>12, SessionsTyped DEF Typed, Rows, Grows
<1> QED
    BY <1>9, <1>10, <1>19, <1>20 DEF Typed, TypeOK, Rows

LEMMA ClaimNameTyped ==
    ASSUME Typed, NEW c \in Calls, ClaimName(c), UNCHANGED <<jar, page>>
    PROVE  Typed'
<1>1. PICK call : call = calls[c]
    OBVIOUS
<1>2. CallOK(call) /\ call.step = "conflict" /\ call \in CallType
    BY <1>1, CallAt DEF Typed, ClaimName
<1>3. call.kind \in {"rename", "elsewhere"}
    BY <1>2 DEF CallOK, Stage, Doing, ResolveSteps
<1>4. UNCHANGED <<db, jar, page>>
    BY DEF ClaimName
<1>a. CASE Answer(c, "no") /\ UNCHANGED <<mem, past>>
    <2>1. CallOK(Answered(call, "no")) /\ Plain(Answered(call, "no"))
        BY <1>2, <1>3, AnsweredOK
    <2>2. Move(c, Answered(call, "no")) /\ past' \in PastType
        BY <1>a, <1>1 DEF Answer, Typed, Rows
    <2> QED
        BY <1>a, <1>4, <2>1, <2>2, PlainBacked, QuietTyped
<1>b. ASSUME NEW trouble \in SUBSET {"read"}, Claim(c, Object(calls[c]), trouble)
      PROVE  Typed'
    BY <1>b, <1>1, <1>2, <1>4, ClaimTyped
<1>5. \/ Answer(c, "no") /\ UNCHANGED <<mem, past>>
      \/ Claim(c, Object(calls[c]), {})
      \/ Claim(c, Object(calls[c]), {"read"})
    BY DEF ClaimName
<1> QED
    BY <1>a, <1>b, <1>5

-----------------------------------------------------------------------------
(* A restart keeps the types.                                              *)
LEMMA EmptyTyped ==
    /\ EmptyProcess \in MemType
    /\ \A t \in Tokens : EmptyProcess.sessions[t] = Null
    /\ \A w \in Wallets : EmptyProcess.users[w] = Null
    /\ \A n \in Nonces : EmptyProcess.nonces[n] = Null
    /\ \A n \in Names : EmptyProcess.directory[n] = Null
    BY Maybe DEF EmptyProcess, MemType, Optional

Keeping(call) == [call EXCEPT !.set = "keep"]

(* What becomes of a call that the process was serving.                    *)
LEMMA LostOK ==
    ASSUME NEW call, CallOK(call), call.step \in ServerSteps,
           NEW n, n = Answered(Keeping(call), "lost")
    PROVE  CallOK(n) /\ Plain(n)
<1>1. call \in CallType
    BY DEF CallOK
<1>2. PICK k : k = Keeping(call)
    OBVIOUS
<1>3. k \in CallType
    BY <1>1, <1>2 DEF CallType, Keeping, CookieOrders
<1>4. /\ k.kind = call.kind /\ k.w = call.w /\ k.nonce = call.nonce /\ k.set = "keep"
      /\ k.new = call.new
    BY <1>1, <1>2 DEF CallType, Keeping
<1>5. /\ n \in CallType
      /\ n.kind = k.kind /\ n.step = "reply" /\ n.w = k.w /\ n.nonce = k.nonce
      /\ n.set = k.set /\ n.new = k.new /\ n.out = "lost"
    <2>1. "lost" \in Outcomes
        BY DEF Outcomes
    <2> QED
        BY <1>2, <1>3, <2>1, AnsweredFields
<1>6. n.held = FALSE
    BY <1>2, AnsweredBlank
<1>7. call.kind # "idle"
    BY DEF CallOK, ServerSteps
<1>8. CallOK(n)
    BY <1>4, <1>5, <1>7 DEF CallOK, Stage, Signer, ResolveSteps, ResolvedSteps, UserSteps
<1>9. Plain(n)
    BY <1>5, <1>6 DEF Plain, UserSteps
<1> QED
    BY <1>8, <1>9

LEMMA RestartDb ==
    ASSUME Typed, Restart
    PROVE  /\ db' \in DbType
           /\ \A w \in Wallets : db'.accounts[w] # Null => db'.profiles[db'.accounts[w]] # Null
<1>0. db \in DbType /\ \A w \in Wallets : db.accounts[w] # Null => db.accounts[w] \in Ids
    BY DEF Typed, TypeOK, DbType, Optional
<1>1. ASSUME NEW i \in Ids, NEW name \in Optional(Names),
             db' = [db EXCEPT !.profiles = ProfilesWith(i, name)]
      PROVE  /\ db' \in DbType
             /\ \A w \in Wallets : db'.accounts[w] # Null => db'.profiles[db'.accounts[w]] # Null
    <2>1. PICK p : p = ProfilesWith(i, name)
        OBVIOUS
    <2>2. /\ p \in [Ids -> Optional(Profile)]
          /\ \A j \in Ids : db.profiles[j] # Null => p[j] # Null
        BY <2>1, ProfilesKept DEF Typed
    <2>3. db' \in DbType /\ db'.profiles = p /\ db'.accounts = db.accounts
        BY <1>1, <2>1, <2>2 DEF Typed, TypeOK, DbType
    <2> QED
        BY <2>2, <2>3, <1>0 DEF Typed, Rows
<1>2. ASSUME NEW call, call.who \in Wallets, call.user.id \in Ids,
             db' = [db EXCEPT !.accounts = AccountsWith(call)]
      PROVE  /\ db' \in DbType
             /\ \A w \in Wallets : db'.accounts[w] # Null => db'.profiles[db'.accounts[w]] # Null
    <2>1. PICK p : p = AccountsWith(call)
        OBVIOUS
    <2>2. /\ p \in [Wallets -> Optional(Ids)]
          /\ \A w \in Wallets : p[w] # Null => db.profiles[p[w]] # Null
        BY <1>2, <2>1, AccountsKept DEF Typed
    <2>3. db' \in DbType /\ db'.profiles = db.profiles /\ db'.accounts = p
        BY <1>2, <2>1, <2>2 DEF Typed, TypeOK, DbType
    <2> QED
        BY <2>2, <2>3
<1>3. CASE db' = db
    BY <1>3, <1>0 DEF Typed, Rows
<1>4. ASSUME NEW c \in Calls, calls[c].step \in {"putProfile", "putAccount", "saveName"}
      PROVE  /\ calls[c].who \in Wallets /\ calls[c].user.id \in Ids
             /\ calls[c].user.name \in Optional(Names)
             /\ calls[c].step = "saveName" => calls[c].want \in Optional(Names)
    <2>1. PICK call : call = calls[c]
        OBVIOUS
    <2>2. CallOK(call)
        BY <2>1, CallAt DEF Typed
    <2>3. call.who \in Wallets /\ call.user \in User
        BY <1>4, <2>1, <2>2 DEF CallOK, ResolveSteps, ResolvedSteps, UserSteps, CallType, Optional
    <2>4. call.step = "saveName" => call.want \in Names
        BY <2>2 DEF CallOK, Stage, Doing, ResolveSteps
    <2> QED
        BY <2>1, <2>3, <2>4, Maybe DEF User, Optional
<1>5. \/ db' = db
      \/ \E c \in Calls :
           /\ calls[c].step \in {"putProfile", "putAccount", "saveName"}
           /\ \/ db' = [db EXCEPT !.accounts = AccountsWith(calls[c])]
              \/ db' = [db EXCEPT !.profiles = ProfilesWith(calls[c].user.id, calls[c].user.name)]
              \/ /\ calls[c].step = "saveName"
                 /\ db' = [db EXCEPT !.profiles = ProfilesWith(calls[c].user.id, calls[c].want)]
    BY DEF Restart
<1> QED
    BY <1>1, <1>2, <1>3, <1>4, <1>5

LEMMA RestartTyped ==
    ASSUME Typed, Restart, UNCHANGED <<jar, page>>
    PROVE  Typed'
<1>1. /\ db' \in DbType
      /\ \A w \in Wallets : db'.accounts[w] # Null => db'.profiles[db'.accounts[w]] # Null
    BY RestartDb
<1>2. mem' \in MemType /\ \A t \in Tokens : mem'.sessions[t] = Null
    BY EmptyTyped DEF Restart
<1>3. past' \in PastType
    BY DEF Restart, Typed, Rows, PastType, Troubles
<1>4. ASSUME NEW c \in Calls
      PROVE  CallOK(calls'[c]) /\ Backed(calls[c])'
    <2>1. PICK call : call = calls[c]
        OBVIOUS
    <2>2. CallOK(call) /\ Backed(call)
        BY <2>1, CallAt DEF Typed
    <2>3. PICK n : n = calls'[c]
        OBVIOUS
    <2>a. CASE call.step \in ServerSteps
        <3>1. n = Answered(Keeping(call), "lost")
            BY <2>1, <2>3, <2>a DEF Restart, Keeping
        <3>2. CallOK(n) /\ Plain(n)
            BY <2>2, <2>a, <3>1, LostOK
        <3> QED
            BY <2>3, <3>2, PlainBacked DEF Backed
    <2>b. CASE call.step \notin ServerSteps
        <3>1. n = call
            BY <2>1, <2>3, <2>b DEF Restart
        <3>2. call.step \in {"idle", "sign", "reply"}
            BY <2>b, <2>2 DEF CallOK, CallType, Steps, ServerSteps
        <3>3. Plain(call)
            BY <2>2, <3>2 DEF Plain, UserSteps, Backed
        <3> QED
            BY <2>2, <2>3, <3>1, <3>3, PlainBacked DEF Backed
    <2> QED
        BY <2>a, <2>b
<1>5. CallsOK'
    <2>1. \A d \in Calls : calls'[d] \in CallType
        BY <1>4 DEF CallOK
    <2>2. calls' = [d \in Calls |-> calls'[d]]
        BY DEF Restart
    <2>3. calls' \in [Calls -> CallType]
        BY <2>1, <2>2
    <2> QED
        BY <1>4, <2>3 DEF CallsOK
<1> QED
    BY <1>1, <1>2, <1>3, <1>5 DEF Typed, TypeOK, Rows

-----------------------------------------------------------------------------
(* The steps of the browser keep the types.                                *)
Request(kind, step, w, want) ==
    [Idle EXCEPT !.kind = kind, !.step = step, !.w = w, !.cookie = jar, !.want = want]

LEMMA RequestFields ==
    ASSUME TypeOK, NEW kind \in Kinds, NEW step \in Steps, NEW w \in Wallets,
           NEW want \in Optional(Names), NEW n, n = Request(kind, step, w, want)
    PROVE  /\ n \in CallType /\ n.kind = kind /\ n.step = step /\ n.w = w /\ n.cookie = jar
           /\ n.want = want /\ n.after = "none" /\ n.who = Null /\ n.nonce = Null
<1>1. jar \in Optional(Cookie) /\ w \in Optional(Wallets)
    BY Maybe DEF TypeOK
<1>2. n \in CallType
    BY <1>1, IdleFields DEF Request, CallType
<1>3. /\ n.kind = kind /\ n.step = step /\ n.w = w /\ n.cookie = jar
      /\ n.want = want /\ n.after = "none" /\ n.who = Null /\ n.nonce = Null
    BY IdleFields DEF Request, CallType
<1> QED
    BY <1>2, <1>3

LEMMA RequestOK ==
    ASSUME TypeOK, NEW kind, NEW step, NEW w \in Wallets, NEW want \in Optional(Names),
           \/ step = "session" /\ kind \in {"check", "signin"}
           \/ step = "session" /\ kind = "rename" /\ want \in Names
           \/ step = "logout" /\ kind = "signout",
           NEW n, n = Request(kind, step, w, want)
    PROVE  CallOK(n) /\ Plain(n)
<1>1. kind \in Kinds /\ step \in Steps
    BY DEF Kinds, Steps
<1>2. /\ n \in CallType /\ n.kind = kind /\ n.step = step /\ n.w = w /\ n.cookie = jar
      /\ n.want = want /\ n.after = "none" /\ n.who = Null /\ n.nonce = Null
    BY <1>1, RequestFields
<1>3. n.held = FALSE /\ n.user = Null /\ n.set = "keep" /\ n.new = Null /\ n.out = "none"
    BY DEF Request, Idle
<1>s. Stage(n)
    BY <1>2, <1>3 DEF Stage, Resolver
<1>4. CallOK(n)
    BY <1>s, <1>2, <1>3 DEF CallOK, Signer, ResolveSteps, ResolvedSteps, UserSteps
<1>5. Plain(n)
    BY <1>2, <1>3 DEF Plain, UserSteps
<1> QED
    BY <1>4, <1>5

(* A step of the browser that moves one call.                              *)
LEMMA BrowserTyped ==
    ASSUME Typed, NEW c \in Calls, NEW n, Move(c, n), CallOK(n), Plain(n),
           ServerQuiet, jar' \in Optional(Cookie), page' \in PageType,
           page'.prev = page'.connected, past' \in PastType
    PROVE  Typed'
<1>1. UNCHANGED <<mem, db>>
    BY DEF ServerQuiet
<1>2. Grows
    BY <1>1 DEF Grows
<1>3. CallsOK'
    BY <1>2, PlainBacked, MoveTyped DEF Typed
<1> QED
    BY <1>1, <1>3 DEF Typed, TypeOK, Rows

LEMMA Still == ASSUME Typed PROVE /\ jar \in Optional(Cookie) /\ page \in PageType
                                  /\ page.prev = page.connected /\ past \in PastType
    BY DEF Typed, TypeOK, Rows

LEMMA ChangeWalletTyped ==
    ASSUME Typed, NEW c \in Calls, NEW w \in Wallets \cup {Null}, ChangeWallet(c, w)
    PROVE  Typed'
<1>1. page.prev \in Optional(Wallets) /\ page.shown \in BOOLEAN /\ page \in PageType
    BY DEF Typed, TypeOK, PageType
<1>2. past' \in PastType
    BY PastTyped DEF ChangeWallet, Typed, Rows, Troubles
<1>3. UNCHANGED jar /\ ServerQuiet /\ jar \in Optional(Cookie)
    BY DEF ChangeWallet, Typed, TypeOK
<1>4. page' \in PageType /\ page'.prev = page'.connected
    <2>1. ShownAfterChange \in BOOLEAN
        BY <1>1 DEF ShownAfterChange
    <2>2. PICK s \in BOOLEAN : s = ShownAfterChange
        BY <2>1
    <2>3. w \in Optional(Wallets) /\ Null \in Optional(Wallets)
        BY DEF Optional
    <2> QED
        BY <1>1, <2>2, <2>3 DEF ChangeWallet, PageType
<1>a. CASE page.prev = Null
    <2>1. w \in Wallets
        BY <1>a, <1>1 DEF ChangeWallet, Typed, Rows
    <2>2. PICK n : n = Request("check", "session", w, Null)
        OBVIOUS
    <2>3. CallOK(n) /\ Plain(n)
        BY <2>1, <2>2, Maybe, RequestOK DEF Typed
    <2>4. Move(c, n)
        BY <1>a, <2>2 DEF ChangeWallet, Start, Request
    <2> QED
        BY <1>2, <1>3, <1>4, <2>3, <2>4, BrowserTyped
<1>b. CASE page.prev # Null
    <2>1. page.prev \in Wallets
        BY <1>b, <1>1 DEF Optional
    <2>2. PICK n : n = Request("signout", "logout", page.prev, Null)
        OBVIOUS
    <2>3. CallOK(n) /\ Plain(n)
        BY <2>1, <2>2, Maybe, RequestOK DEF Typed
    <2>4. Move(c, n)
        BY <1>b, <2>2 DEF ChangeWallet, Start, Request
    <2> QED
        BY <1>2, <1>3, <1>4, <2>3, <2>4, BrowserTyped
<1> QED
    BY <1>a, <1>b

LEMMA SignInTyped ==
    ASSUME Typed, NEW c \in Calls, SignIn(c)
    PROVE  Typed'
<1>1. page.connected \in Wallets
    BY DEF SignIn, Typed, TypeOK, PageType, Optional
<1>2. PICK n : n = Request("signin", "session", page.connected, Null)
    OBVIOUS
<1>3. CallOK(n) /\ Plain(n)
    BY <1>1, <1>2, Maybe, RequestOK DEF Typed
<1>4. Move(c, n) /\ UNCHANGED <<jar, page, past>> /\ ServerQuiet
    BY <1>2 DEF SignIn, Start, Request
<1> QED
    BY <1>3, <1>4, Still, BrowserTyped

LEMMA SignOutTyped ==
    ASSUME Typed, NEW c \in Calls, SignOut(c)
    PROVE  Typed'
<1>1. page.connected \in Wallets
    BY DEF SignOut, Typed, TypeOK, PageType, Optional
<1>2. PICK n : n = Request("signout", "logout", page.connected, Null)
    OBVIOUS
<1>3. CallOK(n) /\ Plain(n)
    BY <1>1, <1>2, Maybe, RequestOK DEF Typed
<1>4. Move(c, n) /\ UNCHANGED <<jar, past>> /\ ServerQuiet
    BY <1>2 DEF SignOut, Start, Request
<1>5. page' \in PageType /\ page'.prev = page'.connected
    BY Still, Maybe DEF SignOut, PageType
<1> QED
    BY <1>3, <1>4, <1>5, Still, BrowserTyped

LEMMA RenameTyped ==
    ASSUME Typed, NEW c \in Calls, NEW name \in Names, Rename(c, name)
    PROVE  Typed'
<1>1. page.connected \in Wallets
    BY DEF Rename, Typed, TypeOK, PageType, Optional
<1>2. PICK n : n = Request("rename", "session", page.connected, name)
    OBVIOUS
<1>3. CallOK(n) /\ Plain(n)
    BY <1>1, <1>2, Maybe, RequestOK DEF Typed
<1>4. Move(c, n) /\ UNCHANGED <<jar, page, past>> /\ ServerQuiet
    BY <1>2 DEF Rename, Start, Request
<1> QED
    BY <1>3, <1>4, Still, BrowserTyped

Elsewhere(w, name) ==
    Resolving([Idle EXCEPT !.kind = "elsewhere", !.w = w, !.want = name], w, "naming")
LEMMA ElsewhereOK ==
    ASSUME NEW w \in Wallets, NEW name \in Names, NEW n, n = Elsewhere(w, name)
    PROVE  CallOK(n) /\ Plain(n)
<1>1. PICK x : x = [Idle EXCEPT !.kind = "elsewhere", !.w = w, !.want = name]
    OBVIOUS
<1>2. x \in CallType
    <2>1. "elsewhere" \in Kinds
        BY DEF Kinds
    <2> QED
        BY <2>1, <1>1, IdleFields, Maybe DEF CallType
<1>3. /\ x.kind = "elsewhere" /\ x.w = w /\ x.want = name /\ x.set = "keep"
      /\ x.new = Null /\ x.out = "none" /\ x.step = "idle" /\ x.nonce = Null
    BY <1>1, IdleFields DEF CallType
<1>n. n = Resolving(x, w, "naming")
    BY <1>1 DEF Elsewhere
<1>t. n \in CallType
    <2>1. "naming" \in Goals
        BY DEF Goals
    <2> QED
        BY <1>2, <1>n, <2>1, ResolvingFields
<1>4. /\ n.kind = "elsewhere" /\ n.step = "account" /\ n.w = w /\ n.who = w
      /\ n.held = FALSE /\ n.after = "naming"
    BY <1>2, <1>3, <1>n DEF Resolving, CallType
<1>5. n.want = name /\ n.set = "keep" /\ n.out = "none"
    BY <1>2, <1>3, <1>n, ResolvingKeeps
<1>6. CallOK(n)
    BY <1>4, <1>5, <1>t DEF CallOK, Stage, Doing, Signer, ResolveSteps, ResolvedSteps, UserSteps
<1>7. Plain(n)
    BY <1>4 DEF Plain, UserSteps
<1> QED
    BY <1>6, <1>7

LEMMA RenameElsewhereTyped ==
    ASSUME Typed, NEW c \in Calls, NEW w \in Wallets, NEW name \in Names,
           RenameElsewhere(c, w, name)
    PROVE  Typed'
<1>1. CallOK(Elsewhere(w, name)) /\ Plain(Elsewhere(w, name))
    BY ElsewhereOK
<1>2. Move(c, Elsewhere(w, name)) /\ UNCHANGED <<jar, page, past>> /\ ServerQuiet
    BY DEF RenameElsewhere, Elsewhere
<1> QED
    BY <1>1, <1>2, Still, BrowserTyped

(* A call that is signed for, with the nonce of its challenge.             *)
Signing(kind, step, w, nonce) ==
    [Idle EXCEPT !.kind = kind, !.step = step, !.w = w, !.nonce = nonce]

LEMMA SigningFields ==
    ASSUME NEW kind \in Kinds, NEW step \in Steps, NEW w \in Wallets,
           NEW nonce \in Optional(Nonces), NEW n, n = Signing(kind, step, w, nonce)
    PROVE  /\ n \in CallType /\ n.kind = kind /\ n.step = step /\ n.w = w
           /\ n.want = Null /\ n.nonce = nonce
<1>1. w \in Optional(Wallets)
    BY Maybe
<1>2. n \in CallType
    BY <1>1, IdleFields DEF Signing, CallType
<1>3. /\ n.kind = kind /\ n.step = step /\ n.w = w
      /\ n.want = Null /\ n.nonce = nonce
    BY IdleFields DEF Signing, CallType
<1> QED
    BY <1>2, <1>3

LEMMA SigningOK ==
    ASSUME NEW kind, NEW step, NEW w \in Wallets, NEW nonce \in Optional(Nonces),
           \/ step = "sign" /\ kind = "verify" /\ nonce \in Nonces
           \/ step = "verify" /\ kind = "repeat" /\ nonce \in Nonces,
           NEW n, n = Signing(kind, step, w, nonce)
    PROVE  CallOK(n) /\ Plain(n)
<1>1. kind \in Kinds /\ step \in Steps
    BY DEF Kinds, Steps
<1>2. /\ n \in CallType /\ n.kind = kind /\ n.step = step /\ n.w = w
      /\ n.want = Null /\ n.nonce = nonce
    BY <1>1, SigningFields
<1>3. n.held = FALSE /\ n.set = "keep" /\ n.new = Null /\ n.out = "none"
    BY DEF Signing, Idle
<1>4. CallOK(n)
    BY <1>2, <1>3 DEF CallOK, Stage, Signer, ResolveSteps, ResolvedSteps, UserSteps
<1>5. Plain(n)
    BY <1>2, <1>3 DEF Plain, UserSteps
<1> QED
    BY <1>4, <1>5

LEMMA ChallengeOK ==
    ASSUME NEW w \in Wallets,
           NEW n, n = [Idle EXCEPT !.kind = "challenge", !.step = "challenge", !.w = w]
    PROVE  CallOK(n) /\ Plain(n)
<1>1. n \in CallType
    <2>1. "challenge" \in Kinds /\ "challenge" \in Steps /\ w \in Optional(Wallets)
        BY Maybe DEF Kinds, Steps
    <2> QED
        BY <2>1, IdleFields DEF CallType
<1>2. /\ n.kind = "challenge" /\ n.step = "challenge" /\ n.w = w /\ n.held = FALSE
      /\ n.set = "keep" /\ n.out = "none"
    BY IdleFields DEF CallType
<1>3. CallOK(n)
    BY <1>1, <1>2 DEF CallOK, Stage, Signer, ResolveSteps, ResolvedSteps, UserSteps
<1>4. Plain(n)
    BY <1>2 DEF Plain, UserSteps
<1> QED
    BY <1>3, <1>4

LEMMA SignTyped ==
    ASSUME Typed, NEW c \in Calls, Sign(c)
    PROVE  Typed'
<1>1. PICK call : call = calls[c]
    OBVIOUS
<1>2. CallOK(call) /\ Backed(call) /\ call.step = "sign" /\ call \in CallType /\ call.kind = "verify"
    BY <1>1, CallAt DEF Typed, Sign, At
<1>3. ServerQuiet /\ UNCHANGED <<jar, past>>
    BY DEF Sign
<1>a. CASE Move(c, [call EXCEPT !.step = "verify"]) /\ UNCHANGED page
    <2>1. PICK n : n = Stepped(call, "verify")
        OBVIOUS
    <2>2. "verify" \in Steps
        BY DEF Steps
    <2>3. n \in CallType /\ Keeps(n, call) /\ n.step = "verify" /\ n.user = call.user
          /\ n.held = call.held
        BY <1>2, <2>1, <2>2, SteppedFields
    <2>4. CallOK(n)
        BY <2>3, <1>2 DEF CallOK, Stage, Keeps, Signer, ResolveSteps, ResolvedSteps, UserSteps
    <2>5. Plain(n)
        BY <2>3, <1>2 DEF Plain, UserSteps, Backed
    <2>6. Move(c, n)
        BY <1>a, <2>1 DEF Stepped
    <2> QED
        BY <1>a, <1>3, <2>4, <2>5, <2>6, Still, BrowserTyped
<1>b. CASE Move(c, Idle) /\ page' = [page EXCEPT !.shown = FALSE]
    <2>1. page' \in PageType /\ page'.prev = page'.connected
        BY <1>b, Still DEF PageType
    <2> QED
        BY <1>b, <1>3, <2>1, Still, IdleOK, BrowserTyped
<1> QED
    BY <1>1, <1>a, <1>b DEF Sign

LEMMA RepeatTyped ==
    ASSUME Typed, NEW c \in Calls, NEW d \in Calls, Repeat(c, d)
    PROVE  Typed'
<1>1. PICK call : call = calls[d]
    OBVIOUS
<1>2. CallOK(call) /\ call.kind = "verify"
    BY <1>1, CallAt DEF Typed, Repeat
<1>3. call.w \in Wallets /\ call.nonce \in Nonces
    BY <1>2 DEF CallOK, Signer
<1>4. PICK n : n = Signing("repeat", "verify", call.w, call.nonce)
    OBVIOUS
<1>5. CallOK(n) /\ Plain(n)
    BY <1>3, <1>4, Maybe, SigningOK
<1>6. Move(c, n) /\ UNCHANGED <<jar, page, past>> /\ ServerQuiet
    BY <1>1, <1>4 DEF Repeat, Signing
<1> QED
    BY <1>5, <1>6, Still, BrowserTyped

Mislaid(call) == [call EXCEPT !.out = "lost", !.set = "keep"]
LEMMA LoseAnswerTyped ==
    ASSUME Typed, NEW c \in Calls, LoseAnswer(c)
    PROVE  Typed'
<1>1. PICK call : call = calls[c]
    OBVIOUS
<1>2. CallOK(call) /\ Backed(call) /\ call.step = "reply" /\ call \in CallType
    BY <1>1, CallAt DEF Typed, LoseAnswer
<1>3. ServerQuiet /\ UNCHANGED <<jar, page>> /\ past' \in PastType
    BY PastTyped DEF LoseAnswer, Typed, Rows, Troubles
<1>4. PICK n : n = Mislaid(call)
    OBVIOUS
<1>5. n \in CallType
    <2>1. "lost" \in Outcomes /\ "keep" \in CookieOrders
        BY DEF Outcomes, CookieOrders
    <2> QED
        BY <2>1, <1>2, <1>4 DEF CallType, Mislaid
<1>6. /\ n.kind = call.kind /\ n.step = "reply" /\ n.w = call.w /\ n.nonce = call.nonce
      /\ n.set = "keep" /\ n.out = "lost" /\ n.held = call.held
    BY <1>2, <1>4 DEF CallType, Mislaid
<1>7. CallOK(n)
    BY <1>2, <1>5, <1>6 DEF CallOK, Stage, Signer, ResolveSteps, ResolvedSteps, UserSteps
<1>8. Plain(n)
    BY <1>2, <1>6 DEF Plain, UserSteps, Backed
<1>9. Move(c, n)
    BY <1>1, <1>4 DEF LoseAnswer, Mislaid
<1> QED
    BY <1>3, <1>7, <1>8, <1>9, Still, BrowserTyped

(* What an answer does to the cookie.                                      *)
LEMMA ReceiveTyped ==
    ASSUME Typed, NEW c \in Calls, Receive(c)
    PROVE  /\ jar' \in Optional(Cookie) /\ ServerQuiet /\ past' \in PastType
           /\ calls[c].w \in Wallets /\ calls[c].step = "reply"
<1>1. PICK call : call = calls[c]
    OBVIOUS
<1>2. CallOK(call) /\ call.step = "reply" /\ call \in CallType
    BY <1>1, CallAt DEF Typed, Receive
<1>3. call.w \in Wallets
    BY <1>2 DEF CallOK
<1>4. call.set \in {"keep", "clear", "put"} /\ call.new \in Optional(Cookie)
    BY <1>2 DEF CallType, CookieOrders
<1>5. jar' \in {jar, Null, call.new}
    BY <1>1, <1>4 DEF Receive
<1> QED
    BY <1>1, <1>2, <1>3, <1>4, <1>5, Maybe DEF Receive, Typed, TypeOK, Rows

LEMMA PageMoves ==
    ASSUME Typed
    PROVE  /\ \A w \in Wallets : Show(w) => page' \in PageType /\ page'.prev = page'.connected
           /\ \A w \in Optional(Wallets) : Hide(w) => page' \in PageType /\ page'.prev = page'.connected
           /\ \A w \in Optional(Wallets) : page' = [page EXCEPT !.cached = w]
                => page' \in PageType /\ page'.prev = page'.connected
           /\ page.cached \in Optional(Wallets)
    BY Still, Maybe DEF Show, Hide, PageType

LEMMA CheckAnsweredTyped ==
    ASSUME Typed, NEW c \in Calls, CheckAnswered(c)
    PROVE  Typed'
<1>1. /\ jar' \in Optional(Cookie) /\ ServerQuiet /\ past' \in PastType
      /\ calls[c].w \in Wallets
    BY ReceiveTyped DEF CheckAnswered
<1>2. Move(c, Idle) /\ (Show(calls[c].w) \/ Hide(Null))
    BY DEF CheckAnswered
<1>3. page' \in PageType /\ page'.prev = page'.connected
    BY <1>1, <1>2, PageMoves, Maybe
<1> QED
    BY <1>1, <1>2, <1>3, IdleOK, BrowserTyped

LEMMA SignInAnsweredTyped ==
    ASSUME Typed, NEW c \in Calls, SignInAnswered(c)
    PROVE  Typed'
<1>1. /\ jar' \in Optional(Cookie) /\ ServerQuiet /\ past' \in PastType
      /\ calls[c].w \in Wallets
    BY ReceiveTyped DEF SignInAnswered
<1>2. PICK n : n = [Idle EXCEPT !.kind = "challenge", !.step = "challenge", !.w = calls[c].w]
    OBVIOUS
<1>3. CallOK(n) /\ Plain(n)
    BY <1>1, <1>2, ChallengeOK
<1>4. \/ Show(calls[c].w) /\ Move(c, Idle)
      \/ page' = [page EXCEPT !.cached = Null] /\ Move(c, n)
    BY <1>2 DEF SignInAnswered
<1>5. page' \in PageType /\ page'.prev = page'.connected
    BY <1>1, <1>4, PageMoves, Maybe
<1> QED
    BY <1>1, <1>3, <1>4, <1>5, IdleOK, BrowserTyped

LEMMA ChallengeAnsweredTyped ==
    ASSUME Typed, NEW c \in Calls, ChallengeAnswered(c)
    PROVE  Typed'
<1>1. /\ jar' \in Optional(Cookie) /\ ServerQuiet /\ past' \in PastType
      /\ calls[c].w \in Wallets
    BY ReceiveTyped DEF ChallengeAnswered
<1>a. CASE calls[c].out = "ok"
    <2>1. calls[c].nonce \in Nonces
        BY <1>a, CallAt DEF Typed, ChallengeAnswered, CallOK
    <2>2. PICK n : n = Signing("verify", "sign", calls[c].w, calls[c].nonce)
        OBVIOUS
    <2>3. CallOK(n) /\ Plain(n)
        BY <1>1, <2>1, <2>2, Maybe, SigningOK
    <2>4. Move(c, n) /\ UNCHANGED page
        BY <1>a, <2>2 DEF ChallengeAnswered, Signing
    <2> QED
        BY <1>1, <2>3, <2>4, Still, BrowserTyped
<1>b. CASE calls[c].out # "ok"
    <2>1. Move(c, Idle) /\ Hide(page.cached)
        BY <1>b DEF ChallengeAnswered
    <2>2. page' \in PageType /\ page'.prev = page'.connected
        BY <2>1, PageMoves
    <2> QED
        BY <1>1, <2>1, <2>2, IdleOK, BrowserTyped
<1> QED
    BY <1>a, <1>b

LEMMA VerifyAnsweredTyped ==
    ASSUME Typed, NEW c \in Calls, VerifyAnswered(c)
    PROVE  Typed'
<1>1. /\ jar' \in Optional(Cookie) /\ ServerQuiet /\ past' \in PastType
      /\ calls[c].w \in Wallets
    BY ReceiveTyped DEF VerifyAnswered
<1>2. Move(c, Idle) /\ (Show(calls[c].w) \/ Hide(page.cached))
    BY DEF VerifyAnswered
<1>3. page' \in PageType /\ page'.prev = page'.connected
    BY <1>1, <1>2, PageMoves
<1> QED
    BY <1>1, <1>2, <1>3, IdleOK, BrowserTyped

LEMMA SignOutAnsweredTyped ==
    ASSUME Typed, NEW c \in Calls, SignOutAnswered(c)
    PROVE  Typed'
<1>1. /\ jar' \in Optional(Cookie) /\ ServerQuiet /\ past' \in PastType
    BY ReceiveTyped DEF SignOutAnswered
<1>2. Move(c, Idle) /\ Hide(page.cached)
    BY DEF SignOutAnswered
<1>3. page' \in PageType /\ page'.prev = page'.connected
    BY <1>1, <1>2, PageMoves
<1> QED
    BY <1>1, <1>2, <1>3, IdleOK, BrowserTyped

LEMMA OtherAnsweredTyped ==
    ASSUME Typed, NEW c \in Calls, OtherAnswered(c)
    PROVE  Typed'
<1>1. /\ jar' \in Optional(Cookie) /\ ServerQuiet /\ past' \in PastType
    BY ReceiveTyped DEF OtherAnswered
<1>2. Move(c, Idle) /\ UNCHANGED page
    BY DEF OtherAnswered
<1> QED
    BY <1>1, <1>2, Still, IdleOK, BrowserTyped
-----------------------------------------------------------------------------
LEMMA InitTyped == ASSUME Init PROVE Typed
<1>1. mem \in MemType /\ \A t \in Tokens : mem.sessions[t] = Null
    BY EmptyTyped DEF Init, ServerInit
<1>2. db \in DbType /\ \A w \in Wallets : db.accounts[w] = Null
    BY Maybe DEF Init, ServerInit, DbType, Optional
<1>3. jar \in Optional(Cookie) /\ page \in PageType /\ page.prev = page.connected
    BY Maybe DEF Init, PageType
<1>4. past \in PastType
    BY DEF Init, ServerInit, PastType
<1>5. CallsOK
    BY IdleFields, IdleOK, PlainBacked DEF Init, ServerInit, CallsOK
<1> QED
    BY <1>1, <1>2, <1>3, <1>4, <1>5 DEF Typed, TypeOK, Rows

LEMMA NextTyped == ASSUME Typed, [Next]_vars PROVE Typed'
<1>1. CASE UNCHANGED vars
    <2>1. Grows
        BY <1>1 DEF vars, Grows
    <2>2. \A c \in Calls : Backed(calls[c])'
        BY <1>1, <2>1, BackedGrows DEF vars, Typed, CallsOK
    <2> QED
        BY <1>1, <2>2 DEF vars, Typed, TypeOK, CallsOK, Rows
<1>2. CASE ServerStep /\ UNCHANGED <<jar, page>>
    BY <1>2, ReadAccountTyped, ReadProfileTyped, PutProfileTyped, PutAccountTyped,
       ReadSessionTyped, LookUpSessionTyped, RestoreSessionTyped, OpenSessionTyped,
       LogoutTyped, MakeNonceTyped, PutNonceTyped, CheckNonceTyped, LoadNonceTyped,
       SignSessionTyped, PutSessionTyped, CheckDirectoryTyped, ClaimNameTyped,
       SaveNameTyped, ExpireNonceTyped, RevokeTyped, RestartTyped DEF ServerStep
<1>3. ASSUME NEW c \in Calls,
             \/ \E w \in Wallets \cup {Null} : ChangeWallet(c, w)
             \/ SignIn(c) \/ SignOut(c) \/ \E n \in Names : Rename(c, n)
             \/ \E w \in Wallets, n \in Names : RenameElsewhere(c, w, n)
             \/ Sign(c) \/ \E d \in Calls : Repeat(c, d)
             \/ LoseAnswer(c)
             \/ CheckAnswered(c) \/ SignInAnswered(c) \/ ChallengeAnswered(c)
             \/ VerifyAnswered(c) \/ SignOutAnswered(c) \/ OtherAnswered(c)
      PROVE  Typed'
    BY <1>3, ChangeWalletTyped, SignInTyped, SignOutTyped, RenameTyped, RenameElsewhereTyped,
       SignTyped, RepeatTyped, LoseAnswerTyped, CheckAnsweredTyped, SignInAnsweredTyped,
       ChallengeAnsweredTyped, VerifyAnsweredTyped, SignOutAnsweredTyped, OtherAnsweredTyped
<1> QED
    BY <1>1, <1>2, <1>3 DEF Next

LEMMA AlwaysTyped == Spec => []Typed
    BY InitTyped, NextTyped, PTL DEF Spec

(* TypeOK: the Maps of the process, the tables, the cookie and the page keep *)
(* their shapes through every interleaving of requests, failed reads, lost *)
(* writes and restarts.                                                    *)
THEOREM WalletTypeCorrect == Spec => []TypeOK
<1>1. Typed => TypeOK
    BY DEF Typed
<1> QED
    BY <1>1, AlwaysTyped, PTL

-----------------------------------------------------------------------------
(* What a step of the server may make of a request.                        *)
Follows(n, call) ==
    /\ n.kind = call.kind /\ n.w = call.w
    /\ n.cookie \in {call.cookie, Null}
    /\ n.nonce = call.nonce \/ call.step = "challenge"
    /\ n.new = call.new \/ call.step \in {"opened", "signed"}
    /\ n.step = "loadNonce" => call.step \in {"verify", "loadNonce"}
    /\ Doing(n, "restored") =>
         /\ n.cookie = call.cookie
         /\ \/ Doing(call, "restored") /\ n.who = call.who
            \/ /\ call.step = "lookup" /\ db.sessions[call.cookie.token] # Null
               /\ n.who = db.sessions[call.cookie.token].wallet
AllFollow == \A d \in Calls : Follows(calls'[d], calls[d])

LEMMA MoveFollows ==
    ASSUME Typed, NEW c \in Calls, NEW n, Move(c, n), Follows(n, calls[c])
    PROVE  AllFollow
<1>1. calls' = [calls EXCEPT ![c] = n] /\ calls \in [Calls -> CallType]
    BY DEF Move, Typed, CallsOK
<1>2. ASSUME NEW d \in Calls PROVE Follows(calls'[d], calls[d])
    <2>1. CASE d = c
        BY <1>1, <2>1
    <2>2. CASE d # c
        <3>1. calls'[d] = calls[d]
            BY <1>1, <2>2
        <3> QED
            BY <3>1 DEF Follows
    <2> QED
        BY <2>1, <2>2
<1> QED
    BY <1>2 DEF AllFollow

LEMMA AnsweredFollows ==
    ASSUME NEW call \in CallType, NEW out \in Outcomes
    PROVE  Follows(Answered(call, out), call)
<1>1. PICK n : n = Answered(call, out)
    OBVIOUS
<1>2. /\ n.kind = call.kind /\ n.step = "reply" /\ n.w = call.w /\ n.nonce = call.nonce
      /\ n.new = call.new
    BY <1>1, AnsweredFields
<1>3. n.cookie = Null
    BY <1>1, AnsweredBlank
<1> QED
    BY <1>1, <1>2, <1>3 DEF Follows, Doing, ResolveSteps

LEMMA ClearedFollows ==
    ASSUME NEW call \in CallType, NEW out \in Outcomes
    PROVE  /\ Follows(Answered(Cleared(call), out), call)
           /\ Follows(Answered(Keeping(call), out), call)
<1>1. ASSUME NEW x, x \in {Cleared(call), Keeping(call)} PROVE Follows(Answered(x, out), call)
    <2>1. x \in CallType
        BY <1>1 DEF CallType, Cleared, Keeping, CookieOrders
    <2>2. x.kind = call.kind /\ x.w = call.w /\ x.nonce = call.nonce /\ x.new = call.new
        BY <1>1 DEF CallType, Cleared, Keeping
    <2>3. PICK n : n = Answered(x, out)
        OBVIOUS
    <2>4. /\ n.kind = x.kind /\ n.step = "reply" /\ n.w = x.w /\ n.nonce = x.nonce
          /\ n.new = x.new
        BY <2>1, <2>3, AnsweredFields
    <2>5. n.cookie = Null
        BY <2>3, AnsweredBlank
    <2> QED
        BY <2>2, <2>3, <2>4, <2>5 DEF Follows, Doing, ResolveSteps
<1> QED
    BY <1>1

LEMMA ResolvingFollows ==
    ASSUME NEW call \in CallType, NEW w \in Wallets, NEW after \in Goals,
           after = "restored" => /\ call.step = "lookup"
                                 /\ db.sessions[call.cookie.token] # Null
                                 /\ w = db.sessions[call.cookie.token].wallet
    PROVE  Follows(Resolving(call, w, after), call)
<1>1. PICK n : n = Resolving(call, w, after)
    OBVIOUS
<1>2. n.cookie = call.cookie /\ n.nonce = call.nonce /\ n.new = call.new
    BY <1>1, ResolvingKeeps
<1>3. n.kind = call.kind /\ n.step = "account" /\ n.w = call.w /\ n.after = after /\ n.who = w
    BY <1>1 DEF Resolving, CallType
<1> QED
    BY <1>1, <1>2, <1>3 DEF Follows, Doing

(* A request that stays with the resolver or goes where it was sent to.    *)
LEMMA KeepsFollows ==
    ASSUME NEW call, NEW n, Keeps(n, call),
           n.step = "loadNonce" => call.step \in {"verify", "loadNonce"},
           Doing(n, "restored") => Doing(call, "restored")
    PROVE  Follows(n, call)
    BY DEF Keeps, Follows

(* A request that gets a user object.                                      *)
Lent(call, user) == [call EXCEPT !.step = "profile", !.user = user]
Shared(call, user) == [call EXCEPT !.step = "putProfile", !.held = TRUE, !.user = user]

LEMMA ReadAccountMoves ==
    ASSUME Typed, NEW c \in Calls, ReadAccount(c), NEW call, call = calls[c]
    PROVE  /\ call.step = "account"
           /\ \E user : Move(c, Lent(call, user)) \/ Move(c, Shared(call, user))
<1> DEFINE A == Move(c, Lent(call, [id |-> db.accounts[call.who],
                                    name |-> db.profiles[db.accounts[call.who]].name]))
           B == Move(c, Shared(call, KnownUser(call.who)))
           D == Move(c, Shared(call, [id |-> CHOOSE i \in Draw(Ids) : TRUE, name |-> Null]))
<1>1. A \/ B \/ D
    BY DEF ReadAccount, Lent, Shared
<1>2. call.step = "account"
    BY DEF ReadAccount
<1> QED
    BY <1>1, <1>2

LEMMA ReadAccountFollows ==
    ASSUME Typed, NEW c \in Calls, ReadAccount(c)
    PROVE  AllFollow
<1>1. PICK call : call = calls[c]
    OBVIOUS
<1>2. call \in CallType /\ call.step = "account"
    BY <1>1, CallAt DEF Typed, ReadAccount
<1>3. PICK user : Move(c, Lent(call, user)) \/ Move(c, Shared(call, user))
    BY <1>1, ReadAccountMoves
<1>4. ASSUME NEW n, n = Lent(call, user) \/ n = Shared(call, user)
      PROVE  Follows(n, call)
    <2>1. Keeps(n, call) /\ n.step \in {"profile", "putProfile"}
        BY <1>2, <1>4 DEF CallType, Keeps, Lent, Shared
    <2> QED
        BY <1>2, <2>1, KeepsFollows DEF Doing, ResolveSteps, Keeps
<1> QED
    BY <1>1, <1>3, <1>4, MoveFollows

LEMMA ReadProfileFollows ==
    ASSUME Typed, NEW c \in Calls, ReadProfile(c)
    PROVE  AllFollow
<1>1. calls[c].step = "profile" /\ \E user : Rebuild(c, user)
    BY DEF ReadProfile
<1>2. PICK user : Rebuild(c, user)
    BY <1>1
<1>3. ASSUME NEW d \in Calls PROVE Follows(calls'[d], calls[d])
    <2>1. PICK call : call = calls[d]
        OBVIOUS
    <2>2. CallOK(call) /\ call \in CallType
        BY <2>1, CallAt DEF Typed
    <2>3. PICK n : n = calls'[d]
        OBVIOUS
    <2>4. CASE d = c
        <3>1. n = Served(call, user)
            BY <1>2, <2>1, <2>3, <2>4, RebuildCalls
        <3>2. Keeps(n, call) /\ n.step = call.after
            BY <2>2, <3>1 DEF CallType, Keeps, Served
        <3>3. call.after \in {"opened", "restored", "signed", "naming"} /\ call.step = "profile"
            BY <1>1, <2>1, <2>2, <2>4, GoalSteps DEF ResolveSteps
        <3>4. Follows(n, call)
            BY <3>2, <3>3, KeepsFollows DEF Doing, ResolveSteps
        <3> QED
            BY <2>1, <2>3, <3>4
    <2>5. CASE n = LetGo(call, mem.users[calls[c].who])
        <3>1. Keeps(n, call) /\ n.step = call.step
            BY <2>2, <2>5 DEF CallType, Keeps, LetGo
        <3>2. Follows(n, call)
            BY <3>1, KeepsFollows DEF Doing, Keeps
        <3> QED
            BY <2>1, <2>3, <3>2
    <2>6. CASE n = call
        BY <2>1, <2>3, <2>6 DEF Follows
    <2> QED
        BY <1>2, <2>1, <2>3, <2>4, <2>5, <2>6, RebuildCalls
<1> QED
    BY <1>3 DEF AllFollow

LEMMA PutProfileFollows ==
    ASSUME Typed, NEW c \in Calls, PutProfile(c) \/ PutAccount(c)
    PROVE  AllFollow
<1>1. PICK call : call = calls[c]
    OBVIOUS
<1>2. CallOK(call) /\ call \in CallType /\ call.step \in {"putProfile", "putAccount"}
    BY <1>1, CallAt DEF Typed, PutProfile, PutAccount
<1>3. call.after \in {"opened", "restored", "signed", "naming"}
    BY <1>2, GoalSteps DEF ResolveSteps
<1>4. PICK step \in {"putAccount", call.after} : Move(c, Stepped(call, step))
    BY <1>1 DEF PutProfile, PutAccount, Stepped
<1>5. PICK n : n = Stepped(call, step)
    OBVIOUS
<1>6. Keeps(n, call) /\ n.step = step
    BY <1>2, <1>5 DEF CallType, Keeps, Stepped
<1>7. Follows(n, call)
    BY <1>2, <1>3, <1>6, KeepsFollows DEF Doing, ResolveSteps, Keeps
<1> QED
    BY <1>1, <1>4, <1>5, <1>7, MoveFollows

LEMMA AuthenticatedFollows ==
    ASSUME Typed, NEW c \in Calls, NEW m, NEW wallet \in Wallets, NEW t,
           Authenticated(c, m, wallet, t)
    PROVE  AllFollow
<1>1. PICK call : call = calls[c]
    OBVIOUS
<1>2. call \in CallType
    BY <1>1, CallAt DEF Typed
<1>3. "no" \in Outcomes /\ "ok" \in Outcomes /\ "naming" \in Goals
    BY DEF Outcomes, Goals
<1>4. \/ Move(c, Answered(Cleared(call), "no"))
      \/ Move(c, Resolving(call, wallet, "naming"))
      \/ Move(c, Answered(call, "ok"))
    BY <1>1 DEF Authenticated, Answer, Cleared
<1>5. /\ Follows(Answered(Cleared(call), "no"), call)
      /\ Follows(Answered(call, "ok"), call)
      /\ Follows(Resolving(call, wallet, "naming"), call)
    BY <1>2, <1>3, AnsweredFollows, ClearedFollows, ResolvingFollows
<1> QED
    BY <1>1, <1>4, <1>5, MoveFollows

LEMMA SessionFollows ==
    ASSUME Typed, NEW c \in Calls,
           ReadSession(c) \/ LookUpSession(c) \/ RestoreSession(c) \/ Logout(c)
    PROVE  AllFollow
<1>1. PICK call : call = calls[c]
    OBVIOUS
<1>2. CallOK(call) /\ call \in CallType
    BY <1>1, CallAt DEF Typed
<1>a. CASE ReadSession(c)
    <2>1. call.w \in Wallets /\ (call.cookie # Null => call.cookie.token \in Tokens)
        BY <1>a, <1>1, <1>2, CookieTyped DEF ReadSession, CallOK, Stage, Resolver, Doing,
           ResolveSteps, NameSteps
    <2>2. CASE call.cookie = Null
        <3>1. Follows(Resolving(call, call.w, "opened"), call)
            BY <1>2, <2>1, ResolvingFollows DEF Goals
        <3> QED
            BY <1>1, <1>a, <2>2, <3>1, MoveFollows DEF ReadSession
    <2>3. CASE Move(c, Stepped(call, "lookup"))
        <3>1. PICK n : n = Stepped(call, "lookup")
            OBVIOUS
        <3>2. Keeps(n, call) /\ n.step = "lookup"
            BY <1>2, <3>1 DEF CallType, Keeps, Stepped
        <3>3. Follows(n, call)
            BY <3>2, KeepsFollows DEF Doing, ResolveSteps
        <3> QED
            BY <1>1, <2>3, <3>1, <3>3, MoveFollows
    <2>4. CASE call.cookie # Null /\ mem.sessions[call.cookie.token] # Null
               /\ Authenticated(c, mem, mem.sessions[call.cookie.token].wallet, call.cookie.token)
        BY <2>1, <2>4, SessionsTyped, AuthenticatedFollows DEF Typed
    <2> QED
        BY <1>1, <1>a, <2>2, <2>3, <2>4 DEF ReadSession, Stepped
<1>b. CASE LookUpSession(c)
    <2>1. call.step = "lookup" /\ call.cookie # Null
        BY <1>b, <1>1, <1>2 DEF LookUpSession, CallOK, Stage, Resolver, Doing,
           ResolveSteps, NameSteps
    <2>2. PICK ck \in Cookie : ck = call.cookie /\ ck.wallet \in Wallets /\ ck.token \in Tokens
        BY <1>2, <2>1, CookieTyped
    <2>3. CASE db.sessions[ck.token] # Null
               /\ Move(c, Resolving(call, db.sessions[ck.token].wallet, "restored"))
        <3>1. db.sessions[ck.token].wallet \in Wallets
            BY <2>2, <2>3 DEF Typed, TypeOK, DbType, Session, Optional
        <3>2. Follows(Resolving(call, db.sessions[ck.token].wallet, "restored"), call)
            BY <1>2, <2>1, <2>2, <2>3, <3>1, ResolvingFollows DEF Goals
        <3> QED
            BY <1>1, <2>3, <3>2, MoveFollows
    <2>4. CASE \E m : Authenticated(c, m, ck.wallet, ck.token)
        BY <2>2, <2>4, AuthenticatedFollows
    <2> QED
        BY <1>1, <1>b, <2>2, <2>3, <2>4 DEF LookUpSession
<1>c. CASE RestoreSession(c)
    <2>1. call.who \in Wallets
        BY <1>c, <1>1, <1>2 DEF RestoreSession, CallOK, ResolvedSteps
    <2> QED
        BY <1>1, <1>c, <2>1, AuthenticatedFollows DEF RestoreSession
<1>d. CASE Logout(c)
    <2>1. Follows(Answered(Cleared(call), "ok"), call)
        BY <1>2, ClearedFollows DEF Outcomes
    <2> QED
        BY <1>1, <1>d, <2>1, MoveFollows DEF Logout, Cleared
<1> QED
    BY <1>a, <1>b, <1>c, <1>d

LEMMA OpenFollows ==
    ASSUME Typed, NEW c \in Calls, OpenSession(c) \/ SignSession(c)
    PROVE  AllFollow
<1>1. PICK call : call = calls[c]
    OBVIOUS
<1>2. CallOK(call) /\ call \in CallType /\ call.step \in {"opened", "signed"}
    BY <1>1, CallAt DEF Typed, OpenSession, SignSession
<1>3. call.who \in Wallets
    BY <1>2 DEF CallOK, ResolvedSteps
<1>4. PICK x : x = Bearing(call, NewCookie(call))
    OBVIOUS
<1>5. /\ x.kind = call.kind /\ x.step = call.step /\ x.w = call.w /\ x.who = call.who
      /\ x.cookie = call.cookie /\ x.nonce = call.nonce
    BY <1>2, <1>4 DEF CallType, Bearing
<1>6. x \in CallType
    <2>1. NewCookie(call) \in Cookie
        BY <1>1, <1>2, OpenedTyped DEF OpenSession, SignSession, ResolvedSteps
    <2> QED
        BY <1>2, <1>4, <2>1, BearingFields
<1>7. \/ Move(c, Resolving(x, call.who, "naming"))
      \/ Move(c, Answered(x, "ok"))
      \/ Move(c, Stepped(x, "putSession"))
    BY <1>1, <1>4 DEF OpenSession, SignSession, Bearing, Stepped
<1>8. ASSUME NEW n, Follows(n, x), ~Doing(n, "restored"), n.step # "loadNonce"
      PROVE  Follows(n, call)
    <2>1. x.step # "challenge" /\ call.step \in {"opened", "signed"}
        BY <1>2, <1>5
    <2> QED
        BY <1>8, <1>5, <2>1 DEF Follows
<1>9. Follows(Resolving(x, call.who, "naming"), call)
    <2>1. PICK n : n = Resolving(x, call.who, "naming")
        OBVIOUS
    <2>2. n.step = "account" /\ n.after = "naming"
        BY <1>6, <2>1 DEF Resolving, CallType
    <2>3. Follows(n, x)
        BY <1>3, <1>6, <2>1, ResolvingFollows DEF Goals
    <2> QED
        BY <1>8, <2>1, <2>2, <2>3 DEF Doing
<1>10. Follows(Answered(x, "ok"), call)
    <2>1. PICK n : n = Answered(x, "ok")
        OBVIOUS
    <2>2. n.step = "reply"
        BY <1>6, <2>1, AnsweredFields DEF Outcomes
    <2>3. Follows(n, x)
        BY <1>6, <2>1, AnsweredFollows DEF Outcomes
    <2> QED
        BY <1>8, <2>1, <2>2, <2>3 DEF Doing, ResolveSteps
<1>11. Follows(Stepped(x, "putSession"), call)
    <2>1. PICK n : n = Stepped(x, "putSession")
        OBVIOUS
    <2>2. Keeps(n, x) /\ n.step = "putSession"
        BY <1>6, <2>1 DEF Stepped, CallType, Keeps
    <2>3. Follows(n, x)
        BY <2>2, KeepsFollows DEF Doing, ResolveSteps
    <2> QED
        BY <1>8, <2>1, <2>2, <2>3 DEF Doing, ResolveSteps
<1> QED
    BY <1>1, <1>7, <1>9, <1>10, <1>11, MoveFollows

LEMMA UseNonceFollows ==
    ASSUME Typed, NEW c \in Calls, NEW m, UseNonce(c, m), calls[c].w \in Wallets
    PROVE  AllFollow
<1>1. PICK call : call = calls[c]
    OBVIOUS
<1>2. call \in CallType
    BY <1>1, CallAt DEF Typed
<1>3. Follows(Answered(call, "no"), call) /\ Follows(Resolving(call, call.w, "signed"), call)
    BY <1>1, <1>2, AnsweredFollows, ResolvingFollows DEF Outcomes, Goals
<1> QED
    BY <1>1, <1>3, MoveFollows DEF UseNonce, Answer

LEMMA NonceFollows ==
    ASSUME Typed, NEW c \in Calls, MakeNonce(c) \/ PutNonce(c) \/ CheckNonce(c) \/ LoadNonce(c)
    PROVE  AllFollow
<1>1. PICK call : call = calls[c]
    OBVIOUS
<1>2. CallOK(call) /\ call \in CallType
    BY <1>1, CallAt DEF Typed
<1>w. call.step \in {"verify", "loadNonce"} => call.w \in Wallets
    BY <1>2 DEF CallOK
<1>n. ASSUME NEW out \in {"ok", "no"}, Answer(c, out) PROVE AllFollow
    <2>1. Follows(Answered(call, out), call)
        BY <1>2, <1>n, AnsweredFollows DEF Outcomes
    <2> QED
        BY <1>1, <1>n, <2>1, MoveFollows DEF Answer
<1>a. CASE MakeNonce(c)
    <2>1. PICK k : Move(c, [call EXCEPT !.step = "putNonce", !.nonce = k])
        BY <1>a, <1>1 DEF MakeNonce
    <2>2. PICK n : n = [call EXCEPT !.step = "putNonce", !.nonce = k]
        OBVIOUS
    <2>3. /\ n.kind = call.kind /\ n.w = call.w /\ n.cookie = call.cookie /\ n.new = call.new
          /\ n.step = "putNonce" /\ call.step = "challenge"
        BY <1>a, <1>1, <1>2, <2>2 DEF CallType, MakeNonce
    <2>4. Follows(n, call)
        BY <2>3 DEF Follows, Doing, ResolveSteps
    <2> QED
        BY <1>1, <2>1, <2>2, <2>4, MoveFollows
<1>b. CASE PutNonce(c)
    BY <1>b, <1>n DEF PutNonce
<1>c. CASE CheckNonce(c)
    <2>1. call.step = "verify"
        BY <1>1, <1>c DEF CheckNonce
    <2>2. CASE Move(c, Stepped(call, "loadNonce"))
        <3>1. PICK n : n = Stepped(call, "loadNonce")
            OBVIOUS
        <3>2. Keeps(n, call) /\ n.step = "loadNonce"
            BY <1>2, <3>1 DEF CallType, Keeps, Stepped
        <3>3. Follows(n, call)
            BY <2>1, <3>2, KeepsFollows DEF Doing, ResolveSteps
        <3> QED
            BY <1>1, <2>2, <3>1, <3>3, MoveFollows
    <2>3. CASE UseNonce(c, mem)
        BY <1>1, <1>w, <2>1, <2>3, UseNonceFollows
    <2> QED
        BY <1>1, <1>c, <2>2, <2>3 DEF CheckNonce, Stepped
<1>d. CASE LoadNonce(c)
    <2>1. call.step = "loadNonce"
        BY <1>1, <1>d DEF LoadNonce
    <2>2. Answer(c, "no") \/ \E m : UseNonce(c, m)
        BY <1>d DEF LoadNonce
    <2> QED
        BY <1>1, <1>n, <1>w, <2>1, <2>2, UseNonceFollows
<1> QED
    BY <1>a, <1>b, <1>c, <1>d

LEMMA NameFollows ==
    ASSUME Typed, NEW c \in Calls,
           PutSession(c) \/ CheckDirectory(c) \/ ClaimName(c) \/ SaveName(c)
    PROVE  AllFollow
<1>1. PICK call : call = calls[c]
    OBVIOUS
<1>2. CallOK(call) /\ call \in CallType
    BY <1>1, CallAt DEF Typed
<1>n. ASSUME NEW out \in {"ok", "no"}, Answer(c, out) PROVE AllFollow
    <2>1. Follows(Answered(call, out), call)
        BY <1>2, <1>n, AnsweredFollows DEF Outcomes
    <2> QED
        BY <1>1, <1>n, <2>1, MoveFollows DEF Answer
<1>a. ASSUME NEW out, Move(c, Refused(call, out)) PROVE AllFollow
    <2>1. PICK n : n = Refused(call, out)
        OBVIOUS
    <2>2. /\ n.kind = call.kind /\ n.w = call.w /\ n.cookie = call.cookie
          /\ n.nonce = call.nonce /\ n.new = call.new /\ n.step = "conflict"
        BY <1>2, <2>1 DEF CallType, Refused
    <2>3. Follows(n, call)
        BY <2>2 DEF Follows, Doing, ResolveSteps
    <2> QED
        BY <1>1, <1>a, <2>1, <2>3, MoveFollows
<1>b. ASSUME NEW user, Move(c, NamedUser(call, user)) PROVE AllFollow
    <2>1. PICK n : n = NamedUser(call, user)
        OBVIOUS
    <2>2. Keeps(n, call) /\ n.step = "saveName"
        BY <1>2, <2>1 DEF CallType, Keeps, NamedUser
    <2>3. Follows(n, call)
        BY <2>2, KeepsFollows DEF Doing, ResolveSteps
    <2> QED
        BY <1>1, <1>b, <2>1, <2>3, MoveFollows
<1>3. PutSession(c) \/ SaveName(c) => Answer(c, "ok")
    BY DEF PutSession, SaveName
<1>4. CheckDirectory(c) => Answer(c, "no") \/ \E out : Move(c, Refused(call, out))
    BY <1>1 DEF CheckDirectory, Refused
<1>5. ClaimName(c) => Answer(c, "no") \/ \E old, trouble : Claim(c, old, trouble)
    BY DEF ClaimName
<1>6. ASSUME NEW old, NEW trouble, Claim(c, old, trouble)
      PROVE  \E user : Move(c, NamedUser(call, user))
    BY <1>1, <1>6 DEF Claim, NamedUser
<1> QED
    BY <1>n, <1>a, <1>b, <1>3, <1>4, <1>5, <1>6

(* The steps of the server that serve one request.                         *)
Serves(c) ==
    \/ ReadAccount(c) \/ ReadProfile(c) \/ PutProfile(c) \/ PutAccount(c)
    \/ ReadSession(c) \/ LookUpSession(c) \/ RestoreSession(c) \/ OpenSession(c)
    \/ Logout(c) \/ MakeNonce(c) \/ PutNonce(c) \/ CheckNonce(c) \/ LoadNonce(c)
    \/ SignSession(c) \/ PutSession(c)
    \/ CheckDirectory(c) \/ ClaimName(c) \/ SaveName(c)

LEMMA ServerCases ==
    ASSUME ServerStep
    PROVE  \/ \E c \in Calls : Serves(c)
           \/ \E n \in Nonces : ExpireNonce(n)
           \/ \E t \in Tokens : Revoke(t)
           \/ Restart
    BY DEF ServerStep, Serves

LEMMA OthersStay ==
    ASSUME Typed, NEW c \in Calls, Serves(c), NEW d \in Calls, d # c
    PROVE  Keeps(calls'[d], calls[d]) /\ calls'[d].step = calls[d].step
<1>1. CASE ReadProfile(c)
    <2>1. PICK user : Rebuild(c, user)
        BY <1>1 DEF ReadProfile
    <2>2. calls[d] \in CallType
        BY DEF Typed, CallsOK
    <2>3. calls'[d] \in {calls[d], LetGo(calls[d], mem.users[calls[c].who])}
        BY <2>1, RebuildCalls
    <2> QED
        BY <2>2, <2>3 DEF LetGo, CallType, Keeps
<1>2. CASE ~ReadProfile(c)
    <2>1. \E n : Move(c, n)
        BY <1>2 DEF Serves, ReadAccount, PutProfile, PutAccount, ReadSession,
           LookUpSession, RestoreSession, OpenSession, Logout, MakeNonce, PutNonce, CheckNonce,
           LoadNonce, UseNonce, SignSession, PutSession, CheckDirectory, ClaimName, SaveName,
           Authenticated, Answer, Claim
    <2>2. calls'[d] = calls[d]
        BY <2>1 DEF Move, Typed, CallsOK
    <2> QED
        BY <2>2 DEF Keeps
<1> QED
    BY <1>1, <1>2

LEMMA ServerFollows == ASSUME Typed, ServerStep PROVE AllFollow
<1>1. ASSUME UNCHANGED calls PROVE AllFollow
    BY <1>1 DEF AllFollow, Follows
<1>2. CASE Restart
    <2>1. ASSUME NEW d \in Calls PROVE Follows(calls'[d], calls[d])
        <3>1. PICK call : call = calls[d]
            OBVIOUS
        <3>2. call \in CallType
            BY <3>1, CallAt DEF Typed
        <3>3. calls'[d] = call \/ calls'[d] = Answered(Keeping(call), "lost")
            BY <1>2, <3>1 DEF Restart, Keeping
        <3>4. Follows(Answered(Keeping(call), "lost"), call)
            BY <3>2, ClearedFollows DEF Outcomes
        <3>5. Follows(call, call)
            BY DEF Follows
        <3> QED
            BY <3>1, <3>3, <3>4, <3>5
    <2> QED
        BY <2>1 DEF AllFollow
<1>3. CASE (\E n \in Nonces : ExpireNonce(n)) \/ (\E t \in Tokens : Revoke(t))
    BY <1>1, <1>3 DEF ExpireNonce, Revoke
<1> QED
    BY <1>2, <1>3, ReadAccountFollows, ReadProfileFollows, PutProfileFollows, SessionFollows,
       OpenFollows, NonceFollows, NameFollows DEF ServerStep

-----------------------------------------------------------------------------
(* History and draws are only added to.                                    *)
Grown == past.trouble \subseteq past'.trouble /\ issued \subseteq issued'
NoncesKept == mem'.nonces = mem.nonces /\ past'.opened = past.opened

LEMMA TroubleAdds ==
    ASSUME past \in PastType, NEW what, Trouble(what)
    PROVE  past'.opened = past.opened /\ past'.trouble = past.trouble \cup {what}
    BY DEF Trouble, PastType

LEMMA ResolverQuiet ==
    ASSUME Typed, NEW c \in Calls, ReadAccount(c) \/ ReadProfile(c) \/ PutProfile(c) \/ PutAccount(c)
    PROVE  Grown /\ NoncesKept
<1>0. past \in PastType /\ mem \in MemType
    BY DEF Typed, Rows, TypeOK
<1>1. past'.opened = past.opened /\ past.trouble \subseteq past'.trouble
    BY <1>0, TroubleAdds DEF ReadAccount, ReadProfile, PutProfile, PutAccount
<1>2. issued \subseteq issued'
    BY DEF ReadAccount, ReadProfile, PutProfile, PutAccount
<1>3. CASE ReadProfile(c)
    <2>1. calls[c].who \in Wallets
        BY <1>3, CallAt DEF Typed, ReadProfile, CallOK, ResolveSteps
    <2>2. PICK user : Rebuild(c, user)
        BY <1>3 DEF ReadProfile
    <2> QED
        BY <1>1, <1>2, <2>1, <2>2, RebuildUsers DEF Typed, Grown, NoncesKept
<1>4. CASE ReadAccount(c)
    <2>1. mem' = mem \/ \E user : mem' = [mem EXCEPT !.users[calls[c].who] = user]
        BY <1>4 DEF ReadAccount
    <2>2. mem'.nonces = mem.nonces
        BY <1>0, <2>1 DEF MemType
    <2> QED
        BY <1>1, <1>2, <2>2 DEF Grown, NoncesKept
<1>5. CASE PutProfile(c) \/ PutAccount(c)
    BY <1>1, <1>2, <1>5 DEF Grown, NoncesKept, PutProfile, PutAccount
<1> QED
    BY <1>3, <1>4, <1>5

LEMMA AuthenticatedQuiet ==
    ASSUME NEW c, NEW m \in MemType, NEW wallet, NEW t, Authenticated(c, m, wallet, t)
    PROVE  mem'.nonces = m.nonces /\ mem'.users = m.users /\ mem'.directory = m.directory
    BY DEF Authenticated, Dropped, MemType

LEMMA SessionQuiet ==
    ASSUME Typed, NEW c \in Calls,
           ReadSession(c) \/ LookUpSession(c) \/ RestoreSession(c) \/ Logout(c)
    PROVE  Grown /\ NoncesKept
<1>0. past \in PastType /\ mem \in MemType
    BY DEF Typed, Rows, TypeOK
<1>1. past'.opened = past.opened /\ Grown
    BY <1>0, TroubleAdds DEF ReadSession, LookUpSession, RestoreSession, Logout, Grown
<1>2. CASE ReadSession(c)
    BY <1>0, <1>1, <1>2, AuthenticatedQuiet DEF ReadSession, NoncesKept
<1>3. CASE LookUpSession(c)
    <2>1. \/ mem' = mem
          \/ \E user, w, x, t : Authenticated(c, [mem EXCEPT !.users[w] = user, !.sessions[t] = x], w, t)
        BY <1>3 DEF LookUpSession
    <2>2. ASSUME NEW user, NEW w, NEW x, NEW t,
                 Authenticated(c, [mem EXCEPT !.users[w] = user, !.sessions[t] = x], w, t)
          PROVE  mem'.nonces = mem.nonces
        BY <1>0, <2>2 DEF Authenticated, Dropped, MemType
    <2> QED
        BY <1>1, <2>1, <2>2 DEF NoncesKept
<1>4. CASE RestoreSession(c)
    <2>1. \E w, x, t : Authenticated(c, [mem EXCEPT !.sessions[t] = x], w, t)
        BY <1>4 DEF RestoreSession
    <2>2. ASSUME NEW w, NEW x, NEW t, Authenticated(c, [mem EXCEPT !.sessions[t] = x], w, t)
          PROVE  mem'.nonces = mem.nonces
        BY <1>0, <2>2 DEF Authenticated, Dropped, MemType
    <2> QED
        BY <1>1, <2>1, <2>2 DEF NoncesKept
<1>5. CASE Logout(c)
    BY <1>0, <1>1, <1>5 DEF Logout, Dropped, MemType, NoncesKept
<1> QED
    BY <1>1, <1>2, <1>3, <1>4, <1>5 DEF NoncesKept

LEMMA OtherQuiet ==
    ASSUME Typed, NEW c \in Calls,
           OpenSession(c) \/ SignSession(c) \/ PutNonce(c) \/ PutSession(c)
             \/ CheckDirectory(c) \/ ClaimName(c) \/ SaveName(c)
    PROVE  Grown /\ NoncesKept
<1>0. past \in PastType /\ mem \in MemType
    BY DEF Typed, Rows, TypeOK
<1>1. CASE OpenSession(c) \/ SignSession(c)
    BY <1>0, <1>1 DEF OpenSession, SignSession, Opened, MemType, Grown, NoncesKept
<1>2. CASE PutNonce(c) \/ PutSession(c) \/ SaveName(c)
    BY <1>0, <1>2, TroubleAdds DEF PutNonce, PutSession, SaveName, Grown, NoncesKept
<1>3. CASE CheckDirectory(c)
    BY <1>3 DEF CheckDirectory, Grown, NoncesKept
<1>4. CASE ClaimName(c)
    <2>1. ASSUME NEW old, NEW trouble, Claim(c, old, trouble)
          PROVE  past'.opened = past.opened /\ past.trouble \subseteq past'.trouble
                 /\ mem'.nonces = mem.nonces
        BY <1>0, <2>1 DEF Claim, MemType, PastType
    <2> QED
        BY <1>4, <2>1 DEF ClaimName, Grown, NoncesKept
<1> QED
    BY <1>1, <1>2, <1>3, <1>4

LEMMA ServerGrown == ASSUME Typed, ServerStep PROVE Grown
<1>0. past \in PastType
    BY DEF Typed, Rows
<1>1. ASSUME NEW c \in Calls, MakeNonce(c) \/ CheckNonce(c) \/ LoadNonce(c) PROVE Grown
    BY <1>0, <1>1, TroubleAdds DEF MakeNonce, CheckNonce, LoadNonce, UseNonce, Grown, PastType
<1>2. CASE Restart \/ (\E n \in Nonces : ExpireNonce(n)) \/ (\E t \in Tokens : Revoke(t))
    BY <1>0, <1>2 DEF Restart, ExpireNonce, Revoke, Grown, PastType
<1> QED
    BY <1>1, <1>2, ResolverQuiet, SessionQuiet, OtherQuiet DEF ServerStep

-----------------------------------------------------------------------------
(* A nonce opens one session.                                              *)
NoncesOnce ==
    /\ \A c \in Calls : /\ calls[c].nonce # Null => mem.nonces[calls[c].nonce] # Null
                        /\ calls[c].step # "loadNonce"
    /\ \A n \in Nonces :
         /\ mem.nonces[n] # Null => n \in issued
         /\ past.opened[n] <= 1
         /\ past.opened[n] = 1 => mem.nonces[n] # Null /\ mem.nonces[n].used
NoncesInv == "restart" \notin past.trouble => NoncesOnce

(* A nonce of a request is one a request had before.                       *)
NoncesPass ==
    \A d \in Calls :
        /\ calls'[d].nonce = Null \/ \E e \in Calls : calls'[d].nonce = calls[e].nonce
        /\ calls'[d].step = "loadNonce" => calls[d].step = "loadNonce"

LEMMA NoncesKeptOnce ==
    ASSUME NoncesOnce, NoncesPass, NoncesKept, Grown
    PROVE  NoncesOnce'
    BY DEF NoncesOnce, NoncesPass, NoncesKept, Grown

LEMMA MakeNonceOnce ==
    ASSUME Typed, NoncesOnce, NEW c \in Calls, MakeNonce(c)
    PROVE  NoncesOnce'
<1>1. PICK call : call = calls[c]
    OBVIOUS
<1>2. call \in CallType
    BY <1>1, CallAt DEF Typed
<1>3. PICK k \in Nonces \ issued : k = CHOOSE x \in Draw(Nonces) : TRUE
    BY Drawn DEF MakeNonce
<1>4. PICK r : r = FreshNonce(call)
    OBVIOUS
<1>5. r # Null
    <2>1. call.w \in Wallets
        BY <1>1, CallAt DEF Typed, MakeNonce, CallOK
    <2>2. r \in NonceRow
        BY <1>4, <2>1 DEF FreshNonce, NonceRow
    <2> QED
        BY <2>2, NullApart
<1>6. /\ mem'.nonces = [mem.nonces EXCEPT ![k] = r] /\ issued' = issued \cup {k}
      /\ UNCHANGED past /\ mem.nonces \in [Nonces -> Optional(NonceRow)]
    BY <1>1, <1>3, <1>4 DEF MakeNonce, Typed, TypeOK, MemType
<1>7. calls' = [calls EXCEPT ![c] = [call EXCEPT !.step = "putNonce", !.nonce = k]]
    BY <1>1, <1>3 DEF MakeNonce, Move
<1>8. ASSUME NEW d \in Calls
      PROVE  /\ calls'[d].nonce \in {k, calls[d].nonce}
             /\ calls'[d].step \in {"putNonce", calls[d].step}
    BY <1>2, <1>7 DEF Typed, CallsOK, CallType
<1>9. \A d \in Calls : calls[d].nonce \in Optional(Nonces)
    BY DEF Typed, CallsOK, CallType
<1>10. past.opened[k] \in 0..2 /\ past.opened[k] <= 1 /\ past.opened[k] # 1
    BY <1>3 DEF NoncesOnce, Typed, Rows, PastType
<1>11. \A d \in Calls : calls'[d].nonce # Null => mem'.nonces[calls'[d].nonce] # Null
    BY <1>5, <1>6, <1>8, <1>9 DEF NoncesOnce, Optional
<1>12. \A d \in Calls : calls'[d].step # "loadNonce"
    BY <1>8 DEF NoncesOnce
<1>13. \A n \in Nonces :
         /\ mem'.nonces[n] # Null => n \in issued'
         /\ past'.opened[n] <= 1
         /\ past'.opened[n] = 1 => mem'.nonces[n] # Null /\ mem'.nonces[n].used
    BY <1>6, <1>10 DEF NoncesOnce
<1> QED
    BY <1>11, <1>12, <1>13 DEF NoncesOnce

LEMMA CheckNonceOnce ==
    ASSUME Typed, NoncesOnce, NEW c \in Calls, CheckNonce(c)
    PROVE  NoncesOnce'
<1>1. PICK call : call = calls[c]
    OBVIOUS
<1>2. call \in CallType /\ CallOK(call) /\ call.step = "verify"
    BY <1>1, CallAt DEF Typed, CheckNonce
<1>3. PICK k \in Nonces : k = call.nonce
    BY <1>2 DEF CallOK, Stage, Doing, ResolveSteps, NameSteps
<1>4. mem.nonces[k] # Null /\ k # Null
    BY <1>1, <1>3, NullApart DEF NoncesOnce
<1>5. UseNonce(c, mem) /\ UNCHANGED issued
    BY <1>1, <1>3, <1>4 DEF CheckNonce
<1>6. /\ mem.nonces \in [Nonces -> Optional(NonceRow)] /\ mem.nonces[k] \in NonceRow
      /\ past.opened \in [Nonces -> 0..2]
    BY <1>4 DEF Typed, TypeOK, MemType, Optional, Rows, PastType
<1>7. AllFollow
    BY NonceFollows
<1>8. ASSUME NEW d \in Calls
      PROVE  calls'[d].nonce = calls[d].nonce /\ calls'[d].step # "loadNonce"
    <2>1. CASE d = c
        <3>1. calls'[d].nonce = calls[d].nonce
            BY <1>1, <1>2, <1>7, <2>1 DEF AllFollow, Follows
        <3>2. calls'[d] \in {Answered(call, "no"), Resolving(call, call.w, "signed")}
            BY <1>1, <1>5, <2>1 DEF UseNonce, Answer, Move, Typed, CallsOK
        <3>3. Answered(call, "no").step = "reply" /\ Resolving(call, call.w, "signed").step = "account"
            BY <1>2 DEF Answered, Idle, Resolving, CallType
        <3> QED
            BY <3>1, <3>2, <3>3
    <2>2. CASE d # c
        BY <1>5, <2>2 DEF UseNonce, Answer, Move, Typed, CallsOK, NoncesOnce
    <2> QED
        BY <2>1, <2>2
<1>a. CASE Unusable(mem.nonces[k])
    <2>1. mem' = mem /\ past' = past
        BY <1>a, <1>1, <1>3, <1>5 DEF UseNonce
    <2> QED
        BY <1>5, <1>8, <2>1 DEF NoncesOnce
<1>b. CASE ~Unusable(mem.nonces[k])
    <2>1. PICK r : r = [mem.nonces[k] EXCEPT !.used = TRUE]
        OBVIOUS
    <2>2. r.used /\ r # Null
        BY <1>6, <2>1, NullApart DEF NonceRow
    <2>3. mem'.nonces = [mem.nonces EXCEPT ![k] = r]
        BY <1>b, <1>1, <1>3, <1>5, <2>1 DEF UseNonce, Typed, TypeOK, MemType
    <2>4. past.opened[k] = 0
        BY <1>b, <1>6 DEF NoncesOnce, Unusable
    <2>5. past'.opened = [past.opened EXCEPT ![k] = 1]
        BY <1>b, <1>1, <1>3, <1>5, <1>6, <2>4 DEF UseNonce, Typed, Rows, PastType
    <2>6. \A n \in Nonces :
         /\ mem'.nonces[n] # Null => n \in issued'
         /\ past'.opened[n] <= 1
         /\ past'.opened[n] = 1 => mem'.nonces[n] # Null /\ mem'.nonces[n].used
        BY <1>4, <1>5, <1>6, <2>2, <2>3, <2>5 DEF NoncesOnce
    <2>7. \A d \in Calls : calls'[d].nonce # Null => mem'.nonces[calls'[d].nonce] # Null
        BY <1>6, <1>8, <2>2, <2>3 DEF NoncesOnce
    <2> QED
        BY <1>8, <2>6, <2>7 DEF NoncesOnce
<1> QED
    BY <1>a, <1>b

LEMMA ExpireNonceOnce ==
    ASSUME Typed, NoncesOnce, NEW k \in Nonces, ExpireNonce(k)
    PROVE  NoncesOnce'
<1>1. PICK r : r = IF mem.nonces[k] = Null THEN Null ELSE [mem.nonces[k] EXCEPT !.used = TRUE]
    OBVIOUS
<1>2. mem.nonces \in [Nonces -> Optional(NonceRow)]
    BY DEF Typed, TypeOK, MemType
<1>3. mem'.nonces = [mem.nonces EXCEPT ![k] = r] /\ UNCHANGED <<calls, issued, past>>
    BY <1>1 DEF ExpireNonce, Typed, TypeOK, MemType
<1>4. (r = Null <=> mem.nonces[k] = Null) /\ (r # Null => r.used)
    <2>1. mem.nonces[k] \in NonceRow => [mem.nonces[k] EXCEPT !.used = TRUE] \in NonceRow
        BY DEF NonceRow
    <2>2. mem.nonces[k] \in NonceRow => [mem.nonces[k] EXCEPT !.used = TRUE].used
        BY DEF NonceRow
    <2> QED
        BY <1>1, <1>2, <2>1, <2>2, NullApart DEF Optional
<1>5. \A c \in Calls : calls[c].nonce \in Optional(Nonces)
    BY DEF Typed, CallsOK, CallType
<1>6. \A n \in Nonces : mem'.nonces[n] = Null <=> mem.nonces[n] = Null
    BY <1>2, <1>3, <1>4
<1>7. \A c \in Calls : calls[c].nonce # Null => mem'.nonces[calls[c].nonce] # Null
    BY <1>5, <1>6 DEF Optional, NoncesOnce
<1>8. \A n \in Nonces : past.opened[n] = 1 => mem'.nonces[n].used
    BY <1>2, <1>3, <1>4, <1>6 DEF NoncesOnce
<1> QED
    BY <1>3, <1>6, <1>7, <1>8 DEF NoncesOnce

LEMMA ServerNonces ==
    ASSUME Typed, NoncesInv, ServerStep
    PROVE  NoncesInv'
<1> SUFFICES ASSUME "restart" \notin past'.trouble PROVE NoncesOnce'
    BY DEF NoncesInv
<1>0. Grown /\ AllFollow
    BY ServerGrown, ServerFollows
<1>1. NoncesOnce
    BY <1>0 DEF NoncesInv, Grown
<1>2. ~Restart
    BY DEF Restart, Typed, Rows, PastType
<1>3. ASSUME NEW c \in Calls,
             \/ ReadAccount(c) \/ ReadProfile(c) \/ PutProfile(c) \/ PutAccount(c)
             \/ ReadSession(c) \/ LookUpSession(c) \/ RestoreSession(c) \/ OpenSession(c)
             \/ Logout(c) \/ PutNonce(c) \/ SignSession(c) \/ PutSession(c)
             \/ CheckDirectory(c) \/ ClaimName(c) \/ SaveName(c)
      PROVE  NoncesOnce'
    <2>1. NoncesKept
        BY <1>3, ResolverQuiet, SessionQuiet, OtherQuiet
    <2>2. calls[c].step \notin {"challenge", "verify"}
        BY <1>3 DEF ReadAccount, ReadProfile, PutProfile, PutAccount, ReadSession, LookUpSession,
           RestoreSession, OpenSession, Logout, PutNonce, SignSession, PutSession,
           CheckDirectory, ClaimName, SaveName
    <2>3. NoncesPass
        <3>1. ASSUME NEW d \in Calls
              PROVE  /\ calls'[d].nonce = calls[d].nonce \/ calls[d].step = "challenge"
                     /\ calls'[d].step = "loadNonce" => calls[d].step \in {"verify", "loadNonce"}
            BY <1>0 DEF AllFollow, Follows
        <3>2. ASSUME NEW d \in Calls, calls[d].step \in {"challenge", "verify"}
              PROVE  calls'[d].nonce = calls[d].nonce /\ calls'[d].step = calls[d].step
            BY <1>3, <2>2, <3>2, OthersStay DEF Serves, Keeps
        <3> QED
            BY <3>1, <3>2 DEF NoncesPass
    <2> QED
        BY <1>0, <1>1, <2>1, <2>3, NoncesKeptOnce
<1>4. ASSUME NEW c \in Calls, LoadNonce(c) PROVE FALSE
    BY <1>1, <1>4 DEF LoadNonce, NoncesOnce
<1>5. ASSUME NEW t \in Tokens, Revoke(t) PROVE NoncesOnce'
    BY <1>1, <1>5 DEF Revoke, NoncesOnce
<1> QED
    BY <1>1, <1>2, <1>3, <1>4, <1>5, MakeNonceOnce, CheckNonceOnce, ExpireNonceOnce DEF ServerStep

(* The steps of the browser, and the request each leaves behind.           *)
Browses(c) ==
    \/ \E w \in Wallets \cup {Null} : ChangeWallet(c, w)
    \/ SignIn(c) \/ SignOut(c) \/ \E n \in Names : Rename(c, n)
    \/ \E w \in Wallets, n \in Names : RenameElsewhere(c, w, n)
    \/ Sign(c) \/ \E d \in Calls : Repeat(c, d)
    \/ LoseAnswer(c)
    \/ CheckAnswered(c) \/ SignInAnswered(c) \/ ChallengeAnswered(c)
    \/ VerifyAnswered(c) \/ SignOutAnswered(c) \/ OtherAnswered(c)

LEMMA NextCases ==
    ASSUME Next
    PROVE  (ServerStep /\ UNCHANGED <<jar, page>>) \/ \E c \in Calls : Browses(c)
    BY DEF Next, Browses

Fresh(n, call) ==
    /\ n.step \in {"idle", "session", "logout", "account", "sign", "verify", "challenge", "reply"}
    /\ n.step = "account" => n.after = "naming"
    /\ n.nonce = Null \/ \E e \in Calls : n.nonce = calls[e].nonce
    /\ n.cookie \in {jar, Null, call.cookie}
    /\ n.new \in {Null, call.new}

LEMMA RequestFresh ==
    ASSUME NEW kind, NEW step \in {"session", "logout"}, NEW w, NEW want, NEW call
    PROVE  Fresh(Request(kind, step, w, want), call)
    BY DEF Request, Idle, Fresh

LEMMA SigningFresh ==
    ASSUME NEW kind, NEW step \in {"sign", "verify"}, NEW w, NEW e \in Calls, NEW call
    PROVE  Fresh(Signing(kind, step, w, calls[e].nonce), call)
    BY DEF Signing, Idle, Fresh

LEMMA ElsewhereFresh ==
    ASSUME NEW w, NEW name, NEW call
    PROVE  Fresh(Elsewhere(w, name), call)
    BY DEF Elsewhere, Resolving, Idle, Fresh

LEMMA ChallengeFresh ==
    ASSUME NEW w, NEW call
    PROVE  Fresh([Idle EXCEPT !.kind = "challenge", !.step = "challenge", !.w = w], call)
    BY DEF Idle, Fresh

LEMMA SteppedFresh ==
    ASSUME Typed, NEW c \in Calls, calls[c].step \in {"sign", "reply"}
    PROVE  Fresh(Stepped(calls[c], "verify"), calls[c])
           /\ (calls[c].step = "reply" => Fresh(Mislaid(calls[c]), calls[c]))
    BY DEF Stepped, Mislaid, Typed, CallsOK, CallType, Fresh

LEMMA BrowserMoves ==
    ASSUME Typed, NEW c \in Calls, Browses(c)
    PROVE  \E n : Move(c, n) /\ Fresh(n, calls[c])
<1>1. Fresh(Idle, calls[c])
    BY IdleFields DEF Fresh
<1>a. CASE \/ \E w \in Wallets \cup {Null} : ChangeWallet(c, w)
           \/ SignIn(c) \/ SignOut(c) \/ \E n \in Names : Rename(c, n)
    <2>1. \E step \in {"session", "logout"} : \E kind, w, want : Move(c, Request(kind, step, w, want))
        BY <1>a DEF ChangeWallet, SignIn, SignOut, Rename, Start, Request
    <2> QED
        BY <2>1, RequestFresh
<1>b. CASE \E w \in Wallets, n \in Names : RenameElsewhere(c, w, n)
    BY <1>b, ElsewhereFresh DEF RenameElsewhere, Elsewhere
<1>c. CASE Sign(c)
    BY <1>1, <1>c, SteppedFresh DEF Sign, At, Stepped
<1>d. CASE \E d \in Calls : Repeat(c, d)
    BY <1>d, SigningFresh DEF Repeat, Signing
<1>e. CASE LoseAnswer(c)
    BY <1>e, SteppedFresh DEF LoseAnswer, Mislaid
<1>f. CASE SignInAnswered(c)
    BY <1>1, <1>f, ChallengeFresh DEF SignInAnswered
<1>g. CASE ChallengeAnswered(c)
    BY <1>1, <1>g, SigningFresh DEF ChallengeAnswered, Signing
<1>h. CASE CheckAnswered(c) \/ VerifyAnswered(c) \/ SignOutAnswered(c) \/ OtherAnswered(c)
    BY <1>1, <1>h DEF CheckAnswered, VerifyAnswered, SignOutAnswered, OtherAnswered
<1> QED
    BY <1>a, <1>b, <1>c, <1>d, <1>e, <1>f, <1>g, <1>h DEF Browses

(* The browser leaves the server alone, and adds to the history at most.   *)
LEMMA BrowserQuiet ==
    ASSUME Typed, NEW c \in Calls, Browses(c)
    PROVE  /\ ServerQuiet /\ Grown /\ NoncesKept
           /\ jar' \in {jar, Null, calls[c].new}
<1>1. ServerQuiet /\ (UNCHANGED past \/ \E what : Trouble(what))
    BY DEF ChangeWallet, SignIn, SignOut, Rename, RenameElsewhere, Sign, Repeat, LoseAnswer,
       CheckAnswered, SignInAnswered, ChallengeAnswered, VerifyAnswered, SignOutAnswered,
       OtherAnswered, Receive, Browses
<1>2. calls[c].set \in {"keep", "clear", "put"}
    BY DEF Typed, CallsOK, CallType, CookieOrders
<1>3. UNCHANGED jar \/ Receive(c)
    BY DEF ChangeWallet, SignIn, SignOut, Rename, RenameElsewhere, Sign, Repeat, LoseAnswer,
       CheckAnswered, SignInAnswered, ChallengeAnswered, VerifyAnswered, SignOutAnswered,
       OtherAnswered, Browses
<1>4. jar' \in {jar, Null, calls[c].new}
    BY <1>2, <1>3 DEF Receive
<1> QED
    BY <1>1, <1>4, TroubleAdds DEF ServerQuiet, Grown, NoncesKept, Typed, Rows

LEMMA BrowserNonces ==
    ASSUME Typed, NoncesInv, NEW c \in Calls, Browses(c)
    PROVE  NoncesInv'
<1>1. Grown /\ NoncesKept
    BY BrowserQuiet
<1>2. PICK n : Move(c, n) /\ Fresh(n, calls[c])
    BY BrowserMoves
<1>3. NoncesPass
    BY <1>2 DEF Fresh, Move, Typed, CallsOK, NoncesPass
<1> QED
    BY <1>1, <1>3, NoncesKeptOnce DEF NoncesInv, Grown

(* NonceOpensOneSession: a signed challenge opens at most one session as   *)
(* long as the process that issued it runs: no other request can slip      *)
(* between the look at the nonce and the mark on it.                       *)
THEOREM ChallengeOpensOneSession == Spec => []NonceOpensOneSession
<1>1. Init => NoncesInv
    BY IdleFields, EmptyTyped DEF Init, ServerInit, NoncesInv, NoncesOnce
<1>2. Typed /\ NoncesInv /\ [Next]_vars => NoncesInv'
    <2>1. ASSUME UNCHANGED vars, NoncesInv PROVE NoncesInv'
        BY <2>1 DEF vars, NoncesInv, NoncesOnce
    <2> QED
        BY <2>1, ServerNonces, BrowserNonces, NextCases
<1>3. Typed /\ NoncesInv => NonceOpensOneSession
    BY DEF NoncesInv, NoncesOnce, NonceOpensOneSession, Typed, Rows, PastType
<1> QED
    BY <1>1, <1>2, <1>3, AlwaysTyped, PTL DEF Spec

-----------------------------------------------------------------------------
(* A token belongs to one wallet: every session, row, cookie and request   *)
(* that bears it names that wallet.                                        *)
Fits(r, t, w) == r # Null /\ r.token = t /\ r.wallet = w
Row(r, w) == r # Null /\ r.wallet = w
CallHolds(call, t, w) ==
    \/ Fits(call.cookie, t, w) \/ Fits(call.new, t, w)
    \/ Doing(call, "restored") /\ call.cookie.token = t /\ call.who = w
Holds(t, w) ==
    \/ Row(mem.sessions[t], w) \/ Row(db.sessions[t], w) \/ Fits(jar, t, w)
    \/ \E c \in Calls : CallHolds(calls[c], t, w)
TokensInv ==
    /\ \A t \in Tokens, w \in Wallets : Holds(t, w) => t \in issued
    /\ \A t \in Tokens, w, v \in Wallets : Holds(t, w) /\ Holds(t, v) => w = v

(* The Maps and tables of sessions are left alone.                         *)
SessionsSame == mem'.sessions = mem.sessions /\ db'.sessions = db.sessions

LEMMA ServesQuietly ==
    ASSUME Typed, NEW c \in Calls,
           \/ ReadAccount(c) \/ ReadProfile(c) \/ PutProfile(c) \/ PutAccount(c)
           \/ MakeNonce(c) \/ PutNonce(c) \/ CheckNonce(c) \/ LoadNonce(c)
           \/ CheckDirectory(c) \/ ClaimName(c) \/ SaveName(c)
    PROVE  SessionsSame
<1>0. mem \in MemType /\ db \in DbType
    BY DEF Typed, TypeOK
<1>1. CASE ReadProfile(c)
    <2>1. calls[c].who \in Wallets
        BY <1>1, CallAt DEF Typed, ReadProfile, CallOK, ResolveSteps
    <2>2. PICK user : Rebuild(c, user)
        BY <1>1 DEF ReadProfile
    <2> QED
        BY <1>1, <2>1, <2>2, RebuildUsers DEF Typed, SessionsSame, ReadProfile
<1>2. CASE ReadAccount(c)
    <2>1. mem' = mem \/ \E user : mem' = [mem EXCEPT !.users[calls[c].who] = user]
        BY <1>2 DEF ReadAccount
    <2> QED
        BY <1>0, <1>2, <2>1 DEF MemType, ReadAccount, SessionsSame
<1>3. CASE PutProfile(c) \/ PutAccount(c) \/ PutNonce(c) \/ CheckDirectory(c) \/ SaveName(c)
    BY <1>0, <1>3 DEF PutProfile, PutAccount, PutNonce, CheckDirectory, SaveName, SessionsSame, DbType
<1>4. CASE MakeNonce(c)
    BY <1>0, <1>4 DEF MakeNonce, SessionsSame, MemType
<1>5. CASE CheckNonce(c) \/ LoadNonce(c)
    <2>1. ASSUME NEW m, UseNonce(c, m), m = mem \/ \E k, r : m = [mem EXCEPT !.nonces[k] = r]
          PROVE  mem'.sessions = mem.sessions
        <3>1. \E k, r : mem' = m \/ mem' = [m EXCEPT !.nonces[k].used = r]
            BY <2>1 DEF UseNonce
        <3> QED
            BY <1>0, <2>1, <3>1 DEF MemType
    <2>2. /\ UNCHANGED db
          /\ \/ UNCHANGED mem
             \/ UseNonce(c, mem)
             \/ \E k, r : UseNonce(c, [mem EXCEPT !.nonces[k] = r])
        BY <1>5 DEF CheckNonce, LoadNonce
    <2> QED
        BY <2>1, <2>2 DEF SessionsSame
<1>6. CASE ClaimName(c)
    <2>1. UNCHANGED db /\ (UNCHANGED mem \/ \E old, trouble : Claim(c, old, trouble))
        BY <1>6 DEF ClaimName
    <2>2. ASSUME NEW old, NEW trouble, Claim(c, old, trouble)
          PROVE  mem'.sessions = mem.sessions
        BY <1>0, <2>2 DEF Claim, MemType
    <2> QED
        BY <2>1, <2>2 DEF SessionsSame
<1> QED
    BY <1>1, <1>2, <1>3, <1>4, <1>5, <1>6

LEMMA FollowsHolds ==
    ASSUME Typed, NEW d \in Calls, NEW call, call = calls[d], NEW n, Follows(n, call),
           n.new = call.new, NEW t, NEW w, CallHolds(n, t, w)
    PROVE  Holds(t, w)
<1>1. CASE Fits(n.cookie, t, w) \/ Fits(n.new, t, w)
    BY <1>1 DEF Follows, Fits, CallHolds, Holds
<1>2. CASE Doing(n, "restored") /\ n.cookie.token = t /\ n.who = w
    <2>1. CASE Doing(call, "restored") /\ n.who = call.who
        BY <1>2, <2>1 DEF Follows, Holds, CallHolds
    <2>2. CASE /\ db.sessions[call.cookie.token] # Null
               /\ n.who = db.sessions[call.cookie.token].wallet
        BY <1>2, <2>2 DEF Follows, Holds, Row
    <2> QED
        BY <1>2, <2>1, <2>2 DEF Follows
<1> QED
    BY <1>1, <1>2 DEF CallHolds

LEMMA TokensKept ==
    ASSUME TokensInv, issued \subseteq issued',
           \A t \in Tokens, w \in Wallets : Holds(t, w)' => Holds(t, w)
    PROVE  TokensInv'
    BY DEF TokensInv

LEMMA RowKept ==
    ASSUME NEW t \in Tokens, NEW w \in Wallets,
           \/ mem'.sessions[t] = mem.sessions[t] \/ mem'.sessions[t] = Null
           \/ \E v : mem'.sessions[t].wallet = v /\ Holds(t, v),
           \/ db'.sessions[t] = db.sessions[t] \/ db'.sessions[t] = Null
           \/ \E v : db'.sessions[t].wallet = v /\ Holds(t, v),
           UNCHANGED jar, Holds(t, w)',
           \A d \in Calls : CallHolds(calls'[d], t, w) => Holds(t, w)
    PROVE  Holds(t, w)
<1>1. \/ Row(mem'.sessions[t], w) \/ Row(db'.sessions[t], w) \/ Fits(jar', t, w)
      \/ \E d \in Calls : CallHolds(calls'[d], t, w)
    BY DEF Holds, CallHolds, Fits, Doing, Row
<1>2. CASE Row(mem'.sessions[t], w)
    BY <1>2 DEF Row, Holds
<1>3. CASE Row(db'.sessions[t], w)
    BY <1>3 DEF Row, Holds
<1>4. CASE Fits(jar', t, w)
    BY <1>4 DEF Holds
<1> QED
    BY <1>1, <1>2, <1>3, <1>4

LEMMA NewKept ==
    ASSUME Typed, NEW c \in Calls, Serves(c), ~OpenSession(c), ~SignSession(c),
           NEW d \in Calls
    PROVE  calls'[d].new = calls[d].new
<1>1. CASE d = c
    <2>1. calls[c].step \notin {"opened", "signed"}
        BY DEF Serves, ReadAccount, ReadProfile, PutProfile, PutAccount, ReadSession,
           LookUpSession, RestoreSession, Logout, MakeNonce, PutNonce, CheckNonce,
           LoadNonce, PutSession, CheckDirectory, ClaimName, SaveName
    <2> QED
        BY <1>1, <2>1, ServerFollows DEF ServerStep, Serves, AllFollow, Follows
<1>2. CASE d # c
    BY <1>2, OthersStay DEF Keeps
<1> QED
    BY <1>1, <1>2

(* The Maps once a session is found again: in its row, or in the cookie.   *)
Remembers(m, t, x) == [m EXCEPT !.sessions[t] = x]
Recalls(m, w, user, t, x) == [m EXCEPT !.users[w] = user, !.sessions[t] = x]

LEMMA AuthenticatedSessions ==
    ASSUME NEW c, NEW w, NEW user, NEW t, NEW x, NEW wallet, NEW r, mem \in MemType,
           r \in {Remembers(mem, t, x), Recalls(mem, w, user, t, x)},
           Authenticated(c, r, wallet, t)
    PROVE  mem'.sessions \in {[mem.sessions EXCEPT ![t] = x], [mem.sessions EXCEPT ![t] = Null]}
<1>0. mem' \in {r, Dropped(r, t)}
    BY DEF Authenticated
<1>m. PICK m : m = mem
    OBVIOUS
<1>1. PICK u, s, d, n : m = [users |-> u, sessions |-> s, directory |-> d, nonces |-> n]
    BY <1>m DEF MemType
<1>2. PICK z : z = [s EXCEPT ![t] = x]
    OBVIOUS
<1>3. PICK v : v = [u EXCEPT ![w] = user]
    OBVIOUS
<1>4. Remembers(m, t, x) = [users |-> u, sessions |-> z, directory |-> d, nonces |-> n]
    BY <1>1, <1>2 DEF Remembers
<1>5. Recalls(m, w, user, t, x) = [users |-> v, sessions |-> z, directory |-> d, nonces |-> n]
    <2>1. Recalls(m, w, user, t, x) = [m EXCEPT !.users = v, !.sessions = z]
        BY <1>1, <1>2, <1>3 DEF Recalls
    <2> QED
        BY <1>1, <2>1
<1>6. PICK y : r = [users |-> y, sessions |-> z, directory |-> d, nonces |-> n]
    BY <1>m, <1>4, <1>5
<1>7. r.sessions = z /\ z = [m.sessions EXCEPT ![t] = x]
    BY <1>1, <1>2, <1>6
<1>8. Dropped(r, t).sessions = [z EXCEPT ![t] = Null]
    BY <1>6 DEF Dropped
<1>9. [z EXCEPT ![t] = Null] = [m.sessions EXCEPT ![t] = Null]
    BY <1>7
<1> QED
    BY <1>0, <1>m, <1>7, <1>8, <1>9

LEMMA ServesTokens ==
    ASSUME Typed, TokensInv, NEW c \in Calls, Serves(c), ~OpenSession(c), ~SignSession(c),
           UNCHANGED jar
    PROVE  TokensInv'
<1>1. PICK call : call = calls[c]
    OBVIOUS
<1>2. CallOK(call) /\ call \in CallType
    BY <1>1, CallAt DEF Typed
<1>3. AllFollow /\ Grown
    BY ServerFollows, ServerGrown DEF ServerStep, Serves
<1>4. ASSUME NEW d \in Calls, NEW t, NEW w, CallHolds(calls'[d], t, w)
      PROVE  Holds(t, w)
    BY <1>3, <1>4, NewKept, FollowsHolds DEF AllFollow
<1>5. mem.sessions \in [Tokens -> Optional(Session)] /\ db.sessions \in [Tokens -> Optional(Session)]
      /\ mem \in MemType /\ db \in DbType
    BY DEF Typed, TypeOK, MemType, DbType
<1> DEFINE MemRows == \A t \in Tokens : \/ mem'.sessions[t] = mem.sessions[t] \/ mem'.sessions[t] = Null
                                        \/ \E v : mem'.sessions[t].wallet = v /\ Holds(t, v)
           DbRows == \A t \in Tokens : \/ db'.sessions[t] = db.sessions[t] \/ db'.sessions[t] = Null
                                       \/ \E v : db'.sessions[t].wallet = v /\ Holds(t, v)
<1>6. ASSUME MemRows, DbRows PROVE TokensInv'
    BY <1>3, <1>4, <1>6, RowKept, TokensKept DEF Grown
<1>a. CASE SessionsSame
    BY <1>a, <1>6 DEF SessionsSame
<1>b. CASE ReadSession(c)
    <2>1. UNCHANGED db /\ (mem' = mem \/ \E t : mem' = Dropped(mem, t))
        BY <1>b DEF ReadSession, Authenticated
    <2>2. MemRows
        BY <1>5, <2>1 DEF Dropped, MemType
    <2> QED
        BY <1>6, <2>1, <2>2
<1>c. CASE Logout(c)
    <2>1. UNCHANGED db /\ (mem' = mem \/ \E t : mem' = Dropped(mem, t))
        BY <1>c DEF Logout
    <2>2. MemRows
        BY <1>5, <2>1 DEF Dropped, MemType
    <2> QED
        BY <1>6, <2>1, <2>2
<1>d. CASE LookUpSession(c)
    <2>1. call.step = "lookup" /\ call.cookie # Null
        BY <1>d, <1>1, <1>2 DEF LookUpSession, CallOK, Stage, Resolver, Doing,
           ResolveSteps, NameSteps
    <2>2. PICK ck \in Cookie : ck = call.cookie /\ ck.wallet \in Wallets /\ ck.token \in Tokens
        BY <1>2, <2>1, CookieTyped
    <2>3. Holds(ck.token, ck.wallet)
        BY <1>1, <2>1, <2>2 DEF Holds, CallHolds, Fits
    <2>4. /\ UNCHANGED db
          /\ \/ mem' = mem
             \/ \E user, i : Authenticated(c,
                     Recalls(mem, ck.wallet, user, ck.token, [wallet |-> ck.wallet, id |-> i]),
                     ck.wallet, ck.token)
        BY <1>d, <1>1, <2>2 DEF LookUpSession, Recalls
    <2>5. ASSUME NEW user, NEW i, NEW x, x = [wallet |-> ck.wallet, id |-> i],
                 Authenticated(c, Recalls(mem, ck.wallet, user, ck.token, x), ck.wallet, ck.token)
          PROVE  MemRows
        <3>1. mem'.sessions = [mem.sessions EXCEPT ![ck.token] = x]
              \/ mem'.sessions = [mem.sessions EXCEPT ![ck.token] = Null]
            BY <1>5, <2>2, <2>5, AuthenticatedSessions
        <3>2. x.wallet = ck.wallet
            BY <2>5
        <3> QED
            BY <1>5, <2>3, <3>1, <3>2
    <2> QED
        BY <1>6, <2>4, <2>5
<1>e. CASE RestoreSession(c)
    <2>1. call.step = "restored" /\ call.cookie # Null /\ call.who \in Wallets
        BY <1>e, <1>1, <1>2 DEF RestoreSession, CallOK, Stage, Resolver, Doing,
           ResolveSteps, NameSteps, ResolvedSteps
    <2>2. PICK k \in Tokens : k = call.cookie.token
        BY <1>2, <2>1, CookieTyped
    <2>3. Holds(k, call.who)
        BY <1>1, <2>1, <2>2 DEF Holds, CallHolds, Doing
    <2>4. PICK x : x = [wallet |-> call.who, id |-> Object(call).id]
        OBVIOUS
    <2>5. UNCHANGED db /\ Authenticated(c, Remembers(mem, k, x), call.who, k)
        BY <1>e, <1>1, <2>2, <2>4 DEF RestoreSession, Remembers
    <2>6. mem'.sessions = [mem.sessions EXCEPT ![k] = x]
          \/ mem'.sessions = [mem.sessions EXCEPT ![k] = Null]
        BY <1>5, <2>2, <2>5, AuthenticatedSessions
    <2>7. x.wallet = call.who
        BY <2>4
    <2>8. MemRows
        BY <1>5, <2>3, <2>6, <2>7
    <2> QED
        BY <1>6, <2>5, <2>8
<1>f. CASE PutSession(c)
    <2>1. call.new \in Cookie
        BY <1>f, <1>1, <1>2, NullApart DEF PutSession, CallOK, CallType, Optional, Stage, Doing,
           ResolveSteps, NameSteps
    <2>2. PICK ck \in Cookie : ck = call.new
        BY <2>1
    <2>3. ck.token \in Tokens /\ ck # Null
        BY NullApart DEF Cookie
    <2>4. Holds(ck.token, ck.wallet)
        BY <1>1, <2>2, <2>3 DEF Holds, CallHolds, Fits
    <2>5. PICK x : x = [wallet |-> ck.wallet, id |-> ck.id]
        OBVIOUS
    <2>6. UNCHANGED mem /\ (db' = db \/ db' = [db EXCEPT !.sessions[ck.token] = x])
        BY <1>f, <1>1, <2>2, <2>5 DEF PutSession
    <2>7. x.wallet = ck.wallet
        BY <2>5
    <2>8. DbRows
        BY <1>5, <2>3, <2>4, <2>6, <2>7 DEF DbType
    <2> QED
        BY <1>6, <2>6, <2>8
<1> QED
    BY <1>a, <1>b, <1>c, <1>d, <1>e, <1>f, ServesQuietly DEF Serves

LEMMA OpenedNew ==
    ASSUME Typed, NEW c \in Calls, OpenSession(c) \/ SignSession(c)
    PROVE  calls'[c].new = NewCookie(calls[c])
<1>1. PICK call : call = calls[c]
    OBVIOUS
<1>2. call \in CallType
    BY <1>1, CallAt DEF Typed
<1>3. PICK x : x = Bearing(call, NewCookie(call))
    OBVIOUS
<1>4. x.new = NewCookie(call)
    BY <1>2, <1>3 DEF CallType, Bearing
<1>m. \A n : Move(c, n) => calls'[c] = n
    BY DEF Move, Typed, CallsOK
<1>5. calls'[c] \in {Resolving(x, call.who, "naming"), Answered(x, "ok"), Stepped(x, "putSession")}
    <2>1. ASSUME OpenSession(c)
          PROVE  Move(c, Resolving(x, call.who, "naming")) \/ Move(c, Answered(x, "ok"))
        BY <1>1, <1>3, <2>1 DEF OpenSession, Bearing
    <2>2. ASSUME SignSession(c) PROVE Move(c, Stepped(x, "putSession"))
        BY <1>1, <1>3, <2>2 DEF SignSession, Bearing, Stepped
    <2> QED
        BY <1>m, <2>1, <2>2
<1>6. x \in CallType
    <2>1. NewCookie(call) \in Cookie
        BY <1>1, OpenedTyped DEF OpenSession, SignSession, ResolvedSteps
    <2> QED
        BY <1>2, <1>3, <2>1, BearingFields
<1>7. /\ Resolving(x, call.who, "naming").new = x.new /\ Answered(x, "ok").new = x.new
      /\ Stepped(x, "putSession").new = x.new
    BY <1>6 DEF Resolving, Answered, Stepped, CallType, Idle
<1> QED
    BY <1>1, <1>4, <1>5, <1>7

LEMMA OpenTokens ==
    ASSUME Typed, TokensInv, NEW c \in Calls, OpenSession(c) \/ SignSession(c), UNCHANGED jar
    PROVE  TokensInv'
<1>1. PICK call : call = calls[c]
    OBVIOUS
<1>2. CallOK(call) /\ call.step \in {"opened", "signed"} /\ Draw(Tokens) # {}
    BY <1>1, CallAt DEF Typed, OpenSession, SignSession
<1>3. PICK k \in Tokens \ issued : k = CHOOSE x \in Draw(Tokens) : TRUE
    BY <1>2, Drawn
<1>4. PICK ck : ck = NewCookie(call)
    OBVIOUS
<1>5. ck.token = k /\ ck.wallet = call.who
    BY <1>3, <1>4 DEF NewCookie
<1>6. PICK x : x = [wallet |-> ck.wallet, id |-> ck.id]
    OBVIOUS
<1>7. /\ mem' = [mem EXCEPT !.sessions[k] = x] /\ issued' = issued \cup {k} /\ UNCHANGED db
    BY <1>1, <1>4, <1>5, <1>6 DEF OpenSession, SignSession, Opened
<1>8. mem'.sessions = [mem.sessions EXCEPT ![k] = x] /\ mem.sessions \in [Tokens -> Optional(Session)]
    BY <1>7 DEF Typed, TypeOK, MemType
<1>9. x.wallet = call.who
    BY <1>5, <1>6
<1>10. AllFollow
    BY OpenFollows
<1>11. calls'[c].new = ck
    BY <1>1, <1>4, OpenedNew
<1>12. ASSUME NEW d \in Calls, NEW t, NEW w, CallHolds(calls'[d], t, w)
       PROVE  Holds(t, w) \/ (t = k /\ w = call.who)
    <2>1. CASE d = c
        <3>1. CASE Fits(calls'[c].cookie, t, w)
            BY <3>1, <1>10 DEF AllFollow, Follows, Fits, Holds, CallHolds
        <3>2. CASE Fits(calls'[c].new, t, w)
            BY <3>2, <1>11, <1>5 DEF Fits
        <3>3. ~Doing(calls'[c], "restored")
            BY <1>1, <1>2, <1>10 DEF AllFollow, Follows, Doing, ResolveSteps
        <3> QED
            BY <1>12, <2>1, <3>1, <3>2, <3>3 DEF CallHolds
    <2>2. CASE d # c
        <3>1. calls'[d].new = calls[d].new
            BY <2>2, OthersStay DEF Serves, Keeps
        <3> QED
            BY <3>1, <1>10, <1>12, FollowsHolds DEF AllFollow
    <2> QED
        BY <2>1, <2>2
<1>13. ASSUME NEW t \in Tokens, NEW w \in Wallets, Holds(t, w)'
       PROVE  Holds(t, w) \/ (t = k /\ w = call.who)
    <2>1. \/ Row(mem'.sessions[t], w) \/ Row(db'.sessions[t], w) \/ Fits(jar', t, w)
          \/ \E d \in Calls : CallHolds(calls'[d], t, w)
        BY <1>13 DEF Holds, CallHolds, Fits, Doing, Row
    <2>2. CASE Row(mem'.sessions[t], w)
        BY <2>2, <1>8, <1>9 DEF Row, Holds
    <2>3. CASE Row(db'.sessions[t], w) \/ Fits(jar', t, w)
        BY <2>3, <1>7 DEF Holds
    <2> QED
        BY <2>1, <2>2, <2>3, <1>12
<1> QED
    BY <1>3, <1>7, <1>13 DEF TokensInv

LEMMA AsideTokens ==
    ASSUME Typed, TokensInv, UNCHANGED <<jar, issued>>,
           \A t \in Tokens : mem'.sessions[t] \in {mem.sessions[t], Null},
           \A t \in Tokens : db'.sessions[t] \in {db.sessions[t], Null},
           \A d \in Calls : Follows(calls'[d], calls[d]) /\ calls'[d].new = calls[d].new
    PROVE  TokensInv'
<1>1. ASSUME NEW d \in Calls, NEW t, NEW w, CallHolds(calls'[d], t, w)
      PROVE  Holds(t, w)
    BY <1>1, FollowsHolds
<1> QED
    BY <1>1, RowKept, TokensKept

LEMMA ExpireNonceTokens ==
    ASSUME Typed, TokensInv, NEW k \in Nonces, ExpireNonce(k), UNCHANGED jar
    PROVE  TokensInv'
<1>1. mem'.sessions = mem.sessions /\ db'.sessions = db.sessions
    BY DEF ExpireNonce, Typed, TypeOK, MemType, DbType
<1>2. UNCHANGED <<calls, issued>>
    BY DEF ExpireNonce
<1>3. \A d \in Calls : Follows(calls'[d], calls[d])
    BY <1>2 DEF Follows
<1> QED
    BY <1>1, <1>2, <1>3, AsideTokens

LEMMA RevokeTokens ==
    ASSUME Typed, TokensInv, NEW k \in Tokens, Revoke(k), UNCHANGED jar
    PROVE  TokensInv'
<1>1. UNCHANGED <<mem, calls, issued>>
    BY DEF Revoke
<1>2. \A t \in Tokens : db'.sessions[t] \in {db.sessions[t], Null}
    BY DEF Revoke, Typed, TypeOK, DbType
<1>3. \A d \in Calls : Follows(calls'[d], calls[d])
    BY <1>1 DEF Follows
<1> QED
    BY <1>1, <1>2, <1>3, AsideTokens

LEMMA RestartTokens ==
    ASSUME Typed, TokensInv, Restart, UNCHANGED jar
    PROVE  TokensInv'
<1>1. \A t \in Tokens : mem'.sessions[t] = Null
    BY EmptyTyped DEF Restart
<1>2. db'.sessions = db.sessions /\ UNCHANGED issued
    BY DEF Restart, Typed, TypeOK, DbType
<1>3. ASSUME NEW d \in Calls PROVE calls'[d].new = calls[d].new
    <2>1. calls'[d] \in {calls[d], Answered(Keeping(calls[d]), "lost")}
        BY DEF Restart, Keeping
    <2>2. Answered(Keeping(calls[d]), "lost").new = calls[d].new
        BY DEF Keeping, Answered, Idle, Typed, CallsOK, CallType
    <2> QED
        BY <2>1, <2>2
<1>4. AllFollow
    BY ServerFollows DEF ServerStep
<1> QED
    BY <1>1, <1>2, <1>3, <1>4, AsideTokens DEF AllFollow

LEMMA ServerTokens ==
    ASSUME Typed, TokensInv, ServerStep, UNCHANGED jar
    PROVE  TokensInv'
<1>1. ASSUME NEW c \in Calls, Serves(c) PROVE TokensInv'
    BY <1>1, ServesTokens, OpenTokens
<1> QED
    BY <1>1, ExpireNonceTokens, RevokeTokens, RestartTokens, ServerCases

LEMMA BrowserTokens ==
    ASSUME Typed, TokensInv, NEW c \in Calls, Browses(c)
    PROVE  TokensInv'
<1>1. ServerQuiet /\ jar' \in {jar, Null, calls[c].new}
    BY BrowserQuiet
<1>2. PICK n : Move(c, n) /\ Fresh(n, calls[c])
    BY BrowserMoves
<1>3. \A d \in Calls : calls'[d] = IF d = c THEN n ELSE calls[d]
    BY <1>2 DEF Typed, CallsOK, Move
<1>4. ASSUME NEW t, NEW w, CallHolds(n, t, w) PROVE Holds(t, w)
    <2>1. ~Doing(n, "restored")
        BY <1>2 DEF Fresh, Doing, ResolveSteps
    <2>2. Fits(n.cookie, t, w) \/ Fits(n.new, t, w)
        BY <1>4, <2>1 DEF CallHolds
    <2> QED
        BY <1>2, <2>2 DEF Fresh, Fits, Holds, CallHolds
<1>5. ASSUME NEW t \in Tokens, NEW w \in Wallets, Holds(t, w)' PROVE Holds(t, w)
    <2>1. \/ Row(mem'.sessions[t], w) \/ Row(db'.sessions[t], w) \/ Fits(jar', t, w)
          \/ \E d \in Calls : CallHolds(calls'[d], t, w)
        BY <1>5 DEF Holds, CallHolds, Fits, Doing, Row
    <2>2. CASE Row(mem'.sessions[t], w) \/ Row(db'.sessions[t], w)
        BY <2>2, <1>1 DEF ServerQuiet, Holds
    <2>3. CASE Fits(jar', t, w)
        BY <2>3, <1>1 DEF Fits, Holds, CallHolds
    <2>4. ASSUME NEW d \in Calls, CallHolds(calls'[d], t, w) PROVE Holds(t, w)
        BY <2>4, <1>3, <1>4 DEF Holds
    <2> QED
        BY <2>1, <2>2, <2>3, <2>4
<1> QED
    BY <1>1, <1>5, TokensKept DEF ServerQuiet

LEMMA InitTokens == ASSUME Init PROVE TokensInv
<1>1. \A t \in Tokens : mem.sessions[t] = Null /\ db.sessions[t] = Null
    BY EmptyTyped DEF Init, ServerInit
<1>2. jar = Null /\ \A c \in Calls : calls[c] = Idle
    BY DEF Init, ServerInit
<1>3. ASSUME NEW t, NEW w, CallHolds(Idle, t, w) PROVE FALSE
    BY <1>3, IdleFields DEF CallHolds, Fits, Doing, ResolveSteps
<1>4. \A t \in Tokens, w \in Wallets : ~Holds(t, w)
    BY <1>1, <1>2, <1>3 DEF Holds, Row, Fits
<1> QED
    BY <1>4 DEF TokensInv

LEMMA AlwaysTokens == Spec => []TokensInv
<1>1. Typed /\ TokensInv /\ [Next]_vars => TokensInv'
    <2>1. ASSUME UNCHANGED vars, TokensInv PROVE TokensInv'
        BY <2>1 DEF vars, TokensInv, Holds, CallHolds, Fits, Doing, Row
    <2> QED
        BY <2>1, ServerTokens, BrowserTokens, NextCases
<1> QED
    BY <1>1, InitTokens, AlwaysTyped, PTL DEF Spec

-----------------------------------------------------------------------------
(* The page shows a wallet only while the cookie is that wallet's: nobody  *)
(* vouches for a wallet the cookie is not about.                           *)
JarFits == jar = Null \/ jar.wallet = page.connected
Settled(call) ==
    call.kind \in {"check", "signin"} /\ call.step = "reply" /\ call.out = "ok" /\ call.set = "keep"
AskingOK(call) ==
    call.kind \in AskingKinds =>
        /\ call.w = page.connected
        /\ call.cookie # Null /\ call.cookie.wallet = page.connected => JarFits
        /\ Settled(call) => JarFits
PageOK ==
    /\ \A c \in Calls : AskingOK(calls[c])
    /\ page.cached # Null => page.cached = page.connected /\ JarFits
    /\ page.shown => page.connected # Null /\ JarFits
PageInv == "switch" \notin past.trouble => PageOK

Vouched(call) == call.cookie # Null /\ call.cookie.wallet = call.w

LEMMA ResolvesUnsettled ==
    ASSUME Typed, NEW c \in Calls,
           ReadAccount(c) \/ ReadProfile(c) \/ PutProfile(c) \/ PutAccount(c)
    PROVE  calls'[c].step # "reply"
<1>1. PICK call : call = calls[c]
    OBVIOUS
<1>2. CallOK(call) /\ call \in CallType /\ calls \in [Calls -> CallType]
    BY <1>1, CallAt DEF Typed, CallsOK
<1>a. CASE ReadAccount(c)
    <2>1. PICK user : Move(c, Lent(call, user)) \/ Move(c, Shared(call, user))
        BY <1>1, <1>a, ReadAccountMoves
    <2>2. Lent(call, user).step = "profile" /\ Shared(call, user).step = "putProfile"
        BY <1>2 DEF Lent, Shared, CallType
    <2> QED
        BY <1>2, <2>1, <2>2 DEF Move
<1>b. CASE ReadProfile(c)
    <2>1. PICK user : Rebuild(c, user)
        BY <1>b DEF ReadProfile
    <2>2. calls'[c] = Served(call, user)
        BY <1>1, <2>1, RebuildCalls
    <2>3. call.after # "reply"
        BY <1>2 DEF CallType, Goals
    <2> QED
        BY <1>2, <2>2, <2>3 DEF Served, CallType
<1>c. CASE PutProfile(c) \/ PutAccount(c)
    <2>1. PICK step \in {"putAccount", call.after} : Move(c, Stepped(call, step))
        BY <1>c, <1>1 DEF PutProfile, PutAccount, Stepped
    <2>2. step # "reply"
        BY <1>2, <2>1 DEF CallType, Goals
    <2>3. Stepped(call, step).step = step
        BY <1>2 DEF Stepped, CallType
    <2> QED
        BY <1>2, <2>1, <2>2, <2>3 DEF Move
<1> QED
    BY <1>a, <1>b, <1>c

(* Only the session of the wallet the request names is good.               *)
LEMMA AuthenticatedVouches ==
    ASSUME Typed, NEW c \in Calls, NEW m, NEW wallet, NEW t, Authenticated(c, m, wallet, t),
           Settled(calls'[c])
    PROVE  wallet = calls[c].w
<1> SUFFICES ASSUME wallet # calls[c].w PROVE FALSE
    OBVIOUS
<1>1. calls'[c] = Answered(Cleared(calls[c]), "no")
    BY DEF Authenticated, Move, Typed, CallsOK, Cleared
<1> QED
    BY <1>1 DEF Answered, Idle, Settled

LEMMA ServesSettles ==
    ASSUME Typed, TokensInv, NEW c \in Calls, Serves(c), Settled(calls'[c])
    PROVE  Vouched(calls[c])
<1>1. PICK call : call = calls[c]
    OBVIOUS
<1>2. CallOK(call) /\ call \in CallType
    BY <1>1, CallAt DEF Typed
<1>3. call.kind \in {"check", "signin"}
    BY <1>1, ServerFollows DEF ServerStep, Serves, AllFollow, Follows, Settled
<1>4. call.step \notin {"logout", "challenge", "putNonce", "verify", "loadNonce", "signed",
                        "putSession", "naming", "conflict", "saveName"}
    BY <1>2, <1>3 DEF CallOK, Stage, Doing, ResolveSteps, NameSteps, Signer
<1>5. \/ ReadAccount(c) \/ ReadProfile(c) \/ PutProfile(c) \/ PutAccount(c)
      \/ ReadSession(c) \/ LookUpSession(c) \/ RestoreSession(c) \/ OpenSession(c)
    BY <1>1, <1>4 DEF Serves, Logout, MakeNonce, PutNonce, CheckNonce, LoadNonce, SignSession,
       PutSession, CheckDirectory, ClaimName, SaveName
<1>6. ASSUME call.cookie # Null, NEW w \in Wallets, Holds(call.cookie.token, w)
      PROVE  call.cookie.wallet = w
    <2>1. PICK ck \in Cookie : ck = call.cookie /\ ck.wallet \in Wallets /\ ck.token \in Tokens
        BY <1>2, <1>6, CookieTyped
    <2>2. Holds(ck.token, ck.wallet)
        BY <1>1, <1>6, <2>1 DEF Holds, CallHolds, Fits
    <2> QED
        BY <1>6, <2>1, <2>2 DEF TokensInv
<1>a. ASSUME ReadSession(c) PROVE Vouched(call)
    <2>1. PICK t : t = call.cookie.token
        OBVIOUS
    <2>2. CASE call.cookie = Null
        <3>1. calls'[c] = Resolving(call, call.w, "opened")
            BY <1>1, <1>a, <2>2 DEF ReadSession, Move, Typed, CallsOK
        <3> QED
            BY <1>2, <3>1 DEF Resolving, CallType, Settled
    <2>3. CASE Move(c, Stepped(call, "lookup"))
        <3>1. calls'[c] = Stepped(call, "lookup")
            BY <2>3 DEF Move, Typed, CallsOK
        <3> QED
            BY <1>2, <3>1 DEF Stepped, CallType, Settled
    <2>4. CASE call.cookie # Null /\ mem.sessions[t] # Null
               /\ Authenticated(c, mem, mem.sessions[t].wallet, t)
        <3>1. mem.sessions[t].wallet = call.w
            BY <1>1, <2>4, AuthenticatedVouches
        <3>2. Holds(t, call.w) /\ call.w \in Wallets
            BY <1>2, <1>3, <2>4, <3>1 DEF Holds, Row, CallOK
        <3> QED
            BY <1>6, <2>1, <2>4, <3>2 DEF Vouched
    <2> QED
        BY <1>1, <1>a, <2>1, <2>2, <2>3, <2>4 DEF ReadSession, Stepped
<1>b. ASSUME LookUpSession(c) PROVE Vouched(call)
    <2>1. call.cookie # Null
        BY <1>b, <1>1, <1>2 DEF LookUpSession, CallOK, Stage, Resolver, Doing,
           ResolveSteps, NameSteps
    <2>2. CASE \E w : Move(c, Resolving(call, w, "restored"))
        <3>1. PICK w : Move(c, Resolving(call, w, "restored"))
            BY <2>2
        <3>2. calls'[c] = Resolving(call, w, "restored")
            BY <3>1 DEF Move, Typed, CallsOK
        <3> QED
            BY <1>2, <3>2 DEF Resolving, CallType, Settled
    <2>3. CASE \E m : Authenticated(c, m, call.cookie.wallet, call.cookie.token)
        BY <1>1, <2>1, <2>3, AuthenticatedVouches DEF Vouched
    <2> QED
        BY <1>1, <1>b, <2>2, <2>3 DEF LookUpSession
<1>c. ASSUME RestoreSession(c) PROVE Vouched(call)
    <2>1. call.cookie # Null /\ call.who \in Wallets /\ call.step = "restored"
        BY <1>c, <1>1, <1>2 DEF RestoreSession, CallOK, Stage, Resolver, Doing,
           ResolveSteps, NameSteps, ResolvedSteps
    <2>2. call.who = call.w
        BY <1>1, <1>c, AuthenticatedVouches DEF RestoreSession
    <2>3. Holds(call.cookie.token, call.who)
        BY <1>1, <2>1 DEF Holds, CallHolds, Doing
    <2> QED
        BY <1>6, <2>1, <2>2, <2>3 DEF Vouched
<1>d. ASSUME OpenSession(c) PROVE Vouched(call)
    <2>1. PICK x : x = Bearing(call, NewCookie(call))
        OBVIOUS
    <2>2. x.set = "put"
        BY <1>2, <2>1 DEF Bearing, CallType
    <2>3. calls'[c] \in {Resolving(x, call.who, "naming"), Answered(x, "ok")}
        BY <1>1, <1>d, <2>1 DEF OpenSession, Bearing, Move, Typed, CallsOK
    <2>4. Resolving(x, call.who, "naming").step = "account"
        BY <1>2, <2>1 DEF Bearing, Resolving, CallType
    <2>5. Answered(x, "ok").set = "put"
        BY <2>2 DEF Answered, Idle
    <2> QED
        BY <1>1, <1>d, <2>3, <2>4, <2>5 DEF Settled
<1> QED
    BY <1>1, <1>5, <1>a, <1>b, <1>c, <1>d, ResolvesUnsettled DEF Settled

LEMMA ServerSettles ==
    ASSUME Typed, TokensInv, ServerStep, NEW d \in Calls, Settled(calls'[d])
    PROVE  Settled(calls[d]) \/ Vouched(calls[d])
<1>1. ASSUME NEW c \in Calls, Serves(c) PROVE Settled(calls[d]) \/ Vouched(calls[d])
    <2>1. CASE d = c
        BY <1>1, <2>1, ServesSettles
    <2>2. CASE d # c
        BY <1>1, <2>2, OthersStay DEF Keeps, Settled
    <2> QED
        BY <2>1, <2>2
<1>2. CASE Restart
    <2>1. calls'[d] \in {calls[d], Answered(Keeping(calls[d]), "lost")}
        BY <1>2 DEF Restart, Keeping
    <2> QED
        BY <2>1 DEF Settled, Answered, Idle
<1>3. CASE \/ \E n \in Nonces : ExpireNonce(n)
           \/ \E t \in Tokens : Revoke(t)
    BY <1>3 DEF ExpireNonce, Revoke
<1> QED
    BY <1>1, <1>2, <1>3, ServerCases

LEMMA ServerPage ==
    ASSUME Typed, TokensInv, PageInv, ServerStep, UNCHANGED <<jar, page>>
    PROVE  PageInv'
<1> SUFFICES ASSUME "switch" \notin past'.trouble PROVE PageOK'
    BY DEF PageInv
<1>1. PageOK
    BY ServerGrown DEF PageInv, Grown
<1>2. ASSUME NEW d \in Calls PROVE AskingOK(calls[d])'
    <2>1. PICK call : call = calls[d]
        OBVIOUS
    <2>2. PICK n : n = calls'[d]
        OBVIOUS
    <2>3. n.kind = call.kind /\ n.w = call.w /\ n.cookie \in {call.cookie, Null}
        BY <2>1, <2>2, ServerFollows DEF AllFollow, Follows
    <2>4. Settled(n) => Settled(call) \/ Vouched(call)
        BY <2>1, <2>2, ServerSettles
    <2>5. AskingOK(call)
        BY <1>1, <2>1 DEF PageOK
    <2>6. AskingOK(n)
        BY <2>3, <2>4, <2>5 DEF AskingOK, Vouched
    <2> QED
        BY <2>2, <2>6 DEF AskingOK, JarFits, Settled
<1> QED
    BY <1>1, <1>2 DEF PageOK, JarFits

(* The page after a step that leaves the connected wallet alone.           *)
LEMMA PageFollows ==
    ASSUME Typed, PageOK, NEW c \in Calls, NEW n, Move(c, n), AskingOK(n)',
           page'.connected = page.connected, JarFits => JarFits',
           page'.cached # Null => page'.cached = page.connected /\ JarFits',
           page'.shown => page.connected # Null /\ JarFits'
    PROVE  PageOK'
<1>1. \A d \in Calls : calls'[d] = IF d = c THEN n ELSE calls[d]
    BY DEF Typed, CallsOK, Move
<1>2. ASSUME NEW d \in Calls PROVE AskingOK(calls[d])'
    <2>1. PICK x : x = calls'[d]
        OBVIOUS
    <2>2. CASE d = c
        <3>1. x = n
            BY <1>1, <2>1, <2>2
        <3> QED
            BY <2>1, <3>1 DEF AskingOK, Settled
    <2>3. CASE d # c
        <3>1. x = calls[d]
            BY <1>1, <2>1, <2>3
        <3>2. AskingOK(x)
            BY <3>1 DEF PageOK
        <3>3. AskingOK(x)'
            BY <3>2 DEF AskingOK
        <3> QED
            BY <2>1, <3>3 DEF AskingOK, Settled
    <2> QED
        BY <2>2, <2>3
<1> QED
    BY <1>2 DEF PageOK

LEMMA NewAsking ==
    ASSUME NEW n, n.kind \in AskingKinds => n.w = page'.connected,
           n.cookie = Null \/ n.cookie = jar', n.step # "reply" \/ n.kind = "idle"
    PROVE  AskingOK(n)'
    BY DEF AskingOK, Settled, JarFits, AskingKinds

LEMMA PageParts ==
    ASSUME TypeOK, NEW w
    PROVE  /\ Show(w) => page'.connected = page.connected /\ page'.shown /\ page'.cached = w
           /\ Hide(w) => page'.connected = page.connected /\ ~page'.shown /\ page'.cached = w
    BY DEF TypeOK, PageType, Show, Hide

LEMMA ReceiveFits ==
    ASSUME Typed, PageOK, NEW c \in Calls, Receive(c), page'.connected = page.connected
    PROVE  /\ JarFits => JarFits'
           /\ calls[c].set # "keep" => JarFits'
<1>1. PICK call : call = calls[c]
    OBVIOUS
<1>2. CallOK(call) /\ call.set \in {"keep", "clear", "put"}
    BY <1>1, CallAt DEF Typed, CallType, CookieOrders
<1>3. CASE call.set = "keep"
    BY <1>1, <1>3 DEF Receive, JarFits
<1>4. CASE call.set = "clear"
    BY <1>1, <1>4 DEF Receive, JarFits
<1>5. CASE call.set = "put"
    <2>1. call.new.wallet = page.connected
        BY <1>1, <1>2, <1>5 DEF CallOK, PageOK, AskingOK
    <2> QED
        BY <1>1, <1>5, <2>1 DEF Receive, JarFits
<1> QED
    BY <1>1, <1>2, <1>3, <1>4, <1>5

LEMMA IdleAsking == AskingOK(Idle)'
    BY IdleFields, NewAsking DEF AskingKinds

LEMMA ChangeWalletPage ==
    ASSUME Typed, PageOK, NEW c \in Calls, NEW w \in Wallets \cup {Null}, ChangeWallet(c, w),
           "switch" \notin past'.trouble
    PROVE  PageOK'
<1>1. \A d \in Calls : calls[d].kind \notin AskingKinds
    <2>1. Asking = {}
        <3>1. ~Trouble("switch")
            BY DEF Trouble, Typed, Rows, PastType
        <3> QED
            BY <3>1 DEF ChangeWallet
    <2> QED
        BY <2>1 DEF Asking
<1>2. page.prev = page.connected /\ page.connected \in Optional(Wallets)
    BY DEF Typed, Rows, TypeOK, PageType
<1>3. /\ page'.connected = w
      /\ page'.shown = ShownAfterChange
      /\ page'.cached = IF page.prev = Null THEN page.cached ELSE Null
    BY DEF ChangeWallet, Typed, TypeOK, PageType
<1>4. ~page'.shown /\ page'.cached = Null
    BY <1>2, <1>3 DEF ShownAfterChange, PageOK
<1>5. PICK kind, step, v, n :
        /\ Move(c, n) /\ n = Request(kind, step, v, Null)
        /\ \/ kind = "check" /\ step = "session" /\ v = w
           \/ kind = "signout" /\ step = "logout"
    BY DEF ChangeWallet, Start, Request
<1>6. n.kind = kind /\ n.step = step /\ n.w = v /\ n.cookie = jar
    BY <1>5 DEF Request, Idle
<1>7. jar' = jar
    BY DEF ChangeWallet
<1>8. ASSUME NEW d \in Calls PROVE AskingOK(calls[d])'
    <2>1. PICK x : x = calls'[d]
        OBVIOUS
    <2>2. CASE d = c
        <3>1. x = n
            BY <1>5, <2>1, <2>2 DEF Typed, CallsOK, Move
        <3>2. AskingOK(n)'
            BY <1>3, <1>5, <1>6, <1>7, NewAsking DEF AskingKinds
        <3> QED
            BY <2>1, <3>1, <3>2 DEF AskingOK, Settled
    <2>3. CASE d # c
        <3>1. x.kind \notin AskingKinds
            BY <1>1, <1>5, <2>1, <2>3 DEF Typed, CallsOK, Move
        <3> QED
            BY <2>1, <3>1 DEF AskingOK
    <2> QED
        BY <2>2, <2>3
<1> QED
    BY <1>4, <1>8 DEF PageOK

LEMMA RequestPage ==
    ASSUME Typed, PageOK, NEW c \in Calls, SignIn(c) \/ SignOut(c) \/ \E n \in Names : Rename(c, n)
    PROVE  PageOK'
<1>1. PICK kind, step, want, n :
        /\ Move(c, n) /\ n = Request(kind, step, page.connected, want)
        /\ step \in {"session", "logout"}
    BY DEF SignIn, SignOut, Rename, Start, Request
<1>2. n.step = step /\ n.w = page.connected /\ n.cookie = jar
    BY <1>1 DEF Request, Idle
<1>3. /\ page'.connected = page.connected /\ jar' = jar
      /\ \/ page'.cached = page.cached /\ page'.shown = page.shown
         \/ page'.cached = Null /\ ~page'.shown
    BY DEF SignIn, SignOut, Rename, Typed, TypeOK, PageType
<1>4. AskingOK(n)'
    BY <1>1, <1>2, <1>3, NewAsking
<1> QED
    BY <1>1, <1>3, <1>4, PageFollows DEF PageOK, JarFits

LEMMA StillPage ==
    ASSUME Typed, PageOK, NEW c \in Calls, NEW n, Move(c, n), AskingOK(n)', UNCHANGED <<jar, page>>
    PROVE  PageOK'
    BY PageFollows DEF PageOK, JarFits

LEMMA RenameElsewherePage ==
    ASSUME Typed, PageOK, NEW c \in Calls,
           \E w \in Wallets, name \in Names : RenameElsewhere(c, w, name)
    PROVE  PageOK'
<1>1. PICK w, name, n : Move(c, n) /\ n = Elsewhere(w, name)
    BY DEF RenameElsewhere, Elsewhere
<1>2. n.kind = "elsewhere"
    BY <1>1 DEF Elsewhere, Resolving, Idle
<1>3. AskingOK(n)'
    BY <1>2 DEF AskingOK, AskingKinds
<1> QED
    BY <1>1, <1>3, StillPage DEF RenameElsewhere

LEMMA SignPage ==
    ASSUME Typed, PageOK, NEW c \in Calls, Sign(c)
    PROVE  PageOK'
<1>1. PICK call : call = calls[c]
    OBVIOUS
<1>2. call \in CallType /\ call.kind = "verify" /\ AskingOK(call)
    BY <1>1, CallAt DEF Typed, Sign, At, PageOK
<1>a. CASE Move(c, Stepped(call, "verify")) /\ UNCHANGED page
    <2>1. PICK n : n = Stepped(call, "verify")
        OBVIOUS
    <2>2. n.kind = "verify" /\ n.w = call.w /\ n.cookie = call.cookie /\ n.step = "verify"
        BY <1>2, <2>1 DEF Stepped, CallType
    <2>3. AskingOK(n)'
        BY <1>2, <1>a, <2>2 DEF AskingOK, Settled, JarFits, Sign
    <2> QED
        BY <1>a, <2>1, <2>3, StillPage DEF Sign
<1>b. CASE Move(c, Idle) /\ page' = [page EXCEPT !.shown = FALSE]
    <2>1. page'.connected = page.connected /\ page'.cached = page.cached /\ ~page'.shown
        BY <1>b DEF Typed, TypeOK, PageType
    <2>2. jar' = jar
        BY DEF Sign
    <2> QED
        BY <1>b, <2>1, <2>2, IdleAsking, PageFollows DEF PageOK, JarFits
<1> QED
    BY <1>1, <1>a, <1>b DEF Sign, Stepped

LEMMA RepeatPage ==
    ASSUME Typed, PageOK, NEW c \in Calls, NEW d \in Calls, Repeat(c, d)
    PROVE  PageOK'
<1>1. PICK n : Move(c, n) /\ n = Signing("repeat", "verify", calls[d].w, calls[d].nonce)
    BY DEF Repeat, Signing
<1>2. n.kind = "repeat" /\ n.step = "verify" /\ n.w = calls[d].w /\ n.cookie = Null
    BY <1>1 DEF Signing, Idle
<1>3. calls[d].w = page.connected /\ UNCHANGED <<jar, page>>
    BY DEF Repeat, PageOK, AskingOK, AskingKinds
<1>4. AskingOK(n)'
    BY <1>2, <1>3, NewAsking
<1> QED
    BY <1>1, <1>3, <1>4, StillPage

LEMMA LoseAnswerPage ==
    ASSUME Typed, PageOK, NEW c \in Calls, LoseAnswer(c)
    PROVE  PageOK'
<1>1. PICK call : call = calls[c]
    OBVIOUS
<1>2. call \in CallType /\ AskingOK(call)
    BY <1>1, CallAt DEF Typed, PageOK
<1>3. PICK n : Move(c, n) /\ n = Mislaid(call)
    BY <1>1 DEF LoseAnswer, Mislaid
<1>4. n.kind = call.kind /\ n.w = call.w /\ n.cookie = call.cookie /\ n.out = "lost"
    BY <1>2, <1>3 DEF Mislaid, CallType
<1>5. UNCHANGED <<jar, page>>
    BY DEF LoseAnswer
<1>6. AskingOK(n)'
    BY <1>2, <1>4, <1>5 DEF AskingOK, Settled, JarFits
<1> QED
    BY <1>3, <1>5, <1>6, StillPage

LEMMA SignedInFits ==
    ASSUME Typed, PageOK, NEW c \in Calls, calls[c].kind \in {"check", "signin"}, Receive(c),
           page'.connected = page.connected, SignedIn(calls[c])
    PROVE  calls[c].w = page.connected /\ page.connected # Null /\ JarFits'
<1>1. calls[c].w = page.connected /\ calls[c].w \in Wallets
    BY ReceiveTyped DEF PageOK, AskingOK, AskingKinds
<1>2. calls[c].out = "ok" /\ calls[c].set = "keep" => JarFits
    BY DEF PageOK, AskingOK, AskingKinds, Settled, Receive
<1>3. page.cached = calls[c].w => JarFits
    BY <1>1, NullApart DEF PageOK
<1> QED
    BY <1>1, <1>2, <1>3, NullApart, ReceiveFits DEF SignedIn

LEMMA CheckAnsweredPage ==
    ASSUME Typed, PageOK, NEW c \in Calls, CheckAnswered(c)
    PROVE  PageOK'
<1>1. Receive(c) /\ Move(c, Idle) /\ calls[c].kind = "check"
    BY DEF CheckAnswered
<1>a. CASE SignedIn(calls[c])
    <2>1. page'.connected = page.connected /\ page'.shown /\ page'.cached = calls[c].w
        BY <1>a, PageParts DEF CheckAnswered, Typed
    <2> QED
        BY <1>a, <1>1, <2>1, SignedInFits, IdleAsking, PageFollows
<1>b. CASE ~SignedIn(calls[c])
    <2>1. page'.connected = page.connected /\ ~page'.shown /\ page'.cached = Null
        BY <1>b, PageParts DEF CheckAnswered, Typed
    <2> QED
        BY <1>1, <2>1, ReceiveFits, IdleAsking, PageFollows
<1> QED
    BY <1>a, <1>b

LEMMA SignInAnsweredPage ==
    ASSUME Typed, PageOK, NEW c \in Calls, SignInAnswered(c)
    PROVE  PageOK'
<1>1. Receive(c) /\ calls[c].kind = "signin"
    BY DEF SignInAnswered
<1>a. CASE SignedIn(calls[c])
    <2>1. page'.connected = page.connected /\ page'.shown /\ page'.cached = calls[c].w
        BY <1>a, PageParts DEF SignInAnswered, Typed
    <2>2. Move(c, Idle)
        BY <1>a DEF SignInAnswered
    <2> QED
        BY <1>a, <1>1, <2>1, <2>2, SignedInFits, IdleAsking, PageFollows
<1>b. CASE ~SignedIn(calls[c])
    <2>1. page'.connected = page.connected /\ page'.shown = page.shown /\ page'.cached = Null
        BY <1>b DEF SignInAnswered, Typed, TypeOK, PageType
    <2>2. PICK n : /\ Move(c, n)
                   /\ n = [Idle EXCEPT !.kind = "challenge", !.step = "challenge", !.w = calls[c].w]
        BY <1>b DEF SignInAnswered
    <2>3. n.step = "challenge" /\ n.w = calls[c].w /\ n.cookie = Null
        BY <2>2 DEF Idle
    <2>4. calls[c].w = page.connected
        BY <1>1 DEF PageOK, AskingOK, AskingKinds
    <2>5. AskingOK(n)'
        BY <2>1, <2>3, <2>4, NewAsking
    <2>6. JarFits => JarFits'
        BY <1>1, <2>1, ReceiveFits
    <2> QED
        BY <2>1, <2>2, <2>5, <2>6, PageFollows DEF PageOK
<1> QED
    BY <1>a, <1>b

LEMMA ChallengeAnsweredPage ==
    ASSUME Typed, PageOK, NEW c \in Calls, ChallengeAnswered(c)
    PROVE  PageOK'
<1>1. Receive(c) /\ calls[c].kind = "challenge"
    BY DEF ChallengeAnswered
<1>a. CASE calls[c].out = "ok"
    <2>1. page' = page
        BY <1>a DEF ChallengeAnswered
    <2>2. PICK n : Move(c, n) /\ n = Signing("verify", "sign", calls[c].w, calls[c].nonce)
        BY <1>a DEF ChallengeAnswered, Signing
    <2>3. n.step = "sign" /\ n.w = calls[c].w /\ n.cookie = Null
        BY <2>2 DEF Signing, Idle
    <2>4. calls[c].w = page.connected
        BY <1>1 DEF PageOK, AskingOK, AskingKinds
    <2>5. AskingOK(n)'
        BY <2>1, <2>3, <2>4, NewAsking
    <2>6. JarFits => JarFits'
        BY <1>1, <2>1, ReceiveFits
    <2> QED
        BY <2>1, <2>2, <2>5, <2>6, PageFollows DEF PageOK
<1>b. CASE calls[c].out # "ok"
    <2>1. page'.connected = page.connected /\ ~page'.shown /\ page'.cached = page.cached
        BY <1>b, PageParts DEF ChallengeAnswered, Typed
    <2>2. Move(c, Idle)
        BY <1>b DEF ChallengeAnswered
    <2>3. JarFits => JarFits'
        BY <1>1, <2>1, ReceiveFits
    <2> QED
        BY <2>1, <2>2, <2>3, IdleAsking, PageFollows DEF PageOK
<1> QED
    BY <1>a, <1>b

LEMMA VerifyAnsweredPage ==
    ASSUME Typed, PageOK, NEW c \in Calls, VerifyAnswered(c)
    PROVE  PageOK'
<1>1. Receive(c) /\ calls[c].kind = "verify" /\ Move(c, Idle)
    BY DEF VerifyAnswered
<1>a. CASE calls[c].out = "ok"
    <2>1. page'.connected = page.connected /\ page'.shown /\ page'.cached = calls[c].w
        BY <1>a, PageParts DEF VerifyAnswered, Typed
    <2>2. calls[c].set = "put" /\ calls[c].w \in Wallets
        BY <1>1, <1>a, ReceiveTyped DEF Typed, CallsOK, CallOK
    <2>3. JarFits'
        BY <1>1, <2>1, <2>2, ReceiveFits
    <2>4. calls[c].w = page.connected /\ page.connected # Null
        BY <1>1, <2>2, NullApart DEF PageOK, AskingOK, AskingKinds
    <2> QED
        BY <1>1, <2>1, <2>3, <2>4, IdleAsking, PageFollows
<1>b. CASE calls[c].out # "ok"
    <2>1. page'.connected = page.connected /\ ~page'.shown /\ page'.cached = page.cached
        BY <1>b, PageParts DEF VerifyAnswered, Typed
    <2>2. JarFits => JarFits'
        BY <1>1, <2>1, ReceiveFits
    <2> QED
        BY <1>1, <2>1, <2>2, IdleAsking, PageFollows DEF PageOK
<1> QED
    BY <1>a, <1>b

LEMMA OtherAnsweredPage ==
    ASSUME Typed, PageOK, NEW c \in Calls, SignOutAnswered(c) \/ OtherAnswered(c)
    PROVE  PageOK'
<1>1. Receive(c) /\ Move(c, Idle)
    BY DEF SignOutAnswered, OtherAnswered
<1>2. page'.connected = page.connected /\ page'.cached = page.cached /\ (page'.shown => page.shown)
    BY PageParts DEF SignOutAnswered, OtherAnswered, Typed
<1>3. JarFits => JarFits'
    BY <1>1, <1>2, ReceiveFits
<1> QED
    BY <1>1, <1>2, <1>3, IdleAsking, PageFollows DEF PageOK

LEMMA BrowserPage ==
    ASSUME Typed, PageInv, NEW c \in Calls, Browses(c)
    PROVE  PageInv'
<1> SUFFICES ASSUME "switch" \notin past'.trouble PROVE PageOK'
    BY DEF PageInv
<1>1. PageOK
    BY BrowserQuiet DEF PageInv, Grown
<1> QED
    BY <1>1, ChangeWalletPage, RequestPage, RenameElsewherePage, SignPage, RepeatPage,
       LoseAnswerPage, CheckAnsweredPage, SignInAnsweredPage, ChallengeAnsweredPage,
       VerifyAnsweredPage, OtherAnsweredPage DEF Browses

(* ShownIsConnected: while no wallet is changed under a request, a page that *)
(* shows the connected wallet as signed in has that wallet's cookie or none, *)
(* whatever answers were lost or arrive late.                              *)
THEOREM ShownWalletConnected == Spec => []ShownIsConnected
<1>1. Init => PageInv
    BY IdleFields DEF Init, ServerInit, PageInv, PageOK, AskingOK, AskingKinds
<1>2. Typed /\ TokensInv /\ PageInv /\ [Next]_vars => PageInv'
    <2>1. ASSUME UNCHANGED vars, PageInv PROVE PageInv'
        BY <2>1 DEF vars, PageInv, PageOK, AskingOK, Settled, JarFits
    <2> QED
        BY <2>1, ServerPage, BrowserPage, NextCases
<1>3. PageInv => ShownIsConnected
    BY DEF PageInv, PageOK, JarFits, ShownIsConnected
<1> QED
    BY <1>1, <1>2, <1>3, AlwaysTyped, AlwaysTokens, PTL DEF Spec

-----------------------------------------------------------------------------
(* Whose profile a session, a row, a cookie or a request names.            *)
Has(r, w, i) == r # Null /\ r.wallet = w /\ r.id = i
CallBears(call, w, i) == Has(call.cookie, w, i) \/ Has(call.new, w, i)
Bears(w, i) ==
    \/ \E t \in Tokens : Has(mem.sessions[t], w, i) \/ Has(db.sessions[t], w, i)
    \/ Has(jar, w, i)
    \/ \E c \in Calls : CallBears(calls[c], w, i)
Uid(w, i) == mem.users[w] # Null /\ mem.users[w].id = i
Resolved(call, w, i) == call.step \in ResolvedSteps /\ call.who = w /\ Object(call).id = i

(* Where a name of a profile comes from: it was borne already, a request   *)
(* resolved it, or the process knows the wallet of the cookie.             *)
Sourced(w, i) ==
    \/ Bears(w, i)
    \/ \E c \in Calls : Resolved(calls[c], w, i)
    \/ Uid(w, i) /\ \E j \in Ids : Bears(w, j)

LEMMA RowsBear ==
    ASSUME NEW w, NEW i, Bears(w, i)', Has(jar', w, i) => Sourced(w, i),
           \A t \in Tokens : \/ mem'.sessions[t] = mem.sessions[t] \/ mem'.sessions[t] = Null
                             \/ Has(mem'.sessions[t], w, i) => Sourced(w, i),
           \A t \in Tokens : \/ db'.sessions[t] = db.sessions[t] \/ db'.sessions[t] = Null
                             \/ Has(db'.sessions[t], w, i) => Sourced(w, i),
           \A d \in Calls : CallBears(calls'[d], w, i) => Sourced(w, i)
    PROVE  Sourced(w, i)
<1>1. \/ \E t \in Tokens : Has(mem'.sessions[t], w, i) \/ Has(db'.sessions[t], w, i)
      \/ Has(jar', w, i)
      \/ \E d \in Calls : CallBears(calls'[d], w, i)
    BY DEF Bears, CallBears, Has
<1>2. ASSUME NEW t \in Tokens, Has(mem'.sessions[t], w, i) PROVE Sourced(w, i)
    BY <1>2 DEF Has, Bears, Sourced
<1>3. ASSUME NEW t \in Tokens, Has(db'.sessions[t], w, i) PROVE Sourced(w, i)
    BY <1>3 DEF Has, Bears, Sourced
<1> QED
    BY <1>1, <1>2, <1>3

LEMMA ServesBears ==
    ASSUME Typed, NEW c \in Calls, Serves(c), ~OpenSession(c), ~SignSession(c), UNCHANGED jar,
           NEW w, NEW i, Bears(w, i)'
    PROVE  Sourced(w, i)
<1>1. PICK call : call = calls[c]
    OBVIOUS
<1>2. CallOK(call) /\ call \in CallType
    BY <1>1, CallAt DEF Typed
<1>3. AllFollow
    BY ServerFollows DEF ServerStep, Serves
<1>4. \A d \in Calls : CallBears(calls'[d], w, i) => Sourced(w, i)
    BY <1>3, NewKept DEF AllFollow, Follows, CallBears, Has, Bears, Sourced
<1>5. mem.sessions \in [Tokens -> Optional(Session)] /\ db.sessions \in [Tokens -> Optional(Session)]
      /\ mem \in MemType /\ db \in DbType
    BY DEF Typed, TypeOK, MemType, DbType
<1> DEFINE MemRows == \A t \in Tokens : \/ mem'.sessions[t] = mem.sessions[t] \/ mem'.sessions[t] = Null
                                        \/ Has(mem'.sessions[t], w, i) => Sourced(w, i)
           DbRows == \A t \in Tokens : \/ db'.sessions[t] = db.sessions[t] \/ db'.sessions[t] = Null
                                       \/ Has(db'.sessions[t], w, i) => Sourced(w, i)
<1>j. Has(jar', w, i) => Sourced(w, i)
    BY DEF Sourced, Bears
<1>6. ASSUME MemRows, DbRows PROVE Sourced(w, i)
    BY <1>j, <1>4, <1>6, RowsBear
<1>a. CASE SessionsSame
    BY <1>a, <1>6 DEF SessionsSame
<1>b. CASE ReadSession(c) \/ Logout(c)
    <2>1. UNCHANGED db /\ (mem' = mem \/ \E t : mem' = Dropped(mem, t))
        BY <1>b DEF ReadSession, Authenticated, Logout
    <2>2. MemRows
        BY <1>5, <2>1 DEF Dropped, MemType
    <2> QED
        BY <1>6, <2>1, <2>2
<1>d. CASE LookUpSession(c)
    <2>1. call.step = "lookup" /\ call.cookie # Null
        BY <1>d, <1>1, <1>2 DEF LookUpSession, CallOK, Stage, Resolver, Doing,
           ResolveSteps, NameSteps
    <2>2. PICK ck \in Cookie : ck = call.cookie /\ ck.wallet \in Wallets /\ ck.token \in Tokens
        BY <1>2, <2>1, CookieTyped
    <2>3. Bears(ck.wallet, ck.id) /\ ck.id \in Ids
        BY <1>1, <2>1, <2>2 DEF Bears, CallBears, Has, Cookie
    <2>4. PICK user : user = IF mem.users[ck.wallet] # Null THEN mem.users[ck.wallet]
                             ELSE [id |-> ck.id, name |-> ck.name]
        OBVIOUS
    <2>5. PICK x : x = [wallet |-> ck.wallet, id |-> user.id]
        OBVIOUS
    <2>6. /\ UNCHANGED db
          /\ \/ mem' = mem
             \/ Authenticated(c, Recalls(mem, ck.wallet, user, ck.token, x), ck.wallet, ck.token)
        BY <1>d, <1>1, <2>2, <2>4, <2>5 DEF LookUpSession, Recalls
    <2>7. Has(x, w, i) => Sourced(w, i)
        BY <2>3, <2>4, <2>5 DEF Has, Sourced, Uid
    <2>8. MemRows
        <3>1. \/ mem' = mem
              \/ mem'.sessions = [mem.sessions EXCEPT ![ck.token] = x]
              \/ mem'.sessions = [mem.sessions EXCEPT ![ck.token] = Null]
            BY <1>5, <2>6, AuthenticatedSessions
        <3> QED
            BY <1>5, <2>2, <2>7, <3>1
    <2> QED
        BY <1>6, <2>6, <2>8
<1>e. CASE RestoreSession(c)
    <2>1. call.step = "restored" /\ call.cookie # Null /\ call.who \in Wallets
        BY <1>e, <1>1, <1>2 DEF RestoreSession, CallOK, Stage, Resolver, Doing,
           ResolveSteps, NameSteps, ResolvedSteps
    <2>2. PICK k \in Tokens : k = call.cookie.token
        BY <1>2, <2>1, CookieTyped
    <2>3. PICK x : x = [wallet |-> call.who, id |-> Object(call).id]
        OBVIOUS
    <2>4. Has(x, w, i) => Sourced(w, i)
        BY <1>1, <2>1, <2>3 DEF Has, Sourced, Resolved, ResolvedSteps
    <2>5. UNCHANGED db /\ Authenticated(c, Remembers(mem, k, x), call.who, k)
        BY <1>e, <1>1, <2>2, <2>3 DEF RestoreSession, Remembers
    <2>6. mem'.sessions = [mem.sessions EXCEPT ![k] = x]
          \/ mem'.sessions = [mem.sessions EXCEPT ![k] = Null]
        BY <1>5, <2>5, AuthenticatedSessions
    <2>7. MemRows
        BY <1>5, <2>2, <2>4, <2>6
    <2> QED
        BY <1>6, <2>5, <2>7
<1>f. CASE PutSession(c)
    <2>1. call.new \in Cookie
        BY <1>f, <1>1, <1>2, NullApart DEF PutSession, CallOK, CallType, Optional, Stage, Doing,
           ResolveSteps, NameSteps
    <2>2. PICK ck \in Cookie : ck = call.new
        BY <2>1
    <2>3. ck.token \in Tokens /\ ck # Null
        BY NullApart DEF Cookie
    <2>4. PICK x : x = [wallet |-> ck.wallet, id |-> ck.id]
        OBVIOUS
    <2>5. Has(x, w, i) => Sourced(w, i)
        BY <1>1, <2>2, <2>3, <2>4 DEF Has, Sourced, Bears, CallBears
    <2>6. UNCHANGED mem /\ (db' = db \/ db' = [db EXCEPT !.sessions[ck.token] = x])
        BY <1>f, <1>1, <2>2, <2>4 DEF PutSession
    <2>7. DbRows
        BY <1>5, <2>3, <2>5, <2>6 DEF DbType
    <2> QED
        BY <1>6, <2>6, <2>7
<1> QED
    BY <1>a, <1>b, <1>d, <1>e, <1>f, ServesQuietly DEF Serves

LEMMA OpenBears ==
    ASSUME Typed, NEW c \in Calls, OpenSession(c) \/ SignSession(c), UNCHANGED jar,
           NEW w, NEW i, Bears(w, i)'
    PROVE  Sourced(w, i)
<1>1. PICK call : call = calls[c]
    OBVIOUS
<1>2. call.step \in {"opened", "signed"}
    BY <1>1 DEF OpenSession, SignSession
<1>3. PICK ck : ck = NewCookie(call)
    OBVIOUS
<1>4. PICK k : k = ck.token
    OBVIOUS
<1>5. PICK x : x = [wallet |-> ck.wallet, id |-> ck.id]
    OBVIOUS
<1>6. mem' = [mem EXCEPT !.sessions[k] = x] /\ UNCHANGED db
    BY <1>1, <1>3, <1>4, <1>5 DEF OpenSession, SignSession, Opened
<1>7. mem'.sessions = [mem.sessions EXCEPT ![k] = x] /\ mem.sessions \in [Tokens -> Optional(Session)]
    BY <1>6 DEF Typed, TypeOK, MemType
<1>8. (x.wallet = w /\ x.id = i) \/ (ck.wallet = w /\ ck.id = i) => Sourced(w, i)
    BY <1>1, <1>2, <1>3, <1>5 DEF NewCookie, Sourced, Resolved, ResolvedSteps
<1>9. calls'[c].new = ck
    BY <1>1, <1>3, OpenedNew
<1>10. AllFollow
    BY OpenFollows
<1>11. ASSUME NEW d \in Calls, CallBears(calls'[d], w, i) PROVE Sourced(w, i)
    <2>1. calls'[d].new = IF d = c THEN ck ELSE calls[d].new
        BY <1>9, OthersStay DEF Serves, Keeps
    <2>2. calls'[d].cookie \in {calls[d].cookie, Null}
        BY <1>10 DEF AllFollow, Follows
    <2> QED
        BY <1>8, <1>11, <2>1, <2>2 DEF CallBears, Has, Sourced, Bears
<1>12. \A t \in Tokens : \/ mem'.sessions[t] = mem.sessions[t]
                         \/ Has(mem'.sessions[t], w, i) => Sourced(w, i)
    BY <1>7, <1>8 DEF Has
<1>13. Has(jar', w, i) => Sourced(w, i)
    BY DEF Sourced, Bears
<1> QED
    BY <1>6, <1>11, <1>12, <1>13, RowsBear

LEMMA BearsFollows ==
    ASSUME Typed, Next, NEW w, NEW i, Bears(w, i)'
    PROVE  Sourced(w, i)
<1>1. ASSUME NEW c \in Calls, Serves(c), UNCHANGED jar PROVE Sourced(w, i)
    BY <1>1, ServesBears, OpenBears
<1>2. ASSUME (\E n \in Nonces : ExpireNonce(n)) \/ (\E t \in Tokens : Revoke(t)), UNCHANGED jar
      PROVE  Sourced(w, i)
    <2>1. UNCHANGED calls
        BY <1>2 DEF ExpireNonce, Revoke
    <2>2. \A t \in Tokens : mem'.sessions[t] = mem.sessions[t]
        BY <1>2 DEF ExpireNonce, Revoke, Typed, TypeOK, MemType
    <2>3. \A t \in Tokens : db'.sessions[t] = db.sessions[t] \/ db'.sessions[t] = Null
        BY <1>2 DEF ExpireNonce, Revoke, Typed, TypeOK, DbType
    <2> QED
        BY <1>2, <2>1, <2>2, <2>3, RowsBear DEF Sourced, Bears
<1>3. ASSUME Restart, UNCHANGED jar PROVE Sourced(w, i)
    <2>1. \A t \in Tokens : mem'.sessions[t] = Null
        BY <1>3, EmptyTyped DEF Restart
    <2>2. db'.sessions = db.sessions
        BY <1>3 DEF Restart, Typed, TypeOK, DbType
    <2>3. ASSUME NEW d \in Calls, CallBears(calls'[d], w, i) PROVE CallBears(calls[d], w, i)
        <3>1. calls'[d] \in {calls[d], Answered(Keeping(calls[d]), "lost")}
            BY <1>3 DEF Restart, Keeping
        <3>2. Answered(Keeping(calls[d]), "lost").new = calls[d].new
            BY DEF Keeping, Answered, Idle, Typed, CallsOK, CallType
        <3>3. Answered(Keeping(calls[d]), "lost").cookie = Null
            BY AnsweredBlank
        <3> QED
            BY <2>3, <3>1, <3>2, <3>3 DEF CallBears, Has
    <2> QED
        BY <1>3, <2>1, <2>2, <2>3, RowsBear DEF Sourced, Bears
<1>4. ASSUME NEW c \in Calls, Browses(c) PROVE Sourced(w, i)
    <2>1. ServerQuiet /\ jar' \in {jar, Null, calls[c].new}
        BY <1>4, BrowserQuiet
    <2>2. PICK n : Move(c, n) /\ Fresh(n, calls[c])
        BY <1>4, BrowserMoves
    <2>3. \A d \in Calls : calls'[d] = IF d = c THEN n ELSE calls[d]
        BY <2>2 DEF Typed, CallsOK, Move
    <2>4. \A d \in Calls : CallBears(calls'[d], w, i) => Sourced(w, i)
        BY <2>2, <2>3 DEF Fresh, CallBears, Has, Sourced, Bears
    <2>5. Has(jar', w, i) => Sourced(w, i)
        BY <2>1 DEF Has, Sourced, Bears, CallBears
    <2> QED
        BY <2>1, <2>4, <2>5, RowsBear DEF ServerQuiet
<1> QED
    BY <1>1, <1>2, <1>3, <1>4, NextCases, ServerCases

-----------------------------------------------------------------------------
(* Steps that leave users, names and profiles alone.                       *)
UsersSame ==
    /\ mem'.users = mem.users /\ mem'.directory = mem.directory
    /\ db'.accounts = db.accounts /\ db'.profiles = db.profiles
UserKept(n, call) ==
    n.step \in UserSteps =>
        /\ n.user = call.user /\ n.who = call.who /\ n.held = call.held /\ n.want = call.want
        /\ \/ n.step = call.step
           \/ call.step = "naming" /\ n.step = "conflict" /\ ~TakenElsewhere(call)
Aside == UsersSame /\ \A d \in Calls : UserKept(calls'[d], calls[d])

LEMMA LeavesUser ==
    ASSUME Typed, NEW c \in Calls, NEW n, Move(c, n), UserKept(n, calls[c])
    PROVE  \A d \in Calls : UserKept(calls'[d], calls[d])
<1>1. \A d \in Calls : calls'[d] = IF d = c THEN n ELSE calls[d]
    BY DEF Typed, CallsOK, Move
<1>2. \A d \in Calls : UserKept(calls[d], calls[d])
    BY DEF UserKept
<1> QED
    BY <1>1, <1>2

LEMMA ResolvingAway ==
    ASSUME NEW call \in CallType, NEW w, NEW after, NEW ck
    PROVE  /\ Resolving(call, w, after).step = "account"
           /\ Resolving(Bearing(call, ck), w, after).step = "account"
    BY DEF Resolving, Bearing, CallType

LEMMA AnsweredAway ==
    ASSUME NEW call, NEW out
    PROVE  Answered(call, out).step = "reply"
    BY DEF Answered, Idle

LEMMA SteppedAway ==
    ASSUME NEW call \in CallType, NEW step, NEW ck
    PROVE  Stepped(call, step).step = step /\ Stepped(Bearing(call, ck), step).step = step
    BY DEF Stepped, Bearing, CallType

LEMMA AuthenticatedAside ==
    ASSUME Typed, NEW c \in Calls, NEW m, NEW wallet, NEW t, Authenticated(c, m, wallet, t)
    PROVE  /\ mem' \in {m, Dropped(m, t)}
           /\ \E n : Move(c, n) /\ n.step \notin UserSteps
<1>1. PICK call : call = calls[c]
    OBVIOUS
<1>2. call \in CallType
    BY <1>1, CallAt DEF Typed
<1>3. \/ Move(c, Answered(Cleared(call), "no"))
      \/ Move(c, Resolving(call, wallet, "naming"))
      \/ Move(c, Answered(call, "ok"))
    BY <1>1 DEF Authenticated, Answer, Cleared
<1>4. mem' \in {m, Dropped(m, t)}
    BY DEF Authenticated
<1> QED
    BY <1>2, <1>3, <1>4, ResolvingAway, AnsweredAway DEF UserSteps

LEMMA SessionAside ==
    ASSUME Typed, NEW c \in Calls, ReadSession(c) \/ RestoreSession(c) \/ Logout(c)
    PROVE  Aside
<1>1. PICK call : call = calls[c]
    OBVIOUS
<1>2. call \in CallType
    BY <1>1, CallAt DEF Typed
<1>3. mem \in MemType
    BY DEF Typed, TypeOK
<1>a. CASE ReadSession(c)
    <2>1. CASE call.cookie = Null
        <3>1. UNCHANGED mem /\ Move(c, Resolving(call, call.w, "opened"))
            BY <1>a, <1>1, <2>1 DEF ReadSession
        <3>2. UsersSame
            BY <1>a, <3>1 DEF ReadSession, UsersSame
        <3>3. Resolving(call, call.w, "opened").step \notin UserSteps
            BY <1>2, ResolvingAway DEF UserSteps
        <3> QED
            BY <3>1, <3>2, <3>3, LeavesUser DEF UserKept, Aside
    <2>2. CASE UNCHANGED mem /\ Move(c, Stepped(call, "lookup"))
        <3>1. UsersSame
            BY <1>a, <2>2 DEF ReadSession, UsersSame
        <3>2. Stepped(call, "lookup").step \notin UserSteps
            BY <1>2, SteppedAway DEF UserSteps
        <3> QED
            BY <2>2, <3>1, <3>2, LeavesUser DEF UserKept, Aside
    <2>3. CASE \E wallet, t : Authenticated(c, mem, wallet, t)
        <3>1. PICK wallet, t : Authenticated(c, mem, wallet, t)
            BY <2>3
        <3>2. mem' \in {mem, Dropped(mem, t)}
            BY <3>1, AuthenticatedAside
        <3>3. mem'.users = mem.users /\ mem'.directory = mem.directory
            BY <1>3, <3>2 DEF Dropped, MemType
        <3>4. UNCHANGED db
            BY <1>a DEF ReadSession
        <3>5. UsersSame
            BY <3>3, <3>4 DEF UsersSame
        <3> QED
            BY <3>1, <3>5, AuthenticatedAside, LeavesUser DEF UserKept, Aside
    <2> QED
        BY <1>1, <1>a, <2>1, <2>2, <2>3 DEF ReadSession, Stepped
<1>b. CASE RestoreSession(c)
    <2>1. PICK t, x : Authenticated(c, Remembers(mem, t, x), call.who, t)
        BY <1>1, <1>b DEF RestoreSession, Remembers
    <2>2. PICK m : m = Remembers(mem, t, x)
        OBVIOUS
    <2>3. m.users = mem.users /\ m.directory = mem.directory
        BY <1>3, <2>2 DEF Remembers, MemType
    <2>4. Dropped(m, t).users = mem.users /\ Dropped(m, t).directory = mem.directory
        BY <1>3, <2>2 DEF Dropped, Remembers, MemType
    <2>5. UsersSame
        BY <1>b, <2>1, <2>2, <2>3, <2>4, AuthenticatedAside DEF UsersSame, RestoreSession
    <2> QED
        BY <2>1, <2>5, AuthenticatedAside, LeavesUser DEF UserKept, Aside
<1>c. CASE Logout(c)
    <2>1. UsersSame
        BY <1>3, <1>c DEF Logout, Dropped, MemType, UsersSame
    <2>2. Move(c, Answered(Cleared(call), "ok"))
        BY <1>c, <1>1 DEF Logout, Cleared
    <2> QED
        BY <2>1, <2>2, AnsweredAway, LeavesUser DEF UserKept, UserSteps, Aside
<1> QED
    BY <1>a, <1>b, <1>c

LEMMA OpenAside ==
    ASSUME Typed, NEW c \in Calls, OpenSession(c) \/ SignSession(c) \/ PutSession(c)
    PROVE  Aside
<1>1. PICK call : call = calls[c]
    OBVIOUS
<1>2. call \in CallType
    BY <1>1, CallAt DEF Typed
<1>3. mem \in MemType /\ db \in DbType
    BY DEF Typed, TypeOK
<1>4. UsersSame
    BY <1>3 DEF OpenSession, SignSession, PutSession, Opened, UsersSame, MemType, DbType
<1>5. PICK x : x = Bearing(call, NewCookie(call))
    OBVIOUS
<1>6. \/ Move(c, Resolving(x, call.who, "naming")) \/ Move(c, Answered(x, "ok"))
      \/ Move(c, Stepped(x, "putSession")) \/ Move(c, Answered(call, "ok"))
    BY <1>1, <1>5 DEF OpenSession, SignSession, PutSession, Answer, Bearing, Stepped
<1>7. /\ Resolving(x, call.who, "naming").step \notin UserSteps
      /\ Answered(x, "ok").step \notin UserSteps /\ Answered(call, "ok").step \notin UserSteps
      /\ Stepped(x, "putSession").step \notin UserSteps
    BY <1>2, <1>5, ResolvingAway, SteppedAway, AnsweredAway DEF UserSteps
<1> QED
    BY <1>4, <1>6, <1>7, LeavesUser DEF UserKept, Aside

LEMMA NonceAside ==
    ASSUME Typed, NEW c \in Calls, MakeNonce(c) \/ PutNonce(c) \/ CheckNonce(c) \/ LoadNonce(c)
    PROVE  Aside
<1>1. PICK call : call = calls[c]
    OBVIOUS
<1>2. call \in CallType
    BY <1>1, CallAt DEF Typed
<1>3. mem \in MemType /\ db \in DbType
    BY DEF Typed, TypeOK
<1>4. ASSUME NEW n, Move(c, n), n.step \notin UserSteps, UsersSame PROVE Aside
    BY <1>4, LeavesUser DEF UserKept, Aside
<1>a. CASE MakeNonce(c)
    <2>1. PICK n, k : Move(c, n) /\ n = [call EXCEPT !.step = "putNonce", !.nonce = k]
        BY <1>1, <1>a DEF MakeNonce
    <2>2. n.step = "putNonce"
        BY <1>2, <2>1 DEF CallType
    <2>3. UsersSame
        BY <1>3, <1>a DEF MakeNonce, UsersSame, MemType
    <2> QED
        BY <1>4, <2>1, <2>2, <2>3 DEF UserSteps
<1>b. CASE PutNonce(c)
    <2>1. UsersSame
        BY <1>3, <1>b DEF PutNonce, UsersSame, DbType
    <2> QED
        BY <1>1, <1>4, <1>b, <2>1, AnsweredAway DEF PutNonce, Answer, UserSteps
<1>c. ASSUME NEW m, UseNonce(c, m), m = mem \/ \E k, r : m = [mem EXCEPT !.nonces[k] = r],
             UNCHANGED db
      PROVE  Aside
    <2>1. \E k, r : mem' = m \/ mem' = [m EXCEPT !.nonces[k].used = r]
        BY <1>c DEF UseNonce
    <2>2. UsersSame
        BY <1>3, <1>c, <2>1 DEF MemType, UsersSame
    <2>3. Move(c, Answered(call, "no")) \/ Move(c, Resolving(call, call.w, "signed"))
        BY <1>c, <1>1 DEF UseNonce, Answer
    <2> QED
        BY <1>2, <1>4, <2>2, <2>3, AnsweredAway, ResolvingAway DEF UserSteps
<1>d. CASE CheckNonce(c)
    <2>1. CASE UseNonce(c, mem)
        BY <1>c, <1>d, <2>1 DEF CheckNonce
    <2>2. CASE UNCHANGED mem /\ Move(c, Stepped(call, "loadNonce"))
        BY <1>2, <1>4, <1>d, <2>2, SteppedAway DEF CheckNonce, UserSteps, UsersSame
    <2> QED
        BY <1>1, <1>d, <2>1, <2>2 DEF CheckNonce, Stepped
<1>e. CASE LoadNonce(c)
    <2>1. CASE \E m : UseNonce(c, m) /\ (m = mem \/ \E k, r : m = [mem EXCEPT !.nonces[k] = r])
        BY <1>c, <1>e, <2>1 DEF LoadNonce
    <2>2. CASE UNCHANGED mem /\ Answer(c, "no")
        BY <1>1, <1>4, <1>e, <2>2, AnsweredAway DEF LoadNonce, Answer, UserSteps, UsersSame
    <2> QED
        BY <1>e, <2>1, <2>2 DEF LoadNonce
<1> QED
    BY <1>a, <1>b, <1>d, <1>e

LEMMA DirectoryAside ==
    ASSUME Typed, NEW c \in Calls, CheckDirectory(c)
    PROVE  Aside
<1>1. PICK call : call = calls[c]
    OBVIOUS
<1>2. call \in CallType
    BY <1>1, CallAt DEF Typed
<1>3. UsersSame
    BY DEF CheckDirectory, UsersSame
<1>a. CASE TakenElsewhere(call)
    BY <1>a, <1>1, <1>3, AnsweredAway, LeavesUser
       DEF CheckDirectory, Answer, UserKept, UserSteps, Aside
<1>b. CASE ~TakenElsewhere(call)
    <2>1. PICK out, n : Move(c, n) /\ n = Refused(call, out)
        BY <1>b, <1>1 DEF CheckDirectory, Refused
    <2>2. UserKept(n, call)
        BY <1>b, <1>1, <1>2, <2>1 DEF Refused, CallType, UserKept, CheckDirectory
    <2> QED
        BY <1>1, <1>3, <2>1, <2>2, LeavesUser DEF Aside
<1> QED
    BY <1>a, <1>b

LEMMA ClearedAside ==
    ASSUME Typed, \/ \E n \in Nonces : ExpireNonce(n)
                  \/ \E t \in Tokens : Revoke(t)
    PROVE  Aside
<1>1. UsersSame
    BY DEF ExpireNonce, Revoke, UsersSame, Typed, TypeOK, MemType, DbType
<1>2. UNCHANGED calls
    BY DEF ExpireNonce, Revoke
<1> QED
    BY <1>1, <1>2 DEF Aside, UserKept

LEMMA BrowserAside ==
    ASSUME Typed, NEW c \in Calls, Browses(c)
    PROVE  Aside
<1>1. UsersSame
    BY BrowserQuiet DEF ServerQuiet, UsersSame
<1>2. PICK n : Move(c, n) /\ Fresh(n, calls[c])
    BY BrowserMoves
<1>3. n.step \notin UserSteps
    BY <1>2 DEF Fresh, UserSteps
<1> QED
    BY <1>1, <1>2, <1>3, LeavesUser DEF UserKept, Aside

-----------------------------------------------------------------------------
(* What the other steps do to users, names and profiles.                   *)
LEMMA UserAt ==
    ASSUME Typed, NEW c \in Calls, calls[c].step \in UserSteps
    PROVE  /\ calls[c].who \in Wallets /\ calls[c].user \in User /\ calls[c].user.id \in Ids
           /\ calls[c].user.name \in Optional(Names)
<1>1. PICK call : call = calls[c]
    OBVIOUS
<1>2. CallOK(call)
    BY <1>1, CallAt DEF Typed
<1>3. call.who \in Wallets /\ call.user \in User
    BY <1>1, <1>2 DEF CallOK, UserSteps, CallType, Optional, ResolveSteps, ResolvedSteps
<1> QED
    BY <1>1, <1>3 DEF User, Optional

(* An account that is there is passed over only by a failed read.          *)
Unread(w) == db.accounts[w] # Null => "read" \in past'.trouble
FoundUser(n) ==
    /\ n.step = "profile" /\ db.accounts[n.who] # Null /\ UNCHANGED mem
    /\ n.user = [id |-> db.accounts[n.who], name |-> db.profiles[db.accounts[n.who]].name]
KnewUser(n) ==
    /\ n.step = "putProfile" /\ mem.users[n.who] # Null /\ UNCHANGED mem
    /\ n.user = mem.users[n.who]
MadeUser(n, k) ==
    /\ n.step = "putProfile" /\ mem.users[n.who] = Null /\ Unread(n.who)
    /\ n.user = [id |-> k, name |-> Null]
    /\ mem'.users = [mem.users EXCEPT ![n.who] = n.user] /\ mem'.directory = mem.directory
    /\ issued' = issued \cup {k}

LEMMA ReadAccountUser ==
    ASSUME Typed, NEW c \in Calls, ReadAccount(c)
    PROVE  /\ UNCHANGED db
           /\ \E n : /\ Move(c, n) /\ n.who = calls[c].who /\ n.who \in Wallets
                     /\ \/ FoundUser(n) \/ KnewUser(n)
                        \/ \E k \in Ids \ issued : MadeUser(n, k)
<1>1. PICK call : call = calls[c]
    OBVIOUS
<1>2. CallOK(call) /\ call \in CallType /\ call.step = "account" /\ mem \in MemType
    BY <1>1, CallAt DEF Typed, ReadAccount, TypeOK
<1>3. PICK w \in Wallets : w = call.who
    BY <1>2 DEF CallOK, ResolveSteps
<1>4. UNCHANGED db
    BY DEF ReadAccount
<1> DEFINE User1 == [id |-> db.accounts[w], name |-> db.profiles[db.accounts[w]].name]
           User2 == mem.users[w]
           User3(k) == [id |-> k, name |-> Null]
           Case1 == db.accounts[w] # Null /\ Move(c, Lent(call, User1)) /\ UNCHANGED mem
           Case2 == User2 # Null /\ Move(c, Shared(call, User2)) /\ UNCHANGED mem
           Case3(k) == /\ User2 = Null /\ Unread(w) /\ Move(c, Shared(call, User3(k)))
                       /\ mem' = [mem EXCEPT !.users[w] = User3(k)]
                       /\ issued' = issued \cup {k}
           Goal(n) == /\ Move(c, n) /\ n.who = calls[c].who /\ n.who \in Wallets
                      /\ \/ FoundUser(n) \/ KnewUser(n)
                         \/ \E k \in Ids \ issued : MadeUser(n, k)
<1>5. Case1 \/ Case2 \/ \E k \in Ids \ issued : Case3(k)
    <2>1. db.accounts[w] # Null /\ Trouble("read") => "read" \in past'.trouble
        BY TroubleAdds DEF Typed, Rows
    <2>2. \/ Case1
          \/ Case2
          \/ Draw(Ids) # {} /\ \E k : k = (CHOOSE i \in Draw(Ids) : TRUE) /\ Case3(k)
        BY <1>1, <1>3, <2>1 DEF ReadAccount, KnownUser, Lent, Shared, Unread
    <2> QED
        BY <2>2, Drawn
<1>6. CASE Case1
    <2>1. PICK n : n = Lent(call, User1)
        OBVIOUS
    <2>2. n.step = "profile" /\ n.who = w /\ n.user = User1
        BY <1>2, <1>3, <2>1 DEF Lent, CallType
    <2>3. Goal(n)
        BY <1>1, <1>3, <1>6, <2>1, <2>2 DEF FoundUser
    <2> QED
        BY <1>4, <2>3
<1>7. CASE Case2
    <2>1. PICK n : n = Shared(call, User2)
        OBVIOUS
    <2>2. n.step = "putProfile" /\ n.who = w /\ n.user = User2
        BY <1>2, <1>3, <2>1 DEF Shared, CallType
    <2>3. Goal(n)
        BY <1>1, <1>3, <1>7, <2>1, <2>2 DEF KnewUser
    <2> QED
        BY <1>4, <2>3
<1>8. ASSUME NEW k \in Ids \ issued, Case3(k) PROVE \E n : Goal(n)
    <2>1. PICK u : u = User3(k)
        OBVIOUS
    <2>2. PICK n : n = Shared(call, u)
        OBVIOUS
    <2>3. n.step = "putProfile" /\ n.who = w /\ n.user = u
        BY <1>2, <1>3, <2>2 DEF Shared, CallType
    <2>4. mem'.users = [mem.users EXCEPT ![w] = u] /\ mem'.directory = mem.directory
        BY <1>2, <1>8, <2>1 DEF MemType
    <2>5. MadeUser(n, k)
        BY <1>8, <2>1, <2>3, <2>4 DEF MadeUser
    <2>6. Goal(n)
        BY <1>1, <1>3, <1>8, <2>1, <2>2, <2>3, <2>5
    <2> QED
        BY <2>6
<1> QED
    BY <1>4, <1>5, <1>6, <1>7, <1>8

(* The name a user object is made with: the row's, of one time or another, *)
(* or the one the process knows.                                           *)
Recalled(user, call) ==
    \/ user.name = Null
    \/ user.name = db.profiles[call.user.id].name
    \/ user.name = call.user.name
    \/ mem.users[call.who] # Null /\ user.name = mem.users[call.who].name

LEMMA ReadProfileUser ==
    ASSUME Typed, NEW c \in Calls, ReadProfile(c)
    PROVE  /\ UNCHANGED db /\ calls[c].step = "profile"
           /\ \E user : /\ Rebuild(c, user) /\ user \in User
                        /\ user.id = calls[c].user.id /\ Recalled(user, calls[c])
<1>1. PICK call : call = calls[c]
    OBVIOUS
<1>2. Backed(call) /\ call.step = "profile"
    BY <1>1, CallAt DEF Typed, ReadProfile
<1>3. call.who \in Wallets /\ call.user \in User /\ call.user.id \in Ids
    BY <1>1, <1>2, UserAt DEF UserSteps
<1>4. db.profiles[call.user.id] \in Profile
    BY <1>2, <1>3 DEF Backed, Typed, TypeOK, DbType, Optional
<1>5. PICK name \in {db.profiles[call.user.id].name, call.user.name, Null} :
            Rebuild(c, Rebuilt(call, name))
    BY <1>1 DEF ReadProfile
<1>6. {db.profiles[call.user.id].name, call.user.name, Null} \subseteq Optional(Names)
    BY <1>3, <1>4 DEF User, Profile, Optional
<1>7. PICK old \in Optional(User) : old = mem.users[call.who]
    BY <1>3 DEF Typed, TypeOK, MemType
<1>8. old # Null => old.name \in Optional(Names)
    BY DEF User, Optional
<1>9. PICK chosen \in Optional(Names) :
           chosen = (IF name # Null THEN name ELSE IF old = Null THEN Null ELSE old.name)
    BY <1>6, <1>8, Maybe
<1>10. PICK user \in User : user = Rebuilt(call, name) /\ user.id = call.user.id /\ user.name = chosen
    BY <1>3, <1>7, <1>9, UserMade DEF Rebuilt
<1>11. Recalled(user, call)
    BY <1>5, <1>7, <1>9, <1>10 DEF Recalled
<1> QED
    BY <1>1, <1>2, <1>5, <1>10, <1>11 DEF ReadProfile

LEMMA LookUpUser ==
    ASSUME Typed, NEW c \in Calls, LookUpSession(c)
    PROVE  /\ UNCHANGED db /\ mem'.directory = mem.directory
           /\ \A d \in Calls : UserKept(calls'[d], calls[d])
           /\ \/ mem'.users = mem.users
              \/ \E ck \in Cookie :
                   /\ ck = calls[c].cookie /\ ck # Null /\ mem.users[ck.wallet] = Null
                   /\ mem'.users = [mem.users EXCEPT ![ck.wallet] = [id |-> ck.id, name |-> ck.name]]
<1>1. PICK call : call = calls[c]
    OBVIOUS
<1>2. CallOK(call) /\ call \in CallType /\ call.step = "lookup"
    BY <1>1, CallAt DEF Typed, LookUpSession
<1>3. call.cookie # Null
    BY <1>2 DEF CallOK, Stage, Resolver, Doing, ResolveSteps, NameSteps
<1>5. PICK ck \in Cookie : ck = call.cookie
    BY <1>2, <1>3, CookieTyped
<1>6. ck.token \in Tokens /\ ck.wallet \in Wallets /\ ck.id \in Ids /\ ck.name \in Optional(Names)
    BY <1>2, <1>3, <1>5, CookieTyped
<1>7. UNCHANGED db
    BY DEF LookUpSession
<1>a. CASE UNCHANGED mem /\ \E w : Move(c, Resolving(call, w, "restored"))
    <2>1. \A d \in Calls : UserKept(calls'[d], calls[d])
        BY <1>1, <1>2, <1>a, ResolvingAway, LeavesUser DEF UserKept, UserSteps
    <2> QED
        BY <1>7, <1>a, <2>1
<1>b. ASSUME NEW user \in User, NEW x \in Session, x = [wallet |-> ck.wallet, id |-> user.id],
             user = IF mem.users[ck.wallet] # Null THEN mem.users[ck.wallet]
                    ELSE [id |-> ck.id, name |-> ck.name],
             Authenticated(c, [mem EXCEPT !.users[ck.wallet] = user, !.sessions[ck.token] = x],
                           ck.wallet, ck.token)
      PROVE  /\ mem'.directory = mem.directory
             /\ \A d \in Calls : UserKept(calls'[d], calls[d])
             /\ \/ mem'.users = mem.users
                \/ /\ mem.users[ck.wallet] = Null
                   /\ mem'.users = [mem.users EXCEPT ![ck.wallet] = [id |-> ck.id, name |-> ck.name]]
    <2>1. PICK m : m = [mem EXCEPT !.users[ck.wallet] = user, !.sessions[ck.token] = x]
        OBVIOUS
    <2>2. mem.users \in [Wallets -> Optional(User)] /\ mem.sessions \in [Tokens -> Optional(Session)]
          /\ mem \in MemType
        BY DEF Typed, TypeOK, MemType
    <2>3. user \in Optional(User) /\ x \in Optional(Session)
        BY NullApart DEF Optional
    <2>4. /\ m \in MemType
          /\ m.users = [mem.users EXCEPT ![ck.wallet] = user] /\ m.directory = mem.directory
        BY <2>1, <2>2, <2>3, <1>6 DEF MemType
    <2>5. Dropped(m, ck.token).users = m.users /\ Dropped(m, ck.token).directory = m.directory
        BY <2>4 DEF Dropped, MemType
    <2>6. mem' \in {m, Dropped(m, ck.token)}
        BY <1>b, <2>1, AuthenticatedAside
    <2>7. \A d \in Calls : UserKept(calls'[d], calls[d])
        BY <1>b, AuthenticatedAside, LeavesUser DEF UserKept
    <2>8. mem.users[ck.wallet] # Null => m.users = mem.users
        BY <1>b, <1>6, <2>2, <2>4
    <2> QED
        BY <1>b, <2>4, <2>5, <2>6, <2>7, <2>8
<1>8. (IF mem.users[ck.wallet] # Null THEN mem.users[ck.wallet]
       ELSE [id |-> ck.id, name |-> ck.name]) \in User
    BY <1>6, UserMade DEF Typed, TypeOK, MemType, Optional
<1>9. PICK user \in User :
           user = IF mem.users[ck.wallet] # Null THEN mem.users[ck.wallet]
                  ELSE [id |-> ck.id, name |-> ck.name]
    BY <1>8
<1>10. PICK x \in Session : x = [wallet |-> ck.wallet, id |-> user.id]
    BY <1>6 DEF User, Session
<1>11. \/ UNCHANGED mem /\ \E w : Move(c, Resolving(call, w, "restored"))
       \/ Authenticated(c, [mem EXCEPT !.users[ck.wallet] = user, !.sessions[ck.token] = x],
                        ck.wallet, ck.token)
    BY <1>1, <1>5, <1>9, <1>10 DEF LookUpSession
<1> QED
    BY <1>1, <1>3, <1>5, <1>7, <1>9, <1>10, <1>11, <1>a, <1>b

Claims(c, user) ==
    /\ calls[c].step = "conflict" /\ UNCHANGED db
    /\ user = [Object(calls[c]) EXCEPT !.name = calls[c].want]
    /\ Move(c, NamedUser(calls[c], user))
    /\ mem'.users = IF calls[c].held THEN [mem.users EXCEPT ![calls[c].who] = user] ELSE mem.users
    /\ mem'.directory = [n \in Names |->
             IF n = calls[c].want THEN calls[c].who
             ELSE IF n = Object(calls[c]).name THEN Null ELSE mem.directory[n]]
    /\ Disturbed(c, Object(calls[c])) \subseteq past'.trouble

LEMMA ClaimUser ==
    ASSUME Typed, NEW c \in Calls, ClaimName(c)
    PROVE  Aside \/ \E user : Claims(c, user)
<1>1. calls[c].step = "conflict" /\ UNCHANGED db
    BY DEF ClaimName
<1>a. CASE Answer(c, "no") /\ UNCHANGED mem
    BY <1>1, <1>a, AnsweredAway, LeavesUser DEF Answer, UserKept, UserSteps, Aside, UsersSame
<1>b. ASSUME NEW trouble, Claim(c, Object(calls[c]), trouble) PROVE \E user : Claims(c, user)
    <2>1. PICK user : user = [Object(calls[c]) EXCEPT !.name = calls[c].want]
        OBVIOUS
    <2>2. calls[c].who \in Wallets
        BY <1>1, UserAt DEF UserSteps
    <2>3. /\ Move(c, NamedUser(calls[c], user))
          /\ mem'.users = IF calls[c].held THEN [mem.users EXCEPT ![calls[c].who] = user] ELSE mem.users
        BY <1>b, <2>1, <2>2, ClaimParts DEF Typed
    <2>4. mem'.directory = [n \in Names |->
             IF n = calls[c].want THEN calls[c].who
             ELSE IF n = Object(calls[c]).name THEN Null ELSE mem.directory[n]]
        BY <1>b, ClaimDirectory DEF Typed
    <2>5. Disturbed(c, Object(calls[c])) \subseteq past'.trouble
        BY <1>b DEF Claim, Typed, Rows, PastType
    <2> QED
        BY <1>1, <2>1, <2>3, <2>4, <2>5 DEF Claims
<1> QED
    BY <1>a, <1>b DEF ClaimName

(* A write to the tables of profiles and accounts.                         *)
LEMMA PutsUser ==
    ASSUME Typed, NEW c \in Calls
    PROVE  /\ PutProfile(c) =>
                /\ calls[c].step = "putProfile" /\ UNCHANGED mem /\ db'.accounts = db.accounts
                /\ Move(c, Stepped(calls[c], "putAccount"))
                /\ \/ db'.profiles = ProfilesWith(calls[c].user.id, calls[c].user.name)
                   \/ db'.profiles = db.profiles /\ "write" \in past'.trouble
           /\ PutAccount(c) =>
                /\ calls[c].step = "putAccount" /\ UNCHANGED mem /\ db'.profiles = db.profiles
                /\ Move(c, Stepped(calls[c], calls[c].after))
                /\ \/ db'.accounts = AccountsWith(calls[c])
                   \/ db'.accounts = db.accounts /\ "write" \in past'.trouble
           /\ SaveName(c) =>
                /\ calls[c].step = "saveName" /\ UNCHANGED mem /\ db'.accounts = db.accounts
                /\ Move(c, Answered(calls[c], "ok"))
                /\ db'.profiles \in {db.profiles, ProfilesWith(calls[c].user.id, calls[c].want)}
<1>1. db \in DbType
    BY DEF Typed, TypeOK
<1>2. Trouble("write") => "write" \in past'.trouble
    BY DEF Trouble, Typed, Rows, PastType
<1>3. ASSUME PutProfile(c)
      PROVE  \/ db'.profiles = ProfilesWith(calls[c].user.id, calls[c].user.name)
             \/ db'.profiles = db.profiles /\ "write" \in past'.trouble
    BY <1>1, <1>2, <1>3 DEF PutProfile, DbType
<1>4. ASSUME PutAccount(c)
      PROVE  \/ db'.accounts = AccountsWith(calls[c])
             \/ db'.accounts = db.accounts /\ "write" \in past'.trouble
    BY <1>1, <1>2, <1>4 DEF PutAccount, DbType
<1>5. ASSUME SaveName(c)
      PROVE  db'.profiles \in {db.profiles, ProfilesWith(calls[c].user.id, calls[c].want)}
    BY <1>1, <1>5 DEF SaveName, DbType
<1>6. PutProfile(c) \/ SaveName(c) => db'.accounts = db.accounts
    BY <1>1 DEF PutProfile, SaveName, DbType
<1>7. PutAccount(c) => db'.profiles = db.profiles
    BY <1>1 DEF PutAccount, DbType
<1> QED
    BY <1>3, <1>4, <1>5, <1>6, <1>7 DEF PutProfile, PutAccount, SaveName, Stepped, Answer

(* Every step, by what it does to users.                                   *)
LEMMA UserCases ==
    ASSUME Typed, Next
    PROVE  \/ Aside \/ Restart
           \/ \E c \in Calls : \/ ReadAccount(c) \/ ReadProfile(c) \/ LookUpSession(c)
                               \/ PutProfile(c) \/ PutAccount(c) \/ SaveName(c)
                               \/ \E user : Claims(c, user)
    BY NextCases, ServerCases, SessionAside, OpenAside, NonceAside, DirectoryAside, ClearedAside,
       BrowserAside, ClaimUser DEF Serves

-----------------------------------------------------------------------------
(* Within one process a wallet and a profile belong to each other: whoever *)
(* names a profile of a wallet names the one the process knows.            *)
CallUser(call, w, i) == call.step \in UserSteps /\ call.who = w /\ call.user.id = i
Linked(w, i) == db.accounts[w] = i \/ Bears(w, i) \/ \E c \in Calls : CallUser(calls[c], w, i)
Ones ==
    /\ \A w \in Wallets, i \in Ids : Uid(w, i) => i \in issued
    /\ \A w, v \in Wallets, i \in Ids : Uid(w, i) /\ Uid(v, i) => w = v
OneId == Ones /\ \A w \in Wallets, i \in Ids : Linked(w, i) => Uid(w, i)
OneIdInv == "restart" \notin past.trouble => OneId

LEMMA SourcedUid ==
    ASSUME Typed, OneId, NEW w \in Wallets, NEW i \in Ids, Sourced(w, i)
    PROVE  Uid(w, i)
<1>1. ASSUME NEW c \in Calls, Resolved(calls[c], w, i) PROVE Uid(w, i)
    <2>1. calls[c].step \in UserSteps /\ calls[c].who = w
        BY <1>1 DEF Resolved, UserSteps, ResolvedSteps
    <2>2. CASE calls[c].held
        <3>1. mem.users[w] # Null
            BY <2>1, <2>2, CallAt DEF Typed, Backed
        <3> QED
            BY <1>1, <2>1, <2>2, <3>1 DEF Resolved, Object, Uid
    <2>3. CASE ~calls[c].held
        <3>1. CallUser(calls[c], w, i)
            BY <1>1, <2>1, <2>3 DEF Resolved, Object, CallUser
        <3> QED
            BY <3>1 DEF OneId, Linked
    <2> QED
        BY <2>2, <2>3
<1> QED
    BY <1>1 DEF Sourced, OneId, Linked

LEMMA LinkKept ==
    ASSUME Typed, Next, OneId, Ones',
           \A w \in Wallets, i \in Ids : Uid(w, i) => Uid(w, i)',
           \A w \in Wallets, i \in Ids : db'.accounts[w] = i => Uid(w, i),
           \A d \in Calls, w \in Wallets, i \in Ids : CallUser(calls'[d], w, i) => Uid(w, i)'
    PROVE  OneId'
<1>1. ASSUME NEW w \in Wallets, NEW i \in Ids, Linked(w, i)' PROVE Uid(w, i)'
    <2>1. db'.accounts[w] = i \/ Bears(w, i)' \/ \E d \in Calls : CallUser(calls'[d], w, i)
        BY <1>1 DEF Linked, CallUser
    <2>2. ASSUME Bears(w, i)' PROVE Uid(w, i)
        BY <2>2, BearsFollows, SourcedUid
    <2> QED
        BY <2>1, <2>2
<1> QED
    BY <1>1 DEF OneId

(* A step after which every wallet has the profile it had.                 *)
IdsSame ==
    \A w \in Wallets : \/ mem'.users[w] = mem.users[w]
                       \/ mem.users[w] # Null /\ mem'.users[w] # Null /\ mem'.users[w].id = mem.users[w].id
LEMMA IdsKept ==
    ASSUME IdsSame, NEW w \in Wallets, NEW i
    PROVE  Uid(w, i)' <=> Uid(w, i)
    BY DEF IdsSame, Uid

LEMMA IdsSameKept ==
    ASSUME Typed, Next, OneId, IdsSame, issued \subseteq issued',
           \A w \in Wallets, i \in Ids : db'.accounts[w] = i => Uid(w, i),
           \A d \in Calls, w \in Wallets, i \in Ids : CallUser(calls'[d], w, i) => Uid(w, i)
    PROVE  OneId'
<1>1. \A w \in Wallets, i \in Ids : Uid(w, i)' <=> Uid(w, i)
    BY IdsKept
<1>2. Ones'
    BY <1>1 DEF OneId, Ones
<1> QED
    BY <1>1, <1>2, LinkKept

LEMMA AsideOneId ==
    ASSUME Typed, Next, OneId, Aside, issued \subseteq issued'
    PROVE  OneId'
<1>1. IdsSame
    BY DEF Aside, UsersSame, IdsSame
<1>2. \A w \in Wallets, i \in Ids : db'.accounts[w] = i => Uid(w, i)
    BY DEF Aside, UsersSame, OneId, Linked
<1>3. ASSUME NEW d \in Calls, NEW w \in Wallets, NEW i \in Ids, CallUser(calls'[d], w, i)
      PROVE  Uid(w, i)
    <2>1. CallUser(calls[d], w, i)
        BY <1>3 DEF Aside, UserKept, CallUser, UserSteps
    <2> QED
        BY <2>1 DEF OneId, Linked
<1> QED
    BY <1>1, <1>2, <1>3, IdsSameKept

(* A step that moves one call, whose user is the process's own.            *)
LEMMA MovedOneId ==
    ASSUME Typed, OneId, NEW c \in Calls, NEW n, Move(c, n),
           \A w \in Wallets, i \in Ids : CallUser(n, w, i) => Uid(w, i)
    PROVE  \A d \in Calls, w \in Wallets, i \in Ids : CallUser(calls'[d], w, i) => Uid(w, i)
<1>1. \A d \in Calls : calls'[d] = IF d = c THEN n ELSE calls[d]
    BY DEF Typed, CallsOK, Move
<1> QED
    BY <1>1 DEF OneId, Linked

LEMMA ReadAccountOneId ==
    ASSUME Typed, Next, OneId, NEW c \in Calls, ReadAccount(c), issued \subseteq issued'
    PROVE  OneId'
<1>1. PICK n : /\ Move(c, n) /\ n.who = calls[c].who /\ n.who \in Wallets
               /\ \/ FoundUser(n) \/ KnewUser(n)
                  \/ \E k \in Ids \ issued : MadeUser(n, k)
    BY ReadAccountUser
<1>2. \A w \in Wallets, i \in Ids : db'.accounts[w] = i => Uid(w, i)
    BY ReadAccountUser DEF OneId, Linked
<1>3. CASE FoundUser(n) \/ KnewUser(n)
    <2>1. IdsSame
        BY <1>3 DEF FoundUser, KnewUser, IdsSame
    <2>2. \A w \in Wallets, i \in Ids : CallUser(n, w, i) => Uid(w, i)
        BY <1>3 DEF FoundUser, KnewUser, CallUser, Uid, OneId, Linked
    <2> QED
        BY <1>1, <1>2, <2>1, <2>2, MovedOneId, IdsSameKept
<1>4. ASSUME NEW k \in Ids \ issued, MadeUser(n, k) PROVE OneId'
    <2>1. PICK w \in Wallets : w = n.who
        BY <1>1
    <2>2. mem.users \in [Wallets -> Optional(User)] /\ n.user # Null /\ n.user.id = k
        <3>1. n.user \in User
            BY <1>4, UserMade, Maybe DEF MadeUser
        <3> QED
            BY <1>4, <3>1, NullApart DEF MadeUser, Typed, TypeOK, MemType
    <2>3. mem'.users = [mem.users EXCEPT ![w] = n.user] /\ mem.users[w] = Null /\ k \in issued'
        BY <1>4, <2>1 DEF MadeUser
    <2>4. \A v \in Wallets, i \in Ids : Uid(v, i)' <=> Uid(v, i) \/ (v = w /\ i = k)
        BY <2>2, <2>3 DEF Uid
    <2>5. Ones'
        BY <1>4, <2>3, <2>4 DEF OneId, Ones
    <2>6. ASSUME NEW d \in Calls, NEW v \in Wallets, NEW i \in Ids, CallUser(calls'[d], v, i)
          PROVE  Uid(v, i)'
        <3>1. calls'[d] = IF d = c THEN n ELSE calls[d]
            BY <1>1 DEF Typed, CallsOK, Move
        <3>2. CASE d = c
            BY <2>1, <2>2, <2>4, <2>6, <3>1, <3>2 DEF CallUser
        <3>3. CASE d # c
            BY <2>4, <2>6, <3>1, <3>3 DEF OneId, Linked
        <3> QED
            BY <3>2, <3>3
    <2> QED
        BY <1>2, <2>4, <2>5, <2>6, LinkKept
<1> QED
    BY <1>1, <1>3, <1>4

LEMMA ReadProfileOneId ==
    ASSUME Typed, Next, OneId, NEW c \in Calls, ReadProfile(c), issued \subseteq issued'
    PROVE  OneId'
<1>1. PICK user \in User : Rebuild(c, user) /\ user.id = calls[c].user.id
    BY ReadProfileUser
<1>2. UNCHANGED db /\ calls[c].step = "profile"
    BY ReadProfileUser
<1>3. PICK w \in Wallets : w = calls[c].who
    BY <1>2, UserAt DEF UserSteps
<1>4. Uid(w, user.id)
    <2>1. CallUser(calls[c], w, user.id) /\ user.id \in Ids
        BY <1>1, <1>2, <1>3, UserAt DEF CallUser, UserSteps
    <2> QED
        BY <2>1 DEF OneId, Linked
<1>5. mem'.users = [mem.users EXCEPT ![w] = user] /\ user # Null
      /\ mem.users \in [Wallets -> Optional(User)]
    BY <1>1, <1>3, RebuildUsers, NullApart DEF Typed, TypeOK, MemType
<1>6. IdsSame
    BY <1>4, <1>5 DEF Uid, IdsSame
<1>7. ASSUME NEW d \in Calls, NEW v \in Wallets, NEW i \in Ids, CallUser(calls'[d], v, i)
      PROVE  Uid(v, i)
    <2>1. PICK call : call = calls[d] /\ call \in CallType
        BY DEF Typed, CallsOK
    <2>2. PICK n : n = calls'[d]
        OBVIOUS
    <2>3. CASE d = c
        <3>1. n = Served(call, user)
            BY <1>1, <2>1, <2>2, <2>3, RebuildCalls
        <3>2. n.who = call.who /\ n.user = user
            BY <2>1, <3>1 DEF Served, CallType
        <3> QED
            BY <1>3, <1>4, <1>7, <2>1, <2>2, <2>3, <3>2 DEF CallUser
    <2>4. CASE n = LetGo(call, mem.users[w]) /\ call.who = w
        <3>1. n.who = call.who /\ n.user = mem.users[w]
            BY <2>1, <2>4 DEF LetGo, CallType
        <3> QED
            BY <1>4, <1>7, <2>2, <2>4, <3>1 DEF CallUser, Uid
    <2>5. CASE n = call
        BY <1>7, <2>1, <2>2, <2>5 DEF OneId, Linked
    <2> QED
        BY <1>1, <1>3, <2>1, <2>2, <2>3, <2>4, <2>5, RebuildCalls
<1>8. \A v \in Wallets, i \in Ids : db'.accounts[v] = i => Uid(v, i)
    BY <1>2 DEF OneId, Linked
<1> QED
    BY <1>6, <1>7, <1>8, IdsSameKept

LEMMA LookUpAside ==
    ASSUME Typed, OneId, NEW c \in Calls, LookUpSession(c)
    PROVE  Aside
<1>1. /\ UNCHANGED db /\ mem'.directory = mem.directory
      /\ \A d \in Calls : UserKept(calls'[d], calls[d])
    BY LookUpUser
<1>2. ASSUME NEW ck \in Cookie, ck = calls[c].cookie, ck # Null PROVE mem.users[ck.wallet] # Null
    <2>1. ck.wallet \in Wallets /\ ck.id \in Ids /\ Bears(ck.wallet, ck.id)
        BY <1>2 DEF Cookie, Bears, CallBears, Has
    <2> QED
        BY <2>1 DEF OneId, Linked, Uid
<1> QED
    BY <1>1, <1>2, LookUpUser DEF Aside, UsersSame

LEMMA LookUpOneId ==
    ASSUME Typed, Next, OneId, NEW c \in Calls, LookUpSession(c), issued \subseteq issued'
    PROVE  OneId'
    BY LookUpAside, AsideOneId

LEMMA PutOneId ==
    ASSUME Typed, Next, OneId, NEW c \in Calls, PutProfile(c) \/ PutAccount(c) \/ SaveName(c),
           issued \subseteq issued'
    PROVE  OneId'
<1>1. PICK call : call = calls[c]
    OBVIOUS
<1>2. call \in CallType /\ call.step \in UserSteps /\ UNCHANGED mem
    BY <1>1, CallAt, PutsUser DEF Typed, UserSteps
<1>3. CallUser(call, call.who, call.user.id) /\ call.who \in Wallets /\ call.user.id \in Ids
    BY <1>1, <1>2, UserAt DEF CallUser
<1>4. Uid(call.who, call.user.id)
    BY <1>1, <1>3 DEF OneId, Linked
<1>5. IdsSame
    BY <1>2 DEF IdsSame
<1>6. PICK n : Move(c, n) /\ (n = Answered(call, "ok") \/ \E step : n = Stepped(call, step))
    BY <1>1, PutsUser
<1>7. n.step = "reply" \/ (n.who = call.who /\ n.user = call.user)
    BY <1>2, <1>6, AnsweredAway DEF Stepped, CallType
<1>8. \A w \in Wallets, i \in Ids : CallUser(n, w, i) => Uid(w, i)
    BY <1>4, <1>7 DEF CallUser, UserSteps
<1>9. \A w \in Wallets, i \in Ids : db'.accounts[w] = i => Uid(w, i)
    <2>1. db'.accounts = db.accounts \/ db'.accounts = AccountsWith(call)
        BY <1>1, PutsUser
    <2>2. db.accounts \in [Wallets -> Optional(Ids)]
        BY DEF Typed, TypeOK, DbType
    <2> QED
        BY <1>3, <1>4, <2>1, <2>2 DEF AccountsWith, OneId, Linked
<1> QED
    BY <1>5, <1>6, <1>8, <1>9, MovedOneId, IdsSameKept

LEMMA ClaimsOneId ==
    ASSUME Typed, Next, OneId, NEW c \in Calls, NEW user, Claims(c, user), issued \subseteq issued'
    PROVE  OneId'
<1>1. PICK call : call = calls[c]
    OBVIOUS
<1>2. call \in CallType /\ call.step = "conflict" /\ UNCHANGED db
    BY <1>1, CallAt DEF Typed, Claims
<1>3. PICK old \in User : old = Object(call)
    BY <1>1, <1>2, ObjectTyped DEF ResolvedSteps
<1>4. call.who \in Wallets /\ old.id \in Ids /\ mem.users[call.who] # Null
    BY <1>1, <1>2, <1>3, ObjectTyped DEF ResolvedSteps
<1>5. Uid(call.who, old.id)
    <2>1. Sourced(call.who, old.id)
        BY <1>1, <1>2, <1>3 DEF Sourced, Resolved, ResolvedSteps
    <2> QED
        BY <1>4, <2>1, SourcedUid
<1>6. user.id = old.id /\ user # Null
    <2>1. call.want \in Optional(Names)
        BY <1>2 DEF CallType
    <2>2. user \in User /\ user.id = old.id
        BY <1>1, <1>3, <2>1 DEF Claims, User, Optional
    <2> QED
        BY <2>2, NullApart
<1>7. mem'.users = IF call.held THEN [mem.users EXCEPT ![call.who] = user] ELSE mem.users
    BY <1>1 DEF Claims
<1>8. IdsSame
    BY <1>5, <1>6, <1>7 DEF IdsSame, Uid, Typed, TypeOK, MemType
<1>9. PICK n : Move(c, n) /\ n = NamedUser(call, user)
    BY <1>1 DEF Claims
<1>10. n.who = call.who /\ n.user = user
    BY <1>2, <1>9 DEF NamedUser, CallType
<1>11. \A w \in Wallets, i \in Ids : CallUser(n, w, i) => Uid(w, i)
    BY <1>5, <1>6, <1>10 DEF CallUser
<1>12. \A w \in Wallets, i \in Ids : db'.accounts[w] = i => Uid(w, i)
    BY <1>2 DEF OneId, Linked
<1> QED
    BY <1>8, <1>9, <1>11, <1>12, MovedOneId, IdsSameKept

LEMMA NextGrown == ASSUME Typed, Next PROVE Grown
    BY NextCases, ServerGrown, BrowserQuiet

LEMMA RestartTold == ASSUME Typed, Restart PROVE "restart" \in past'.trouble
    BY DEF Restart, Typed, Rows, PastType

LEMMA NextOneId ==
    ASSUME Typed, OneIdInv, Next
    PROVE  OneIdInv'
<1> SUFFICES ASSUME "restart" \notin past'.trouble PROVE OneId'
    BY DEF OneIdInv
<1>1. OneId /\ issued \subseteq issued'
    BY NextGrown DEF OneIdInv, Grown
<1> QED
    BY <1>1, UserCases, RestartTold, AsideOneId, ReadAccountOneId, ReadProfileOneId, LookUpOneId,
       PutOneId, ClaimsOneId

LEMMA InitBlank ==
    ASSUME Init
    PROVE  /\ \A w \in Wallets : mem.users[w] = Null /\ db.accounts[w] = Null
           /\ \A i \in Ids : db.profiles[i] = Null
           /\ \A c \in Calls : calls[c].step = "idle"
           /\ \A w, i : ~Bears(w, i)
<1>1. /\ \A w \in Wallets : mem.users[w] = Null /\ db.accounts[w] = Null
      /\ \A i \in Ids : db.profiles[i] = Null
      /\ \A t \in Tokens : mem.sessions[t] = Null /\ db.sessions[t] = Null
      /\ jar = Null
      /\ \A c \in Calls : calls[c] = Idle
    BY EmptyTyped DEF Init, ServerInit
<1>2. \A w, i : ~CallBears(Idle, w, i)
    BY IdleFields DEF CallBears, Has
<1> QED
    BY <1>1, <1>2, IdleFields DEF Bears, Has

LEMMA AlwaysOneId == Spec => []OneIdInv
<1>1. Init => OneIdInv
    BY InitBlank, NullApart DEF OneIdInv, OneId, Ones, Linked, Uid, CallUser, UserSteps
<1>2. Typed /\ OneIdInv /\ [Next]_vars => OneIdInv'
    <2>1. ASSUME UNCHANGED vars, OneIdInv PROVE OneIdInv'
        BY <2>1 DEF vars, OneIdInv, OneId, Ones, Linked, Uid, CallUser, Bears, CallBears, Has
    <2> QED
        BY <2>1, NextOneId
<1> QED
    BY <1>1, <1>2, AlwaysTyped, PTL DEF Spec

-----------------------------------------------------------------------------
(* While writes arrive and no restart meets a failed read, what names a    *)
(* profile of a wallet names the one of the account; only a request that   *)
(* has yet to write the account may be ahead of it.                        *)
Calm == "write" \notin past.trouble /\ ~({"restart", "read"} \subseteq past.trouble)
CallDone(call, w, i) ==
    call.step \in {"profile"} \cup ResolvedSteps /\ call.who = w /\ call.user.id = i
Writing(call) ==
    /\ call.step \in {"putProfile", "putAccount"} => Uid(call.who, call.user.id)
    /\ call.step = "putProfile" /\ call.user.name # Null => db.profiles[call.user.id] # Null
    /\ call.step = "putAccount" => db.profiles[call.user.id] # Null
CallsCalm ==
    \A c \in Calls : /\ Writing(calls[c])
                     /\ \A w \in Wallets, i \in Ids : CallDone(calls[c], w, i) => db.accounts[w] = i
UsersCalm ==
    \A w \in Wallets : mem.users[w] # Null =>
        /\ db.accounts[w] # Null => mem.users[w].id = db.accounts[w]
        /\ mem.users[w].name # Null => db.profiles[mem.users[w].id] # Null
BearersCalm == \A w \in Wallets, i \in Ids : Bears(w, i) => db.accounts[w] = i
Agreed == CallsCalm /\ UsersCalm /\ BearersCalm
CalmInv == Calm => Agreed

AccountsStay == \A w \in Wallets : db.accounts[w] # Null => db'.accounts[w] = db.accounts[w]

LEMMA SourcedAccount ==
    ASSUME Typed, Agreed, NEW w \in Wallets, NEW i \in Ids, Sourced(w, i)
    PROVE  db.accounts[w] = i
<1>0. \A j \in Ids : j # Null
    BY NullApart
<1>1. ASSUME NEW c \in Calls, Resolved(calls[c], w, i) PROVE db.accounts[w] = i
    <2>1. calls[c].step \in ResolvedSteps /\ calls[c].step \in UserSteps /\ calls[c].who = w
        BY <1>1 DEF Resolved, UserSteps, ResolvedSteps
    <2>2. calls[c].user.id \in Ids /\ mem.users[w] # Null
        BY <2>1, UserAt, ObjectTyped
    <2>3. db.accounts[w] = calls[c].user.id
        BY <2>1, <2>2 DEF Agreed, CallsCalm, CallDone
    <2>4. mem.users[w].id = db.accounts[w]
        BY <1>0, <2>2, <2>3 DEF Agreed, UsersCalm
    <2> QED
        BY <1>1, <2>1, <2>3, <2>4 DEF Resolved, Object
<1>2. ASSUME Uid(w, i), NEW j \in Ids, Bears(w, j) PROVE db.accounts[w] = i
    <2>1. db.accounts[w] = j
        BY <1>2 DEF Agreed, BearersCalm
    <2> QED
        BY <1>0, <1>2, <2>1 DEF Agreed, UsersCalm, Uid
<1>3. Bears(w, i) => db.accounts[w] = i
    BY DEF Agreed, BearersCalm
<1> QED
    BY <1>1, <1>2, <1>3 DEF Sourced

LEMMA AgreedKept ==
    ASSUME Typed, Next, Agreed, AccountsStay, CallsCalm', UsersCalm'
    PROVE  Agreed'
<1>1. ASSUME NEW w \in Wallets, NEW i \in Ids, Bears(w, i)' PROVE db'.accounts[w] = i
    <2>1. db.accounts[w] = i
        BY <1>1, BearsFollows, SourcedAccount
    <2> QED
        BY <2>1, NullApart DEF AccountsStay
<1> QED
    BY <1>1 DEF Agreed, BearersCalm

(* A step that moves one call, and takes nothing from the others.          *)
CallCalm(call) ==
    Writing(call) /\ \A w \in Wallets, i \in Ids : CallDone(call, w, i) => db.accounts[w] = i
LEMMA MovedCalm ==
    ASSUME Typed, Agreed, AccountsStay, NEW c \in Calls, NEW n, Move(c, n), CallCalm(n)',
           \A i \in Ids : db.profiles[i] # Null => db'.profiles[i] # Null,
           \A w \in Wallets : \A i : Uid(w, i) => Uid(w, i)'
    PROVE  CallsCalm'
<1>1. \A d \in Calls : calls'[d] = IF d = c THEN n ELSE calls[d]
    BY DEF Typed, CallsOK, Move
<1>2. ASSUME NEW d \in Calls PROVE CallCalm(calls[d])'
    <2>1. PICK call : call = calls[d]
        OBVIOUS
    <2>2. CallCalm(call)
        BY <2>1 DEF Agreed, CallsCalm, CallCalm
    <2>3. call.step \in UserSteps => call.who \in Wallets /\ call.user.id \in Ids
        BY <2>1, UserAt
    <2>4. Writing(call)'
        BY <2>2, <2>3 DEF CallCalm, Writing, UserSteps
    <2>5. \A w \in Wallets, i \in Ids : CallDone(call, w, i) => db'.accounts[w] = i
        BY <2>2, NullApart DEF CallCalm, AccountsStay
    <2>6. CallCalm(call)'
        BY <2>4, <2>5 DEF CallCalm, CallDone
    <2>7. PICK x : x = calls'[d]
        OBVIOUS
    <2>8. CallCalm(x)'
        BY <1>1, <2>1, <2>6, <2>7
    <2> QED
        BY <2>7, <2>8 DEF CallCalm, Writing, CallDone
<1> QED
    BY <1>2 DEF CallsCalm, CallCalm

(* A call that is not under way names no profile.                          *)
LEMMA AwayCalm ==
    ASSUME NEW n, n.step \notin UserSteps
    PROVE  CallCalm(n) /\ CallCalm(n)'
    BY DEF CallCalm, Writing, CallDone, UserSteps, ResolvedSteps

LEMMA AsideCalm ==
    ASSUME Typed, Next, Agreed, Aside
    PROVE  Agreed'
<1>1. AccountsStay /\ UsersCalm'
    BY DEF Aside, UsersSame, AccountsStay, Agreed, UsersCalm
<1>2. ASSUME NEW d \in Calls PROVE CallCalm(calls[d])'
    <2>1. PICK call, n : call = calls[d] /\ n = calls'[d]
        OBVIOUS
    <2>2. CallCalm(call) /\ UserKept(n, call)
        BY <2>1 DEF Agreed, CallsCalm, CallCalm, Aside
    <2>3. CASE n.step \in UserSteps
        <3>1. Writing(n)'
            BY <2>2, <2>3 DEF UserKept, CallCalm, Writing, Uid, Aside, UsersSame
        <3>2. \A w \in Wallets, i \in Ids : CallDone(n, w, i) => db'.accounts[w] = i
            BY <2>2, <2>3 DEF UserKept, CallCalm, CallDone, ResolvedSteps, Aside, UsersSame
        <3>3. CallCalm(n)'
            BY <3>1, <3>2 DEF CallCalm, CallDone
        <3> QED
            BY <2>1, <3>3 DEF CallCalm, Writing, CallDone
    <2>4. CASE n.step \notin UserSteps
        <3>1. CallCalm(n)'
            BY <2>4, AwayCalm
        <3> QED
            BY <2>1, <3>1 DEF CallCalm, Writing, CallDone
    <2> QED
        BY <2>3, <2>4
<1> QED
    BY <1>1, <1>2, AgreedKept DEF CallsCalm, CallCalm

LEMMA LookUpCalm ==
    ASSUME Typed, Next, Agreed, NEW c \in Calls, LookUpSession(c)
    PROVE  Agreed'
<1>1. /\ UNCHANGED db /\ mem'.directory = mem.directory
      /\ \A d \in Calls : UserKept(calls'[d], calls[d])
    BY LookUpUser
<1>2. CASE mem'.users = mem.users
    <2>1. Aside
        BY <1>1, <1>2 DEF Aside, UsersSame
    <2> QED
        BY <2>1, AsideCalm
<1>3. ASSUME NEW ck \in Cookie, ck = calls[c].cookie, ck # Null, mem.users[ck.wallet] = Null,
             mem'.users = [mem.users EXCEPT ![ck.wallet] = [id |-> ck.id, name |-> ck.name]]
      PROVE  Agreed'
    <2>1. ck.wallet \in Wallets /\ ck.id \in Ids /\ Bears(ck.wallet, ck.id)
        BY <1>3 DEF Cookie, Bears, CallBears, Has
    <2>2. db.accounts[ck.wallet] = ck.id /\ db.profiles[ck.id] # Null
        BY <2>1, NullApart DEF Agreed, BearersCalm, Typed, Rows
    <2>3. UsersCalm'
        BY <1>1, <1>3, <2>1, <2>2 DEF Agreed, UsersCalm, Typed, TypeOK, MemType
    <2>4. \A w \in Wallets : \A i : Uid(w, i) => Uid(w, i)'
        BY <1>3, <2>1 DEF Uid, Typed, TypeOK, MemType
    <2>5. AccountsStay
        BY <1>1 DEF AccountsStay
    <2>6. ASSUME NEW d \in Calls PROVE CallCalm(calls[d])'
        <3>1. PICK call, n : call = calls[d] /\ n = calls'[d]
            OBVIOUS
        <3>2. CallCalm(call) /\ UserKept(n, call)
            BY <1>1, <3>1 DEF Agreed, CallsCalm, CallCalm
        <3>3. CASE n.step \in UserSteps
            <4>0. n.who = call.who /\ n.user = call.user
                  /\ (n.step = call.step \/ (call.step = "naming" /\ n.step = "conflict"))
                BY <3>2, <3>3 DEF UserKept
            <4>1. call.step \in UserSteps /\ call.who \in Wallets
                BY <3>1, <3>3, <4>0, UserAt DEF UserSteps
            <4>2. Writing(n)'
                BY <1>1, <2>4, <3>2, <4>0, <4>1 DEF CallCalm, Writing
            <4>3. \A w \in Wallets, i \in Ids : CallDone(n, w, i) => db'.accounts[w] = i
                BY <1>1, <3>2, <4>0 DEF CallCalm, CallDone, ResolvedSteps
            <4>4. CallCalm(n)'
                BY <4>2, <4>3 DEF CallCalm, CallDone
            <4> QED
                BY <3>1, <4>4 DEF CallCalm, Writing, CallDone
        <3>4. CASE n.step \notin UserSteps
            <4>1. CallCalm(n)'
                BY <3>4, AwayCalm
            <4> QED
                BY <3>1, <4>1 DEF CallCalm, Writing, CallDone
        <3> QED
            BY <3>3, <3>4
    <2>7. CallsCalm'
        BY <2>6 DEF CallsCalm, CallCalm
    <2> QED
        BY <2>3, <2>5, <2>7, AgreedKept
<1> QED
    BY <1>2, <1>3, LookUpUser

LEMMA ReadAccountCalm ==
    ASSUME Typed, Next, Agreed, NEW c \in Calls, ReadAccount(c),
           \A w \in Wallets : mem.users[w] = Null /\ Unread(w) => db.accounts[w] = Null
    PROVE  Agreed'
<1>0. UNCHANGED db
    BY ReadAccountUser
<1>1. PICK n : /\ Move(c, n) /\ n.who = calls[c].who /\ n.who \in Wallets
               /\ \/ FoundUser(n) \/ KnewUser(n)
                  \/ \E k \in Ids \ issued : MadeUser(n, k)
    BY ReadAccountUser
<1>2. AccountsStay
    BY <1>0 DEF AccountsStay
<1>3. CASE FoundUser(n)
    <2>1. UsersCalm'
        BY <1>0, <1>3 DEF FoundUser, Agreed, UsersCalm
    <2>2. CallCalm(n)'
        BY <1>0, <1>3 DEF FoundUser, CallCalm, CallDone, Writing
    <2>3. \A w \in Wallets : \A i : Uid(w, i) => Uid(w, i)'
        BY <1>3 DEF FoundUser, Uid
    <2> QED
        BY <1>0, <1>1, <1>2, <2>1, <2>2, <2>3, MovedCalm, AgreedKept
<1>4. CASE KnewUser(n)
    <2>1. UsersCalm'
        BY <1>0, <1>4 DEF KnewUser, Agreed, UsersCalm
    <2>2. CallCalm(n)'
        BY <1>0, <1>1, <1>4 DEF KnewUser, CallCalm, CallDone, Writing, ResolvedSteps, Uid, Agreed, UsersCalm
    <2>3. \A w \in Wallets : \A i : Uid(w, i) => Uid(w, i)'
        BY <1>4 DEF KnewUser, Uid
    <2> QED
        BY <1>0, <1>1, <1>2, <2>1, <2>2, <2>3, MovedCalm, AgreedKept
<1>5. ASSUME NEW k \in Ids \ issued, MadeUser(n, k) PROVE Agreed'
    <2>1. PICK w \in Wallets : w = n.who
        BY <1>1
    <2>2. PICK u \in User : u = n.user /\ u.id = k /\ u.name = Null /\ u # Null
        BY <1>5, UserMade, Maybe, NullApart DEF MadeUser
    <2>3. mem.users[w] = Null /\ db.accounts[w] = Null /\ n.step = "putProfile"
        BY <1>5, <2>1 DEF MadeUser
    <2>4. mem'.users = [mem.users EXCEPT ![w] = u] /\ mem.users \in [Wallets -> Optional(User)]
        BY <1>5, <2>1, <2>2 DEF MadeUser, Typed, TypeOK, MemType
    <2>5. UsersCalm'
        BY <1>0, <2>2, <2>3, <2>4 DEF Agreed, UsersCalm
    <2>6. CallCalm(n)'
        BY <2>1, <2>2, <2>3, <2>4 DEF CallCalm, CallDone, Writing, ResolvedSteps, Uid
    <2>7. \A v \in Wallets : \A i : Uid(v, i) => Uid(v, i)'
        BY <2>3, <2>4 DEF Uid
    <2> QED
        BY <1>0, <1>1, <1>2, <2>5, <2>6, <2>7, MovedCalm, AgreedKept
<1> QED
    BY <1>1, <1>3, <1>4, <1>5

LEMMA ReadProfileCalm ==
    ASSUME Typed, Next, Agreed, NEW c \in Calls, ReadProfile(c)
    PROVE  Agreed'
<1>1. PICK user \in User : Rebuild(c, user) /\ user.id = calls[c].user.id
    BY ReadProfileUser
<1>2. UNCHANGED db /\ calls[c].step = "profile"
    BY ReadProfileUser
<1>3. PICK w \in Wallets : w = calls[c].who
    BY <1>2, UserAt DEF UserSteps
<1>4. user.id \in Ids /\ db.accounts[w] = user.id /\ db.accounts[w] # Null
    <2>1. user.id \in Ids /\ CallDone(calls[c], w, user.id)
        BY <1>1, <1>2, <1>3, UserAt DEF CallDone, UserSteps
    <2> QED
        BY <2>1, NullApart DEF Agreed, CallsCalm
<1>5. mem'.users = [mem.users EXCEPT ![w] = user] /\ user # Null
      /\ mem.users \in [Wallets -> Optional(User)]
    BY <1>1, <1>3, RebuildUsers, NullApart DEF Typed, TypeOK, MemType
<1>6. UsersCalm'
    BY <1>2, <1>4, <1>5 DEF Agreed, UsersCalm, Typed, Rows
<1>7. \A v \in Wallets : \A i : Uid(v, i) => Uid(v, i)'
    BY <1>4, <1>5 DEF Uid, Agreed, UsersCalm
<1>8. ASSUME NEW d \in Calls PROVE CallCalm(calls[d])'
    <2>1. PICK call, n : call = calls[d] /\ n = calls'[d] /\ call \in CallType
        BY DEF Typed, CallsOK
    <2>2. CallCalm(call)
        BY <2>1 DEF Agreed, CallsCalm, CallCalm
    <2>3. CASE d = c
        <3>1. n = Served(call, user)
            BY <1>1, <2>1, <2>3, RebuildCalls
        <3>2. n.who = w /\ n.user = user /\ n.step = call.after
            BY <1>3, <2>1, <2>3, <3>1 DEF Served, CallType
        <3>3. call.after \in Goals
            BY <2>1 DEF CallType
        <3>4. CallCalm(n)'
            BY <1>2, <1>4, <3>2, <3>3 DEF CallCalm, CallDone, Writing, Goals
        <3> QED
            BY <2>1, <3>4 DEF CallCalm, Writing, CallDone
    <2>4. CASE n = LetGo(call, mem.users[w]) /\ call.who = w /\ call.held
        <3>1. n.who = w /\ n.user = mem.users[w] /\ n.step = call.step
            BY <2>1, <2>4 DEF LetGo, CallType
        <3>2. mem.users[w] # Null
            BY <2>1, <2>4, CallAt DEF Typed, Backed
        <3>3. mem.users[w].id = user.id
            BY <1>4, <3>2 DEF Agreed, UsersCalm
        <3>4. call.step \in {"putProfile", "putAccount"} => call.user.id = user.id
            BY <2>2, <2>4, <3>3 DEF CallCalm, Writing, Uid
        <3>5. mem.users[w].name # Null => db.profiles[user.id] # Null
            BY <3>2, <3>3 DEF Agreed, UsersCalm
        <3>6. Uid(w, user.id)'
            BY <1>5 DEF Uid
        <3>7. Writing(n)'
            BY <1>2, <2>2, <3>1, <3>3, <3>4, <3>5, <3>6 DEF CallCalm, Writing
        <3>8. CallCalm(n)'
            BY <1>2, <1>4, <3>1, <3>3, <3>7 DEF CallCalm, CallDone
        <3> QED
            BY <2>1, <3>8 DEF CallCalm, Writing, CallDone
    <2>5. CASE n = call
        <3>1. call.step \in UserSteps => call.who \in Wallets
            BY <2>1, UserAt
        <3>2. Writing(n)'
            BY <1>2, <1>7, <2>2, <2>5, <3>1 DEF CallCalm, Writing, UserSteps
        <3>3. CallCalm(n)'
            BY <1>2, <2>2, <2>5, <3>2 DEF CallCalm, CallDone
        <3> QED
            BY <2>1, <3>3 DEF CallCalm, Writing, CallDone
    <2> QED
        BY <1>1, <1>3, <2>1, <2>3, <2>4, <2>5, RebuildCalls
<1>9. CallsCalm'
    BY <1>8 DEF CallsCalm, CallCalm
<1>10. AccountsStay
    BY <1>2 DEF AccountsStay
<1> QED
    BY <1>6, <1>9, <1>10, AgreedKept

LEMMA PutCalm ==
    ASSUME Typed, Next, Agreed, NEW c \in Calls, PutProfile(c) \/ PutAccount(c) \/ SaveName(c),
           "write" \notin past'.trouble
    PROVE  Agreed'
<1>1. PICK call : call = calls[c]
    OBVIOUS
<1>2. CallOK(call) /\ call \in CallType /\ call.step \in UserSteps /\ UNCHANGED mem
    BY <1>1, CallAt, PutsUser DEF Typed, UserSteps
<1>3. /\ call.who \in Wallets /\ call.user \in User /\ call.user.id \in Ids
      /\ call.user.name \in Optional(Names)
    BY <1>1, <1>2, UserAt
<1>4. CallCalm(call)
    BY <1>1 DEF Agreed, CallsCalm, CallCalm
<1>5. \A w \in Wallets : \A i : Uid(w, i) => Uid(w, i)'
    BY <1>2 DEF Uid
<1>6. TypeOK /\ Rows
    BY DEF Typed
<1>7. db.accounts \in [Wallets -> Optional(Ids)] /\ db.profiles \in [Ids -> Optional(Profile)]
    BY <1>6 DEF TypeOK, DbType
<1>8. \A w \in Wallets : mem.users[w] # Null => mem.users[w].id \in Ids
    BY <1>6 DEF TypeOK, MemType, Optional, User
<1>a. CASE PutProfile(c)
    <2>1. /\ call.step = "putProfile" /\ db'.accounts = db.accounts
          /\ db'.profiles = ProfilesWith(call.user.id, call.user.name)
          /\ Move(c, Stepped(call, "putAccount"))
        BY <1>1, <1>a, PutsUser
    <2>2. PICK n : n = Stepped(call, "putAccount")
        OBVIOUS
    <2>3. n.step = "putAccount" /\ n.who = call.who /\ n.user = call.user
        BY <1>2, <2>2 DEF Stepped, CallType
    <2>4. \A i \in Ids : db.profiles[i] # Null => db'.profiles[i] # Null
        BY <1>3, <1>6, <2>1, ProfilesKept
    <2>5. db'.profiles[call.user.id] # Null
        BY <1>3, <1>4, <1>6, <2>1, <2>4, ProfilesKept DEF CallCalm, Writing
    <2>6. Uid(call.who, call.user.id)'
        BY <1>3, <1>4, <1>5, <2>1 DEF CallCalm, Writing
    <2>7. CallCalm(n)'
        BY <2>3, <2>5, <2>6 DEF CallCalm, Writing, CallDone, ResolvedSteps
    <2>8. UsersCalm'
        BY <1>2, <1>8, <2>1, <2>4 DEF Agreed, UsersCalm
    <2>9. AccountsStay
        BY <2>1 DEF AccountsStay
    <2> QED
        BY <1>5, <2>1, <2>2, <2>4, <2>7, <2>8, <2>9, MovedCalm, AgreedKept
<1>b. CASE PutAccount(c)
    <2>1. /\ call.step = "putAccount" /\ db'.profiles = db.profiles
          /\ db'.accounts = AccountsWith(call)
          /\ Move(c, Stepped(call, call.after))
        BY <1>1, <1>b, PutsUser
    <2>2. PICK n : n = Stepped(call, call.after)
        OBVIOUS
    <2>3. n.step = call.after /\ n.who = call.who /\ n.user = call.user
        BY <1>2, <2>2 DEF Stepped, CallType
    <2>4. call.after \in {"opened", "restored", "signed", "naming"}
        BY <1>2, <2>1, GoalSteps DEF ResolveSteps
    <2>5. Uid(call.who, call.user.id) /\ db.profiles[call.user.id] # Null
        BY <1>4, <2>1 DEF CallCalm, Writing
    <2>6. db'.accounts = [db.accounts EXCEPT ![call.who] = call.user.id]
        BY <2>1, <2>5 DEF AccountsWith
    <2>7. AccountsStay
        BY <1>3, <1>7, <2>5, <2>6 DEF AccountsStay, Agreed, UsersCalm, Uid
    <2>8. CallCalm(n)'
        BY <1>3, <1>7, <2>3, <2>4, <2>6 DEF CallCalm, Writing, CallDone
    <2>9. UsersCalm'
        BY <1>2, <1>3, <1>7, <2>1, <2>5, <2>6 DEF Agreed, UsersCalm, Uid
    <2> QED
        BY <1>5, <2>1, <2>2, <2>7, <2>8, <2>9, MovedCalm, AgreedKept
<1>c. CASE SaveName(c)
    <2>1. /\ call.step = "saveName" /\ db'.accounts = db.accounts
          /\ db'.profiles \in {db.profiles, ProfilesWith(call.user.id, call.want)}
          /\ Move(c, Answered(call, "ok"))
        BY <1>1, <1>c, PutsUser
    <2>2. call.want \in Optional(Names)
        BY <1>2 DEF CallType
    <2>3. \A i \in Ids : db.profiles[i] # Null => db'.profiles[i] # Null
        BY <1>3, <1>6, <2>1, <2>2, ProfilesKept
    <2>4. CallCalm(Answered(call, "ok"))'
        BY AnsweredAway, AwayCalm DEF UserSteps
    <2>5. UsersCalm'
        BY <1>2, <1>8, <2>1, <2>3 DEF Agreed, UsersCalm
    <2>6. AccountsStay
        BY <2>1 DEF AccountsStay
    <2> QED
        BY <1>5, <2>1, <2>3, <2>4, <2>5, <2>6, MovedCalm, AgreedKept
<1> QED
    BY <1>a, <1>b, <1>c

LEMMA ClaimsCalm ==
    ASSUME Typed, Next, Agreed, NEW c \in Calls, NEW user, Claims(c, user)
    PROVE  Agreed'
<1>1. PICK call : call = calls[c]
    OBVIOUS
<1>2. call \in CallType /\ call.step = "conflict" /\ UNCHANGED db
    BY <1>1, CallAt DEF Typed, Claims
<1>3. PICK old \in User : old = Object(call)
    BY <1>1, <1>2, ObjectTyped DEF ResolvedSteps
<1>4. call.who \in Wallets /\ old.id \in Ids /\ mem.users[call.who] # Null
    BY <1>1, <1>2, <1>3, ObjectTyped DEF ResolvedSteps
<1>5. db.accounts[call.who] = old.id
    <2>1. Sourced(call.who, old.id)
        BY <1>1, <1>2, <1>3 DEF Sourced, Resolved, ResolvedSteps
    <2> QED
        BY <1>4, <2>1, SourcedAccount
<1>6. user.id = old.id /\ user # Null
    <2>1. call.want \in Optional(Names)
        BY <1>2 DEF CallType
    <2>2. user \in User /\ user.id = old.id
        BY <1>1, <1>3, <2>1 DEF Claims, User, Optional
    <2> QED
        BY <2>2, NullApart
<1>7. mem'.users = IF call.held THEN [mem.users EXCEPT ![call.who] = user] ELSE mem.users
    BY <1>1 DEF Claims
<1>8. mem.users \in [Wallets -> Optional(User)] /\ old.id # Null
    BY <1>4, NullApart DEF Typed, TypeOK, MemType
<1>9. UsersCalm'
    BY <1>2, <1>4, <1>5, <1>6, <1>7, <1>8 DEF Agreed, UsersCalm, Typed, Rows
<1>10. \A v \in Wallets : \A i : Uid(v, i) => Uid(v, i)'
    BY <1>4, <1>5, <1>6, <1>7, <1>8 DEF Uid, Agreed, UsersCalm
<1>11. PICK n : Move(c, n) /\ n = NamedUser(call, user)
    BY <1>1 DEF Claims
<1>12. n.who = call.who /\ n.user = user /\ n.step = "saveName"
    BY <1>2, <1>11 DEF NamedUser, CallType
<1>13. CallCalm(n)'
    BY <1>2, <1>5, <1>6, <1>12 DEF CallCalm, CallDone, Writing
<1>14. AccountsStay
    BY <1>2 DEF AccountsStay
<1> QED
    BY <1>2, <1>9, <1>10, <1>11, <1>13, <1>14, MovedCalm, AgreedKept

LEMMA RestartCalls ==
    ASSUME Typed, Restart, NEW c \in Calls
    PROVE  calls'[c].step \notin UserSteps
<1>1. PICK call : call = calls[c]
    OBVIOUS
<1>2. CallOK(call)
    BY <1>1, CallAt DEF Typed
<1>3. CASE call.step \in ServerSteps
    <2>1. calls'[c] = Answered(Keeping(call), "lost")
        BY <1>1, <1>3 DEF Restart, Keeping
    <2> QED
        BY <2>1, AnsweredAway DEF UserSteps
<1>4. CASE call.step \notin ServerSteps
    <2>1. calls'[c] = call
        BY <1>1, <1>4 DEF Restart
    <2>2. call.step \notin UserSteps
        BY <1>4 DEF ServerSteps, UserSteps
    <2> QED
        BY <2>1, <2>2
<1> QED
    BY <1>3, <1>4

LEMMA RestartCalm ==
    ASSUME Typed, Next, Agreed, Restart, "write" \notin past'.trouble
    PROVE  Agreed'
<1>1. UNCHANGED db
    BY DEF Restart, Typed, Rows, PastType
<1>2. AccountsStay
    BY <1>1 DEF AccountsStay
<1>3. UsersCalm'
    BY EmptyTyped DEF Restart, EmptyProcess, UsersCalm
<1>4. CallsCalm'
    <2>1. ASSUME NEW c \in Calls PROVE CallCalm(calls[c])'
        <3>1. PICK n : n = calls'[c] /\ n.step \notin UserSteps
            BY RestartCalls
        <3>2. CallCalm(n)'
            BY <3>1, AwayCalm
        <3> QED
            BY <3>1, <3>2 DEF CallCalm, Writing, CallDone
    <2> QED
        BY <2>1 DEF CallsCalm, CallCalm
<1> QED
    BY <1>2, <1>3, <1>4, AgreedKept

LEMMA NextCalm ==
    ASSUME Typed, OneIdInv, CalmInv, Next
    PROVE  CalmInv'
<1> SUFFICES ASSUME Calm' PROVE Agreed'
    BY DEF CalmInv
<1>1. Grown /\ "write" \notin past'.trouble
    BY NextGrown DEF Calm
<1>2. Agreed
    BY <1>1 DEF Grown, Calm, CalmInv
<1>3. \A w \in Wallets : mem.users[w] = Null /\ Unread(w) => db.accounts[w] = Null
    <2> SUFFICES ASSUME NEW w \in Wallets, mem.users[w] = Null, Unread(w), db.accounts[w] # Null
                 PROVE FALSE
        OBVIOUS
    <2>1. "restart" \notin past.trouble
        BY <1>1 DEF Unread, Calm, Grown
    <2>2. db.accounts[w] \in Ids
        BY DEF Typed, TypeOK, DbType, Optional
    <2> QED
        BY <2>1, <2>2 DEF OneIdInv, OneId, Linked, Uid
<1> QED
    BY <1>1, <1>2, <1>3, UserCases, AsideCalm, RestartCalm, ReadAccountCalm, ReadProfileCalm,
       LookUpCalm, PutCalm, ClaimsCalm

LEMMA AlwaysCalm == Spec => []CalmInv
<1>1. Init => CalmInv
    <2> SUFFICES ASSUME Init PROVE Agreed
        BY DEF CalmInv
    <2>1. ASSUME NEW c \in Calls PROVE CallCalm(calls[c])
        BY InitBlank, AwayCalm DEF UserSteps
    <2> QED
        BY <2>1, InitBlank DEF Agreed, CallsCalm, CallCalm, UsersCalm, BearersCalm
<1>2. Typed /\ OneIdInv /\ CalmInv /\ [Next]_vars => CalmInv'
    <2>1. ASSUME UNCHANGED vars, CalmInv PROVE CalmInv'
        BY <2>1 DEF vars, CalmInv, Calm, Agreed, CallsCalm, UsersCalm, BearersCalm, Writing, CallDone,
           Uid, Bears, CallBears, Has
    <2> QED
        BY <2>1, NextCalm
<1> QED
    BY <1>1, <1>2, AlwaysTyped, AlwaysOneId, PTL DEF Spec

(* SessionNamesProfile: as long as writes arrive and no restart meets a    *)
(* failed read, whatever session a process keeps for a wallet names the    *)
(* profile the process knows for it, and the one of its account.           *)
THEOREM SessionsNameProfile == Spec => []SessionNamesProfile
<1>1. Typed /\ CalmInv => SessionNamesProfile
    <2> SUFFICES ASSUME Typed, Calm, Agreed, NEW t \in Tokens, mem.sessions[t] # Null
                 PROVE  /\ mem.users[mem.sessions[t].wallet] # Null
                        /\ mem.users[mem.sessions[t].wallet].id = mem.sessions[t].id
                        /\ db.accounts[mem.sessions[t].wallet] = mem.sessions[t].id
        BY DEF CalmInv, Calm, SessionNamesProfile
    <2>1. PICK s \in Session : s = mem.sessions[t]
        BY DEF Typed, TypeOK, MemType, Optional
    <2>2. s.wallet \in Wallets /\ s.id \in Ids /\ s.id # Null
        BY NullApart DEF Session
    <2>3. Bears(s.wallet, s.id) /\ mem.users[s.wallet] # Null
        BY <2>1 DEF Bears, Has, Typed, Rows
    <2>4. db.accounts[s.wallet] = s.id
        BY <2>2, <2>3 DEF Agreed, BearersCalm
    <2> QED
        BY <2>1, <2>2, <2>3, <2>4 DEF Agreed, UsersCalm
<1> QED
    BY <1>1, AlwaysTyped, AlwaysCalm, PTL

(* An account changes by the write of a request that resolved its wallet.  *)
LEMMA AccountChange ==
    ASSUME Typed, Next, NEW w \in Wallets, db'.accounts[w] # db.accounts[w]
    PROVE  \E c \in Calls : /\ calls[c].step = "putAccount" /\ calls[c].who = w
                            /\ db'.accounts[w] = calls[c].user.id
<1>0. db \in DbType /\ db.accounts \in [Wallets -> Optional(Ids)]
    BY DEF Typed, TypeOK, DbType
<1>1. ASSUME NEW c \in Calls, calls[c].step = "putAccount", db'.accounts = AccountsWith(calls[c])
      PROVE  calls[c].who = w /\ db'.accounts[w] = calls[c].user.id
    BY <1>0, <1>1 DEF AccountsWith
<1>2. ASSUME Restart PROVE \E c \in Calls : /\ calls[c].step = "putAccount"
                                            /\ db'.accounts = AccountsWith(calls[c])
    <2>1. \A p : [db EXCEPT !.profiles = p].accounts = db.accounts
        BY <1>0 DEF DbType
    <2>2. \A a : [db EXCEPT !.accounts = a].accounts = a
        BY <1>0 DEF DbType
    <2> QED
        BY <1>2, <2>1, <2>2 DEF Restart
<1> QED
    BY <1>1, <1>2, UserCases, PutsUser, ReadAccountUser, ReadProfileUser, LookUpUser
       DEF Aside, UsersSame, Claims

(* AccountKeepsProfile: the account of a wallet never changes its profile, *)
(* unless a restart came before and, besides it, a write or a read failed. *)
THEOREM AccountKept == Spec => AccountKeepsProfile
<1> DEFINE Kept == \A w \in Wallets :
        db.accounts[w] # Null /\ db'.accounts[w] # db.accounts[w]
            => "restart" \in past.trouble /\ past.trouble \cap {"read", "write"} # {}
<1>1. Typed /\ OneIdInv /\ CalmInv /\ [Next]_vars => [Kept]_vars
    <2> SUFFICES ASSUME Typed, OneIdInv, CalmInv, Next, NEW w \in Wallets,
                        db.accounts[w] # Null, db'.accounts[w] # db.accounts[w]
                 PROVE  "restart" \in past.trouble /\ past.trouble \cap {"read", "write"} # {}
        OBVIOUS
    <2>1. PICK c \in Calls : /\ calls[c].step = "putAccount" /\ calls[c].who = w
                             /\ db'.accounts[w] = calls[c].user.id
        BY AccountChange
    <2>2. PICK i \in Ids : i = calls[c].user.id
        BY <2>1, UserAt DEF UserSteps
    <2>3. PICK j \in Ids : j = db.accounts[w]
        BY DEF Typed, TypeOK, DbType, Optional
    <2>4. "restart" \in past.trouble
        <3>1. CallUser(calls[c], w, i)
            BY <2>1, <2>2 DEF CallUser, UserSteps
        <3>2. ASSUME OneId PROVE FALSE
            <4>1. Uid(w, i) /\ Uid(w, j)
                BY <2>3, <3>1, <3>2 DEF OneId, Linked
            <4> QED
                BY <2>1, <2>2, <2>3, <4>1 DEF Uid
        <3> QED
            BY <3>2 DEF OneIdInv
    <2>5. ~Calm
        <3>1. ASSUME Agreed PROVE FALSE
            <4>1. Uid(w, i)
                BY <2>1, <2>2, <3>1 DEF Agreed, CallsCalm, Writing
            <4>2. mem.users[w].id = j
                BY <2>3, <3>1, <4>1 DEF Agreed, UsersCalm, Uid
            <4> QED
                BY <2>1, <2>2, <2>3, <4>1, <4>2 DEF Uid
        <3> QED
            BY <3>1 DEF CalmInv
    <2> QED
        BY <2>4, <2>5 DEF Calm
<1> QED
    BY <1>1, AlwaysTyped, AlwaysOneId, AlwaysCalm, PTL DEF Spec, AccountKeepsProfile

-----------------------------------------------------------------------------
(* As long as no claims overlap, no process restarts and no name is given  *)
(* up, the directory tells whose every name is: the users', the ones that  *)
(* requests hold, and the ones in the database.                            *)
Orderly == past.trouble \cap {"overlap", "restart", "released"} = {}
CallNamed(call) ==
    /\ call.step \in UserSteps /\ call.user.name # Null
         => mem.directory[call.user.name] = call.who
    /\ call.step = "saveName" => mem.directory[call.want] = call.who
    /\ call.step = "conflict" => mem.directory[call.want] \in {Null, call.who}
CallsNamed == \A c \in Calls : CallNamed(calls[c])
UsersNamed ==
    \A w \in Wallets : mem.users[w] # Null /\ mem.users[w].name # Null
                         => mem.directory[mem.users[w].name] = w
RowsNamed ==
    \A i \in Ids : db.profiles[i] # Null /\ db.profiles[i].name # Null
        => \E w \in Wallets : Uid(w, i) /\ mem.directory[db.profiles[i].name] = w
Directed == CallsNamed /\ UsersNamed /\ RowsNamed
NamesInv == Orderly => Directed

(* A call names what it named while the directory stays.                   *)
LEMMA StillNamed ==
    ASSUME NEW n, CallNamed(n), mem'.directory = mem.directory
    PROVE  CallNamed(n)'
    BY DEF CallNamed

LEMMA AwayNamed ==
    ASSUME NEW n, n.step \notin UserSteps
    PROVE  CallNamed(n)'
    BY DEF CallNamed, UserSteps

LEMMA MovedNamed ==
    ASSUME Typed, Directed, mem'.directory = mem.directory, NEW c \in Calls, NEW n, Move(c, n),
           CallNamed(n)'
    PROVE  CallsNamed'
<1>1. \A d \in Calls : calls'[d] = IF d = c THEN n ELSE calls[d]
    BY DEF Typed, CallsOK, Move
<1>2. ASSUME NEW d \in Calls PROVE CallNamed(calls[d])'
    <2>1. PICK call, x : call = calls[d] /\ x = calls'[d]
        OBVIOUS
    <2>2. CallNamed(call)'
        BY <2>1, StillNamed DEF Directed, CallsNamed
    <2>3. CallNamed(x)'
        BY <1>1, <2>1, <2>2
    <2> QED
        BY <2>1, <2>3 DEF CallNamed
<1> QED
    BY <1>2 DEF CallsNamed

LEMMA AsideNamed ==
    ASSUME Typed, Directed, Aside
    PROVE  Directed'
<1>1. UsersNamed' /\ RowsNamed'
    BY DEF Aside, UsersSame, Directed, UsersNamed, RowsNamed, Uid
<1>2. ASSUME NEW d \in Calls PROVE CallNamed(calls[d])'
    <2>1. PICK call, n : call = calls[d] /\ n = calls'[d]
        OBVIOUS
    <2>2. CallNamed(call) /\ UserKept(n, call) /\ mem'.directory = mem.directory
        BY <2>1 DEF Directed, CallsNamed, Aside, UsersSame
    <2>3. CASE n.step \in UserSteps
        <3>1. CallNamed(n)
            BY <2>2, <2>3 DEF UserKept, CallNamed, UserSteps, TakenElsewhere
        <3>2. CallNamed(n)'
            BY <2>2, <3>1, StillNamed
        <3> QED
            BY <2>1, <3>2 DEF CallNamed
    <2>4. CASE n.step \notin UserSteps
        <3>1. CallNamed(n)'
            BY <2>4, AwayNamed
        <3> QED
            BY <2>1, <3>1 DEF CallNamed
    <2> QED
        BY <2>3, <2>4
<1> QED
    BY <1>1, <1>2 DEF Directed, CallsNamed

(* The row of a profile that is a wallet's has a name of that wallet.      *)
LEMMA RowNamed ==
    ASSUME Typed, OneId, Directed, NEW w \in Wallets, NEW i \in Ids, Uid(w, i),
           db.profiles[i] # Null, db.profiles[i].name # Null
    PROVE  mem.directory[db.profiles[i].name] = w
    BY DEF OneId, Ones, Directed, RowsNamed

LEMMA ReadAccountNamed ==
    ASSUME Typed, OneId, Directed, NEW c \in Calls, ReadAccount(c)
    PROVE  Directed'
<1>0. UNCHANGED db
    BY ReadAccountUser
<1>1. PICK n : /\ Move(c, n) /\ n.who = calls[c].who /\ n.who \in Wallets
               /\ \/ FoundUser(n) \/ KnewUser(n)
                  \/ \E k \in Ids \ issued : MadeUser(n, k)
    BY ReadAccountUser
<1>2. mem'.directory = mem.directory
    BY <1>1 DEF FoundUser, KnewUser, MadeUser
<1>3. CASE FoundUser(n)
    <2>1. PICK i \in Ids : i = db.accounts[n.who]
        BY <1>1, <1>3 DEF FoundUser, Typed, TypeOK, DbType, Optional
    <2>2. Uid(n.who, i) /\ db.profiles[i] # Null
        BY <1>1, <1>3, <2>1 DEF FoundUser, OneId, Linked, Typed, Rows
    <2>3. n.step = "profile" /\ n.user.name = db.profiles[i].name
        BY <1>3, <2>1 DEF FoundUser
    <2>4. CallNamed(n)
        BY <1>1, <2>2, <2>3, RowNamed DEF CallNamed
    <2>5. UsersNamed' /\ RowsNamed'
        BY <1>0, <1>3 DEF FoundUser, Directed, UsersNamed, RowsNamed, Uid
    <2> QED
        BY <1>1, <1>2, <2>4, <2>5, StillNamed, MovedNamed DEF Directed
<1>4. CASE KnewUser(n)
    <2>1. CallNamed(n)
        BY <1>1, <1>4 DEF KnewUser, CallNamed, Directed, UsersNamed
    <2>2. UsersNamed' /\ RowsNamed'
        BY <1>0, <1>4 DEF KnewUser, Directed, UsersNamed, RowsNamed, Uid
    <2> QED
        BY <1>1, <1>2, <2>1, <2>2, StillNamed, MovedNamed DEF Directed
<1>5. ASSUME NEW k \in Ids \ issued, MadeUser(n, k) PROVE Directed'
    <2>1. PICK w \in Wallets : w = n.who
        BY <1>1
    <2>2. n.user.name = Null /\ n.step = "putProfile" /\ mem.users[w] = Null
        BY <1>5, <2>1 DEF MadeUser
    <2>3. mem'.users = [mem.users EXCEPT ![w] = n.user] /\ mem.users \in [Wallets -> Optional(User)]
        BY <1>5, <2>1 DEF MadeUser, Typed, TypeOK, MemType
    <2>4. UsersNamed'
        BY <1>2, <2>2, <2>3 DEF Directed, UsersNamed
    <2>5. \A v \in Wallets, i \in Ids : Uid(v, i) => Uid(v, i)'
        BY <2>2, <2>3 DEF Uid
    <2>6. RowsNamed'
        BY <1>0, <1>2, <2>5 DEF Directed, RowsNamed
    <2>7. CallNamed(n)
        BY <2>2 DEF CallNamed
    <2> QED
        BY <1>1, <1>2, <2>4, <2>6, <2>7, StillNamed, MovedNamed DEF Directed
<1> QED
    BY <1>1, <1>3, <1>4, <1>5

LEMMA ReadProfileNamed ==
    ASSUME Typed, OneId, Directed, NEW c \in Calls, ReadProfile(c)
    PROVE  Directed'
<1>1. PICK user \in User : /\ Rebuild(c, user) /\ user.id = calls[c].user.id
                           /\ Recalled(user, calls[c])
    BY ReadProfileUser
<1>2. UNCHANGED db /\ calls[c].step = "profile"
    BY ReadProfileUser
<1>3. PICK w \in Wallets : w = calls[c].who
    BY <1>2, UserAt DEF UserSteps
<1>4. Uid(w, user.id) /\ user.id \in Ids
    <2>1. CallUser(calls[c], w, user.id) /\ user.id \in Ids
        BY <1>1, <1>2, <1>3, UserAt DEF CallUser, UserSteps
    <2> QED
        BY <2>1 DEF OneId, Linked
<1>5. /\ mem'.users = [mem.users EXCEPT ![w] = user] /\ user # Null
      /\ mem.users \in [Wallets -> Optional(User)]
      /\ mem.directory \in [Names -> Optional(Wallets)]
    BY <1>1, <1>3, RebuildUsers, NullApart DEF Typed, TypeOK, MemType
<1>6. user.name # Null => mem.directory[user.name] = w
    <2>1. db.profiles[user.id] # Null
        BY <1>1, <1>2, CallAt DEF Typed, Backed
    <2>2. calls[c].user.name # Null => mem.directory[calls[c].user.name] = w
        BY <1>2, <1>3 DEF Directed, CallsNamed, CallNamed, UserSteps
    <2>3. mem.users[w] # Null /\ mem.users[w].name # Null => mem.directory[mem.users[w].name] = w
        BY DEF Directed, UsersNamed
    <2> QED
        BY <1>1, <1>3, <1>4, <2>1, <2>2, <2>3, RowNamed DEF Recalled
<1>7. mem'.directory = mem.directory
    <2>1. mem'.directory = [n \in Names |-> IF n = user.name THEN w ELSE mem.directory[n]]
        BY <1>1, <1>3, RebuildDirectory DEF Typed
    <2>2. \A n \in Names : n # Null
        BY NullApart
    <2> QED
        BY <1>5, <1>6, <2>1, <2>2
<1>8. UsersNamed'
    BY <1>5, <1>6, <1>7 DEF Directed, UsersNamed
<1>9. \A v \in Wallets, i \in Ids : Uid(v, i) => Uid(v, i)'
    BY <1>4, <1>5 DEF Uid
<1>10. RowsNamed'
    BY <1>2, <1>7, <1>9 DEF Directed, RowsNamed
<1>11. ASSUME NEW d \in Calls PROVE CallNamed(calls[d])'
    <2>1. PICK call, n : call = calls[d] /\ n = calls'[d] /\ call \in CallType
        BY DEF Typed, CallsOK
    <2>2. CallNamed(call)
        BY <2>1 DEF Directed, CallsNamed
    <2>3. ASSUME d = c PROVE CallNamed(n)
        <3>1. n = Served(call, user)
            BY <1>1, <2>1, <2>3, RebuildCalls
        <3>2. n.who = w /\ n.user = user /\ n.step = call.after /\ call.after \in Goals
            BY <1>3, <2>1, <2>3, <3>1 DEF Served, CallType
        <3> QED
            BY <1>6, <3>2 DEF CallNamed, Goals
    <2>4. ASSUME n = LetGo(call, mem.users[w]) /\ call.who = w /\ call.held PROVE CallNamed(n)
        <3>1. n.who = w /\ n.user = mem.users[w] /\ n.step = call.step /\ n.want = call.want
            BY <2>1, <2>4 DEF LetGo, CallType
        <3>2. mem.users[w] # Null
            BY <1>4 DEF Uid
        <3> QED
            BY <2>2, <2>4, <3>1, <3>2 DEF CallNamed, Directed, UsersNamed
    <2>5. CallNamed(n)
        BY <1>1, <1>3, <2>1, <2>2, <2>3, <2>4, RebuildCalls
    <2>6. CallNamed(n)'
        BY <1>7, <2>5, StillNamed
    <2> QED
        BY <2>1, <2>6 DEF CallNamed
<1> QED
    BY <1>8, <1>10, <1>11 DEF Directed, CallsNamed

LEMMA ProfileWritten ==
    ASSUME Typed, OneId, Directed, NEW w \in Wallets, NEW i \in Ids, Uid(w, i), UNCHANGED mem,
           NEW name \in Optional(Names), name # Null => mem.directory[name] = w,
           db'.profiles \in {db.profiles, ProfilesWith(i, name)}
    PROVE  RowsNamed'
<1>1. db.profiles \in [Ids -> Optional(Profile)]
    BY DEF Typed, TypeOK, DbType
<1>2. \/ db'.profiles = db.profiles
      \/ db'.profiles = [db.profiles EXCEPT ![i] = [name |-> name]]
    BY DEF ProfilesWith
<1>3. ASSUME NEW j \in Ids
      PROVE  db'.profiles[j] = db.profiles[j] \/ (j = i /\ db'.profiles[j].name = name)
    BY <1>1, <1>2
<1>4. ASSUME NEW j \in Ids, db'.profiles[j] # Null, db'.profiles[j].name # Null
      PROVE  \E v \in Wallets : Uid(v, j)' /\ mem'.directory[db'.profiles[j].name] = v
    <2>1. CASE db'.profiles[j] = db.profiles[j]
        BY <1>4, <2>1 DEF Directed, RowsNamed, Uid
    <2>2. CASE j = i /\ db'.profiles[j].name = name
        BY <1>4, <2>2 DEF Uid
    <2> QED
        BY <1>3, <2>1, <2>2
<1> QED
    BY <1>4 DEF RowsNamed

LEMMA PutNamed ==
    ASSUME Typed, OneId, Directed, NEW c \in Calls, PutProfile(c) \/ PutAccount(c) \/ SaveName(c)
    PROVE  Directed'
<1>1. PICK call : call = calls[c]
    OBVIOUS
<1>2. CallOK(call) /\ call \in CallType /\ call.step \in UserSteps /\ UNCHANGED mem
    BY <1>1, CallAt, PutsUser DEF Typed, UserSteps
<1>3. /\ call.who \in Wallets /\ call.user.id \in Ids
      /\ call.user.name \in Optional(Names)
    BY <1>1, <1>2, UserAt
<1>4. CallNamed(call)
    BY <1>1 DEF Directed, CallsNamed
<1>5. Uid(call.who, call.user.id)
    BY <1>1, <1>2, <1>3 DEF OneId, Linked, CallUser
<1>6. UsersNamed'
    BY <1>2 DEF Directed, UsersNamed
<1>7. RowsNamed'
    <2>1. CASE PutProfile(c)
        <3>1. db'.profiles \in {db.profiles, ProfilesWith(call.user.id, call.user.name)}
            BY <1>1, <2>1, PutsUser
        <3> QED
            BY <1>2, <1>3, <1>4, <1>5, <3>1, ProfileWritten DEF CallNamed
    <2>2. CASE PutAccount(c)
        <3>1. db'.profiles = db.profiles
            BY <2>2, PutsUser
        <3> QED
            BY <1>2, <3>1 DEF Directed, RowsNamed, Uid
    <2>3. CASE SaveName(c)
        <3>1. /\ db'.profiles \in {db.profiles, ProfilesWith(call.user.id, call.want)}
              /\ call.step = "saveName"
            BY <1>1, <2>3, PutsUser
        <3>2. call.want \in Optional(Names)
            BY <1>2 DEF CallType
        <3> QED
            BY <1>2, <1>3, <1>4, <1>5, <3>1, <3>2, ProfileWritten DEF CallNamed
    <2> QED
        BY <2>1, <2>2, <2>3
<1>8. CallsNamed'
    <2>1. PICK n : /\ Move(c, n)
                   /\ \/ n = Answered(call, "ok") \/ n = Stepped(call, "putAccount")
                      \/ call.step = "putAccount" /\ n = Stepped(call, call.after)
        BY <1>1, PutsUser
    <2>2. CASE n = Answered(call, "ok")
        <3>1. CallNamed(n)'
            BY <2>2, AnsweredAway, AwayNamed DEF UserSteps
        <3> QED
            BY <1>2, <2>1, <3>1, MovedNamed
    <2>3. CASE n # Answered(call, "ok")
        <3>1. /\ n.who = call.who /\ n.user = call.user
              /\ n.step = "putAccount" \/ n.step = call.after
            BY <1>2, <2>1, <2>3 DEF Stepped, CallType
        <3>2. call.after \in Goals
            BY <1>2 DEF CallType
        <3>3. CallNamed(n)
            BY <1>2, <1>4, <3>1, <3>2 DEF CallNamed, Goals, UserSteps
        <3> QED
            BY <1>2, <2>1, <3>3, StillNamed, MovedNamed
    <2> QED
        BY <2>2, <2>3
<1> QED
    BY <1>6, <1>7, <1>8 DEF Directed

LEMMA ClaimsNamed ==
    ASSUME Typed, OneId, Directed, NEW c \in Calls, NEW user, Claims(c, user), Orderly'
    PROVE  Directed'
<1>1. PICK call : call = calls[c]
    OBVIOUS
<1>2. CallOK(call) /\ call \in CallType /\ call.step = "conflict" /\ UNCHANGED db
    BY <1>1, CallAt DEF Typed, Claims
<1>3. PICK old \in User : old = Object(call)
    BY <1>1, <1>2, ObjectTyped DEF ResolvedSteps
<1>4. call.who \in Wallets /\ old.id \in Ids /\ mem.users[call.who] # Null
    BY <1>1, <1>2, <1>3, ObjectTyped DEF ResolvedSteps
<1>5. Uid(call.who, old.id)
    <2>1. Sourced(call.who, old.id)
        BY <1>1, <1>2, <1>3 DEF Sourced, Resolved, ResolvedSteps
    <2> QED
        BY <1>4, <2>1, SourcedUid
<1>6. call.want \in Names /\ call.want # Null
    BY <1>2, NullApart DEF CallOK, Stage, Doing, ResolveSteps
<1>7. user \in User /\ user.id = old.id /\ user.name = call.want /\ user # Null
    <2>1. user \in User /\ user.id = old.id /\ user.name = call.want
        BY <1>1, <1>3, <1>6 DEF Claims, User
    <2> QED
        BY <2>1, NullApart
<1>8. Rivals(c) = {} /\ old.name \in {Null, call.want}
    <2>1. Disturbed(c, old) \cap {"overlap", "restart", "released"} = {}
        BY <1>1, <1>3 DEF Claims, Orderly
    <2> QED
        BY <1>1, <2>1 DEF Disturbed
<1>9. \A n \in Names : mem'.directory[n] = IF n = call.want THEN call.who ELSE mem.directory[n]
    <2>1. \A n \in Names : n # Null
        BY NullApart
    <2>2. mem'.directory = [n \in Names |-> IF n = call.want THEN call.who
                              ELSE IF n = old.name THEN Null ELSE mem.directory[n]]
        BY <1>1, <1>3 DEF Claims
    <2> QED
        BY <1>8, <2>1, <2>2
<1>10. mem.directory[call.want] \in {Null, call.who}
    BY <1>1, <1>2 DEF Directed, CallsNamed, CallNamed
<1>11. ASSUME NEW name \in Optional(Names), NEW w \in Wallets, name # Null, mem.directory[name] = w
       PROVE  mem'.directory[name] = w
    BY <1>9, <1>10, <1>11, NullApart DEF Optional
<1>12. mem'.users = IF call.held THEN [mem.users EXCEPT ![call.who] = user] ELSE mem.users
    BY <1>1 DEF Claims
<1>13. mem.users \in [Wallets -> Optional(User)]
       /\ \A w \in Wallets : mem.users[w] # Null => mem.users[w].name \in Optional(Names)
    BY DEF Typed, TypeOK, MemType, Optional, User
<1>14. UsersNamed'
    BY <1>4, <1>6, <1>7, <1>9, <1>11, <1>12, <1>13 DEF Directed, UsersNamed
<1>15. \A v \in Wallets, i \in Ids : Uid(v, i) => Uid(v, i)'
    BY <1>4, <1>5, <1>7, <1>12, <1>13 DEF Uid
<1>16. RowsNamed'
    <2>1. ASSUME NEW i \in Ids, db.profiles[i] # Null, db.profiles[i].name # Null
          PROVE  \E w \in Wallets : Uid(w, i)' /\ mem'.directory[db.profiles[i].name] = w
        <3>1. PICK w \in Wallets : Uid(w, i) /\ mem.directory[db.profiles[i].name] = w
            BY <2>1 DEF Directed, RowsNamed
        <3>2. db.profiles[i].name \in Optional(Names)
            BY <2>1 DEF Typed, TypeOK, DbType, Optional, Profile
        <3> QED
            BY <1>11, <1>15, <2>1, <3>1, <3>2
    <2> QED
        BY <1>2, <2>1 DEF RowsNamed
<1>17. PICK n : Move(c, n) /\ n = NamedUser(call, user)
    BY <1>1 DEF Claims
<1>18. n.who = call.who /\ n.user = user /\ n.step = "saveName" /\ n.want = call.want
    BY <1>2, <1>17 DEF NamedUser, CallType
<1>19. CallNamed(n)'
    BY <1>6, <1>7, <1>9, <1>18 DEF CallNamed
<1>20. ASSUME NEW d \in Calls PROVE CallNamed(calls[d])'
    <2>1. PICK other, x : other = calls[d] /\ x = calls'[d]
        OBVIOUS
    <2>2. x = IF d = c THEN n ELSE other
        BY <1>17, <2>1 DEF Typed, CallsOK, Move
    <2>3. CASE d # c /\ other.step \in UserSteps
        <3>1. other.who \in Wallets /\ other.user.name \in Optional(Names) /\ CallNamed(other)
            BY <2>1, <2>3, UserAt DEF Directed, CallsNamed
        <3>2. other.step \in {"conflict", "saveName"} => other.want \in Names
            BY <2>1, CallAt DEF Typed, CallOK, Stage, Doing, ResolveSteps
        <3>3. other.step = "conflict" /\ other.want = call.want => other.who = call.who
            BY <1>1, <1>8, <2>1, <2>3 DEF Rivals
        <3>4. other.user.name # Null => mem'.directory[other.user.name] = other.who
            BY <1>11, <2>3, <3>1 DEF CallNamed
        <3>5. other.step = "saveName" => mem'.directory[other.want] = other.who
            BY <1>11, <3>1, <3>2, Maybe, NullApart DEF CallNamed
        <3>6. other.step = "conflict" => mem'.directory[other.want] \in {Null, other.who}
            BY <1>9, <3>1, <3>2, <3>3 DEF CallNamed
        <3>7. CallNamed(other)'
            BY <3>4, <3>5, <3>6 DEF CallNamed
        <3> QED
            BY <2>1, <2>2, <2>3, <3>7 DEF CallNamed
    <2>4. CASE d # c /\ other.step \notin UserSteps
        <3>1. CallNamed(x)'
            BY <2>2, <2>4, AwayNamed
        <3> QED
            BY <2>1, <3>1 DEF CallNamed
    <2>5. CASE d = c
        <3>1. CallNamed(x)'
            BY <1>19, <2>2, <2>5
        <3> QED
            BY <2>1, <3>1 DEF CallNamed
    <2> QED
        BY <2>3, <2>4, <2>5
<1> QED
    BY <1>14, <1>16, <1>20 DEF Directed, CallsNamed

LEMMA NextNamed ==
    ASSUME Typed, OneIdInv, NamesInv, Next
    PROVE  NamesInv'
<1> SUFFICES ASSUME Orderly' PROVE Directed'
    BY DEF NamesInv
<1>1. Orderly /\ "restart" \notin past'.trouble
    BY NextGrown DEF Orderly, Grown
<1>2. Directed /\ OneId
    BY <1>1 DEF NamesInv, OneIdInv, Orderly
<1> QED
    BY <1>1, <1>2, UserCases, RestartTold, LookUpAside, AsideNamed, ReadAccountNamed,
       ReadProfileNamed, PutNamed, ClaimsNamed

LEMMA AlwaysNamed == Spec => []NamesInv
<1>1. Init => NamesInv
    BY InitBlank DEF NamesInv, Directed, CallsNamed, CallNamed, UsersNamed, RowsNamed, UserSteps
<1>2. Typed /\ OneIdInv /\ NamesInv /\ [Next]_vars => NamesInv'
    <2>1. ASSUME UNCHANGED vars, NamesInv PROVE NamesInv'
        BY <2>1 DEF vars, NamesInv, Orderly, Directed, CallsNamed, CallNamed, UsersNamed, RowsNamed, Uid
    <2> QED
        BY <2>1, NextNamed
<1> QED
    BY <1>1, <1>2, AlwaysTyped, AlwaysOneId, PTL DEF Spec

(* NamesDiffer: without overlapping claims, a restart, or a name given up, *)
(* two wallets of a process never have the same name, whatever reads fail  *)
(* and whatever writes are lost.                                           *)
THEOREM NamesStayApart == Spec => []NamesDiffer
<1>1. NamesInv => NamesDiffer
    BY DEF NamesInv, Orderly, Directed, UsersNamed, NamesDiffer
<1> QED
    BY <1>1, AlwaysNamed, PTL
=============================================================================
