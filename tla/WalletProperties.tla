-------------------------- MODULE WalletProperties --------------------------
(* What wallet sessions promise, and under which circumstances.            *)
EXTENDS WalletBrowser

(* The shapes of the parts of the state.                                   *)
Optional(S) == S \cup {Null}
MemType == [users : [Wallets -> Optional(User)], sessions : [Tokens -> Optional(Session)],
            directory : [Names -> Optional(Wallets)], nonces : [Nonces -> Optional(NonceRow)]]
DbType == [accounts : [Wallets -> Optional(Ids)], profiles : [Ids -> Optional(Profile)],
           sessions : [Tokens -> Optional(Session)], nonces : [Nonces -> Optional(Wallets)]]
PageType == [connected : Optional(Wallets), prev : Optional(Wallets),
             shown : BOOLEAN, cached : Optional(Wallets)]
(* The Maps, the tables, the cookie and the page keep their shape, through *)
(* lost writes, failed reads and restarts.                                 *)
TypeOK ==
    mem \in MemType /\ db \in DbType /\ jar \in Optional(Cookie) /\ page \in PageType

(* A challenge is good for one session: the nonce is checked and marked in *)
(* one step, and only a process that did not issue it may be asked twice.  *)
NonceOpensOneSession ==
    \A n \in Nonces : past.opened[n] > 1 => "restart" \in past.trouble

(* A wallet keeps its profile for good.  A failed read alone does not make *)
(* a second one, nor does a restart alone; a restart while a write is under *)
(* way, or followed by a failed read, may.                                 *)
AccountKeepsProfile ==
    [][\A w \in Wallets :
        db.accounts[w] # Null /\ db'.accounts[w] # db.accounts[w]
            => "restart" \in past.trouble /\ past.trouble \cap {"read", "write"} # {}]_vars

(* Two wallets of a process have the same name only after claims that      *)
(* overlapped, after a restart, or once a wallet gave up a name (the row   *)
(* another request read before brings it back): as long as names are kept, *)
(* no failed read or lost write is enough.                                 *)
NamesDiffer ==
    \A w, v \in Wallets :
        (w # v /\ mem.users[w] # Null /\ mem.users[v] # Null
         /\ mem.users[w].name # Null /\ mem.users[w].name = mem.users[v].name)
            => past.trouble \cap {"overlap", "restart", "released"} # {}

(* A session leads to the profile its wallet has, in memory and in the     *)
(* database, as long as writes arrive and no restart meets a failed read.   *)
SessionNamesProfile ==
    \A t \in Tokens :
        LET s == mem.sessions[t] IN
        (s # Null /\ "write" \notin past.trouble
         /\ ~({"restart", "read"} \subseteq past.trouble))
            => mem.users[s.wallet] # Null /\ mem.users[s.wallet].id = s.id
               /\ db.accounts[s.wallet] \in {s.id}

(* The page shows the connected wallet as signed in only while the cookie  *)
(* is that wallet's, unless the wallet changed under a request.            *)
ShownIsConnected ==
    (page.shown /\ page.connected # Null /\ jar # Null
     /\ "switch" \notin past.trouble)
        => jar.wallet = page.connected
=============================================================================
