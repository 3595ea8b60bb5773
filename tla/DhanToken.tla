----------------------------- MODULE DhanToken -----------------------------
(* The access token of the Dhan account: services/dhan_sync.py from connect  *)
(* to the first reads of a sync, services/broker_credentials.py, and who     *)
(* starts a sync in ui/tabs/risk/pane.py.  The tab runs on the UI thread, a  *)
(* sync on its own; a request goes out with the token that is there then,    *)
(* and its answer comes later.  What a sync reads is DhanHistory's and       *)
(* PositionSync's.  The two keys that a save writes to .env are one step.    *)
EXTENDS Integers

CONSTANTS
    MaxTokens,  \* bound: tokens that the broker or the user comes up with
    LastDay     \* bound: days

TokenAssumption == {MaxTokens, LastDay} \subseteq Nat \ {0}

Tokens == 1 .. MaxTokens
NoToken == 0

VARIABLES
    accepts,    \* Dhan: token -> "good", "expiring" or "bad"
    handed,     \* tokens there are
    current,    \* _current of the store
    env,        \* the token in the .env file
    needsToken, \* _needs_token
    sync,       \* what the sync's thread does next, or waits for, with which token
    connecting, \* connect() has stored its token and goes on
    day,
    lastSync,   \* the day of _LAST_SYNC
    root,       \* history: token -> the pasted one that it was renewed from
    pasted,     \* history: the last token pasted
    rejected,   \* history: tokens that Dhan has refused to this process
    overlapped, \* history: a token was pasted while a sync ran
    retried     \* history: a sync started by itself with a refused token

dhan == <<accepts, handed>>
store == <<current, env>>
history == <<root, pasted, rejected, overlapped, retried>>
vars == <<dhan, store, needsToken, sync, connecting, day, lastSync, history>>

Idle == [at |-> "idle", token |-> NoToken]
Goes(at) == sync' = [at |-> at, token |-> NoToken]
Requests == {"account", "renew", "read"}

Init ==
    /\ accepts = [t \in Tokens |-> "bad"] /\ handed = 0
    /\ current = NoToken /\ env = NoToken /\ needsToken = FALSE
    /\ sync = Idle /\ connecting = FALSE /\ day = 1 /\ lastSync = 0
    /\ root = [t \in Tokens |-> NoToken] /\ pasted = NoToken
    /\ rejected = {} /\ overlapped = FALSE /\ retried = FALSE

-----------------------------------------------------------------------------
(* The store.                                                              *)

StoredOnly(t) == env
Persisted(t) == t

Save(t) == current' = t /\ env' = Persisted(t)

-----------------------------------------------------------------------------
(* The tab.                                                                *)

\* A fresh token or one that Dhan refuses, as the user pastes it.
Paste(works) ==
    /\ ~connecting /\ handed < MaxTokens
    /\ handed' = handed + 1
    /\ accepts' = [accepts EXCEPT ![handed'] = IF works THEN "good" ELSE "bad"]
    /\ Save(handed') /\ connecting' = TRUE
    /\ root' = [root EXCEPT ![handed'] = handed'] /\ pasted' = handed'
    /\ overlapped' = (overlapped \/ sync # Idle)
    /\ UNCHANGED <<needsToken, sync, day, lastSync, rejected, retried>>

Started == Goes("account")

\* connect() goes on: it asks for no other token, and syncs if none is running.
Connected ==
    /\ connecting /\ connecting' = FALSE
    /\ needsToken' = FALSE
    /\ IF sync = Idle THEN Started ELSE UNCHANGED sync
    /\ UNCHANGED <<dhan, store, day, lastSync, history>>

\* sync(), asked for in the dialog.
SyncNow ==
    /\ ~connecting /\ sync = Idle /\ current # NoToken
    /\ Started
    /\ UNCHANGED <<dhan, store, needsToken, connecting, day, lastSync, history>>

DueAnyway == lastSync # day
Due == ~needsToken /\ lastSync # day

\* _maybe_auto_sync and sync_if_due.
AutoSync ==
    /\ ~connecting /\ sync = Idle /\ current # NoToken /\ Due
    /\ Started
    /\ retried' = (retried \/ current \in rejected)
    /\ UNCHANGED <<dhan, store, needsToken, connecting, day, lastSync,
                   root, pasted, rejected, overlapped>>

-----------------------------------------------------------------------------
(* The sync.                                                               *)

\* get() takes the token, and asks.
Send ==
    /\ sync.at \in Requests /\ sync.token = NoToken
    /\ sync' = [sync EXCEPT !.token = current]
    /\ UNCHANGED <<dhan, store, needsToken, connecting, day, lastSync, history>>

Asked(at) == sync.at = at /\ sync.token # NoToken
Accepted == accepts[sync.token] # "bad"

\* Mutant: any error is taken for a refusal.
RefusedOrNot ==
    /\ \E at \in Requests : Asked(at)
    /\ needsToken' = TRUE /\ sync' = Idle
    /\ rejected' = IF Accepted THEN rejected ELSE rejected \cup {sync.token}
    /\ UNCHANGED <<dhan, store, connecting, day, lastSync, root, pasted, overlapped, retried>>

\* An answer that refuses the token; _run asks the user for another one.
Refused ==
    /\ (\E at \in Requests : Asked(at)) /\ ~Accepted
    /\ needsToken' = TRUE /\ sync' = Idle
    /\ rejected' = rejected \cup {sync.token}
    /\ UNCHANGED <<dhan, store, connecting, day, lastSync, root, pasted, overlapped, retried>>

\* Any other error leaves everything for the next sync.
Fails ==
    /\ (\E at \in Requests : Asked(at)) /\ sync' = Idle
    /\ UNCHANGED <<dhan, store, needsToken, connecting, day, lastSync, history>>

\* The account says until when the token is good.
Account ==
    /\ Asked("account") /\ Accepted
    /\ Goes(IF accepts[sync.token] = "expiring" THEN "renew" ELSE "accepted")
    /\ UNCHANGED <<dhan, store, needsToken, connecting, day, lastSync, history>>

\* Dhan may go on accepting the old token or not.
Renew ==
    /\ Asked("renew") /\ Accepted /\ handed < MaxTokens
    /\ handed' = handed + 1
    /\ \E old \in {accepts[sync.token], "bad"} :
          accepts' = [accepts EXCEPT ![sync.token] = old, ![handed'] = "good"]
    /\ sync' = [at |-> "save", token |-> handed']
    /\ root' = [root EXCEPT ![handed'] = root[sync.token]]
    /\ UNCHANGED <<store, needsToken, connecting, day, lastSync,
                   pasted, rejected, overlapped, retried>>

SaveRenewed ==
    /\ sync.at = "save"
    /\ Save(sync.token) /\ Goes("accepted")
    /\ UNCHANGED <<dhan, needsToken, connecting, day, lastSync, history>>

TokenAccepted ==
    /\ sync.at = "accepted"
    /\ needsToken' = FALSE /\ Goes("read")
    /\ UNCHANGED <<dhan, store, connecting, day, lastSync, history>>

\* The trades and the holdings; the time of the sync is that of its end.
Synced ==
    /\ Asked("read") /\ Accepted
    /\ lastSync' = day /\ sync' = Idle
    /\ UNCHANGED <<dhan, store, needsToken, connecting, day, history>>

-----------------------------------------------------------------------------
Expires(t) ==
    /\ t <= handed /\ accepts[t] # "bad"
    /\ accepts' = [accepts EXCEPT ![t] = IF @ = "good" THEN "expiring" ELSE "bad"]
    /\ UNCHANGED <<handed, store, needsToken, sync, connecting, day, lastSync, history>>

NextDay ==
    /\ day < LastDay /\ day' = day + 1
    /\ UNCHANGED <<dhan, store, needsToken, sync, connecting, lastSync, history>>

\* The process ends, wherever the two threads are, and starts again.
Restart ==
    /\ current' = env /\ needsToken' = FALSE /\ sync' = Idle /\ connecting' = FALSE
    /\ rejected' = {} /\ UNCHANGED <<dhan, env, day, lastSync, root, pasted, overlapped, retried>>

SyncSteps ==
    Send \/ Refused \/ Fails \/ Account \/ Renew \/ SaveRenewed \/ TokenAccepted
         \/ Synced

Next ==
    \/ \E works \in BOOLEAN : Paste(works)
    \/ Connected \/ SyncNow \/ AutoSync
    \/ SyncSteps
    \/ \E t \in Tokens : Expires(t)
    \/ NextDay \/ Restart

Spec == Init /\ [][Next]_vars

-----------------------------------------------------------------------------
TypeOK ==
    /\ handed \in 0 .. MaxTokens /\ {current, env, sync.token} \subseteq 0 .. handed
    /\ sync.at \in Requests \cup {"idle", "save", "accepted"}
    /\ {needsToken, connecting} \subseteq BOOLEAN /\ lastSync <= day

\* The token that is stored is the one that was pasted last or one renewed from
\* it, over restarts as well.  A token pasted while a sync renews the old one may
\* be overwritten: `overlapped' leaves that out.
PastedKept ==
    ~overlapped /\ current = env /\ pasted # NoToken =>
       current # NoToken /\ root[current] = pasted

\* "never with a token Dhan rejected": no sync starts by itself with a token
\* that this process was refused.  A sync that runs while connect() stores a
\* token may be refused it before connect() says that none is needed.
NeverRejected == ~overlapped => ~retried

\* The user is asked for a token only when the one there was refused: no other
\* error, renewal or restart ends the syncing by itself.
AskedRightly == ~overlapped /\ ~connecting => (needsToken => current \in rejected)

\* What a check of the token is about.
TokenSound == TypeOK /\ PastedKept /\ NeverRejected /\ AskedRightly

\* Without the exception, neither holds: a token pasted while a sync runs may be
\* overwritten by the renewal of the one before it, or be taken for refused
\* because that one was, so that it is never tried.
PastedStays == ~connecting /\ pasted # NoToken => root[current] = pasted
FreshIsTried == ~connecting /\ needsToken => current \in rejected
=============================================================================
