----------------------------- MODULE CopilotTokens -----------------------------
(***************************************************************************)
(* Where the Copilot adapter gets its token from, and what a 401 does.     *)
(* Blocking tasks look for a token in a process-wide OnceLock, a store     *)
(* saved as oauth_tokens.json, copilot_token.json, the login other tools   *)
(* left on the disk and GITHUB_TOKEN, in this order, and leave what they   *)
(* found in the places before.  When all of them fail the cockpit is shown *)
(* a device code, and a task of its own polls for the sign-in.             *)
(*                                                                         *)
(* Tokens are numbered as they are issued.  Only the store is locked, for  *)
(* one reading or writing of it; everything else happens between the tasks.*)
(***************************************************************************)
EXTENDS Naturals, Sequences

CONSTANTS
  Callers,    \* blocking tasks that run a provider adapter
  Flows,      \* device flows that may be under way
  MaxTokens,  \* bound: tokens issued
  Faults      \* the faults that may happen, a subset of TokenFaultKinds

TokenFaultKinds == {"crash", "write"}

ASSUME TaskAssumption == Callers \cap Flows = {}
ASSUME TokenBoundAssumption == MaxTokens \in Nat
ASSUME TokenFaultAssumption == Faults \subseteq TokenFaultKinds

Tasks     == Callers \cup Flows
Tokens    == 1..MaxTokens
NoToken   == 0
MaybeToken == 0..MaxTokens

\* The providers whose lanes the Copilot adapter serves; a 401 of "openai" is
\* treated like one of "codex".
Providers == {"copilot", "codex", "anthropic"}

\* Logins from elsewhere: apps.json of other Copilot tools, GITHUB_TOKEN.
Logins == {"apps.json", "GITHUB_TOKEN"}

VARIABLES
  cache,      \* COPILOT_TOKEN, the OnceLock
  store,      \* the entry "copilot" of TOKEN_STORE
  storefile,  \* the same entry in oauth_tokens.json, NoToken if unreadable
  tokenfile,  \* copilot_token.json, NoToken if absent or unreadable
  logins,     \* the logins from elsewhere this machine has
  issued,     \* tokens issued so far
  dead,       \* tokens the provider answers with a 401
  pc,         \* task -> where it stands
  token,      \* task -> the token in its hands
  todo,       \* task -> the places it has to leave the token in
  rejected    \* caller -> the token of its first request, once that had a 401

found == <<cache, store, storefile, tokenfile>>
world == <<logins, issued, dead>>
task  == <<pc, token, todo, rejected>>
vars  == <<found, world, task>>

Places == {"cache", "store", "truncate", "file"}

(* The orders in which a new token is left, one per source.                *)
FileStoreCache == <<"truncate", "file", "store", "cache">>  \* import, device flow
StoreCacheFile == <<"store", "cache", "truncate", "file">>  \* GITHUB_TOKEN
StoreCache     == <<"store", "cache">>                      \* refresh of an old entry
CacheFile      == <<"cache", "truncate", "file">>           \* device flow, direct mode
CacheOnly      == <<"cache">>                               \* store, copilot_token.json

Init ==
  /\ cache = NoToken /\ store = NoToken /\ storefile = NoToken /\ tokenfile = NoToken
  /\ logins \in SUBSET Logins
  /\ issued = 0 /\ dead = {}
  /\ pc = [t \in Tasks |-> "idle"]
  /\ token = [t \in Tasks |-> NoToken]
  /\ todo = [t \in Tasks |-> << >>]
  /\ rejected = [c \in Callers |-> NoToken]

-----------------------------------------------------------------------------
(* Steps of a task.                                                         *)

Holds(t, tk) == token' = [token EXCEPT ![t] = tk]

Goes(t, to) == pc' = [pc EXCEPT ![t] = to]

\* Nothing but the place in the code changes.
Passes(t, to) ==
  /\ Goes(t, to)
  /\ UNCHANGED <<found, world, token, todo, rejected>>

\* Takes tk, to leave it in the places of plan.
Takes(t, tk, plan) ==
  /\ Goes(t, "leave")
  /\ Holds(t, tk)
  /\ todo' = [todo EXCEPT ![t] = plan]
  /\ UNCHANGED <<found, rejected>>

\* The variables of a call end with it.
Forgets(c) ==
  /\ Holds(c, NoToken)
  /\ rejected' = [rejected EXCEPT ![c] = NoToken]

Returns(c) ==
  /\ Goes(c, "idle") /\ Forgets(c)
  /\ UNCHANGED <<found, todo>>

\* exchange_github_for_copilot_token succeeds: the next token is issued.
Issue ==
  /\ issued < MaxTokens
  /\ issued' = issued + 1
  /\ UNCHANGED <<logins, dead>>

-----------------------------------------------------------------------------
(* run_provider_adapter with the Copilot adapter: obtain_copilot_token.     *)

Begin(c) ==
  /\ pc[c] = "idle"
  /\ Goes(c, "cache")
  /\ UNCHANGED <<found, world, token, todo, rejected>>

LookInCache(c) ==
  /\ pc[c] = "cache"
  /\ \/ /\ cache # NoToken
        /\ Goes(c, "send")
        /\ Holds(c, cache)
        /\ UNCHANGED <<found, world, todo, rejected>>
     \/ cache = NoToken /\ Passes(c, "store")

\* Under the lock of the store.  The clock is abstracted: a token may be found
\* past its time (is_expired) at any reading.
LookInStore(c) ==
  /\ pc[c] = "store"
  /\ \/ store = NoToken /\ Passes(c, "file")
     \/ store # NoToken /\ Takes(c, store, CacheOnly) /\ UNCHANGED world
     \/ store # NoToken /\ Passes(c, "exchange")

\* Without the lock.
Exchange(c) ==
  /\ pc[c] = "exchange"
  /\ \/ Issue /\ Takes(c, issued', StoreCache)
     \/ Passes(c, "file")

\* Mutant: a token that is past its time is not taken from the file.
LookInFileUnlessExpired(c) ==
  /\ pc[c] = "file"
  /\ \/ tokenfile # NoToken /\ Takes(c, tokenfile, CacheOnly) /\ UNCHANGED world
     \/ Passes(c, "import")

\* Mutant: a file that cannot be read is taken for an empty token.
LookInFileUnchecked(c) ==
  /\ pc[c] = "file"
  /\ \/ Takes(c, tokenfile, CacheOnly) /\ UNCHANGED world
     \/ tokenfile = NoToken /\ Passes(c, "import")

\* The file says nothing of the age of its token.
LookInFile(c) ==
  /\ pc[c] = "file"
  /\ \/ tokenfile # NoToken /\ Takes(c, tokenfile, CacheOnly) /\ UNCHANGED world
     \/ tokenfile = NoToken /\ Passes(c, "import")

\* Mutant: the imported token is not saved.
ImportUnsaved(c) ==
  /\ pc[c] = "import"
  /\ \/ "apps.json" \in logins /\ Issue /\ Takes(c, issued', CacheOnly)
     \/ Passes(c, "environment")

Import(c) ==
  /\ pc[c] = "import"
  /\ \/ "apps.json" \in logins /\ Issue /\ Takes(c, issued', FileStoreCache)
     \/ Passes(c, "environment")

FromEnvironment(c) ==
  /\ pc[c] = "environment"
  /\ "GITHUB_TOKEN" \in logins /\ Issue /\ Takes(c, issued', StoreCacheFile)

\* GITHUB_TOKEN is not set, or did not lead to a token.  A dispatch goes on to
\* its next lane; the chat may show a device code and start a flow.
MissingCredentials(c) ==
  /\ pc[c] = "environment"
  /\ \/ pc' = [pc EXCEPT ![c] = "idle"]
     \/ \E f \in Flows : pc[f] = "idle" /\ pc' = [pc EXCEPT ![c] = "idle", ![f] = "polling"]
  /\ Forgets(c)
  /\ UNCHANGED <<found, world, todo>>

-----------------------------------------------------------------------------
(* Leaving a token in its places.                                           *)

\* A write to disk may fail; the result is ignored.
Written(file, tk) == {tk} \cup IF "write" \in Faults THEN {file, NoToken} ELSE {}

\* Mutant: the newest token wins.
SetCacheAgain(tk) == cache' = tk

\* OnceLock::set
SetCache(tk) == cache' = IF cache = NoToken THEN tk ELSE cache

\* TokenStore::set: the entry and its file, under the lock.
SetStore(tk) == store' = tk /\ storefile' \in Written(storefile, tk)

\* File::create, seen by whoever reads the file before the text is written.
Truncate == tokenfile' \in Written(tokenfile, NoToken)

\* write_all; a file that another task has filled since may become a mixture.
Fill(tk) ==
  tokenfile' \in Written(tokenfile, tk) \cup IF tokenfile = NoToken THEN {} ELSE {NoToken}

Leave(t) ==
  /\ pc[t] = "leave"
  /\ \/ Head(todo[t]) = "cache" /\ SetCache(token[t]) /\ UNCHANGED <<store, storefile, tokenfile>>
     \/ Head(todo[t]) = "store" /\ SetStore(token[t]) /\ UNCHANGED <<cache, tokenfile>>
     \/ Head(todo[t]) = "truncate" /\ Truncate /\ UNCHANGED <<cache, store, storefile>>
     \/ Head(todo[t]) = "file" /\ Fill(token[t]) /\ UNCHANGED <<cache, store, storefile>>
  /\ todo' = [todo EXCEPT ![t] = Tail(@)]
  /\ \/ Len(todo[t]) > 1 /\ UNCHANGED <<pc, token>>
     \/ Len(todo[t]) = 1 /\ t \in Callers /\ Goes(t, "send") /\ UNCHANGED token
     \/ Len(todo[t]) = 1 /\ t \in Flows /\ Goes(t, "idle") /\ Holds(t, NoToken)
  /\ UNCHANGED <<world, rejected>>

-----------------------------------------------------------------------------
(* The request, the refresh after a 401 and the retry.                      *)

\* The call ends with an answer, or with any error but a 401.
Answered(c) == pc[c] = "send" /\ Returns(c) /\ UNCHANGED world

\* Mutant: every 401 is answered with a refresh.
RejectedEachTime(c) ==
  /\ pc[c] = "send" /\ token[c] \in dead
  /\ Goes(c, "refresh") /\ Holds(c, NoToken)
  /\ rejected' = [rejected EXCEPT ![c] = token[c]]
  /\ UNCHANGED <<found, world, todo>>

\* A 401: the first leads to a refresh, the second is returned.
Rejected(c) ==
  /\ pc[c] = "send" /\ token[c] \in dead
  /\ \/ /\ rejected[c] = NoToken
        /\ Goes(c, "refresh") /\ Holds(c, NoToken)
        /\ rejected' = [rejected EXCEPT ![c] = token[c]]
        /\ UNCHANGED <<found, world, todo>>
     \/ rejected[c] # NoToken /\ Returns(c) /\ UNCHANGED world

\* refresh_provider_token.  For codex and openai the login of the other tools
\* becomes the entry "openai" of the store.
Refresh(c) ==
  /\ pc[c] = "refresh"
  /\ \E provider \in Providers :
       \/ provider = "copilot" /\ store # NoToken /\ Passes(c, "exchange_again")
       \/ provider = "codex" /\ "apps.json" \in logins /\ Passes(c, "keep_openai")
       \/ /\ provider = "copilot" => store = NoToken
          /\ provider = "codex" => "apps.json" \notin logins
          /\ Returns(c) /\ UNCHANGED world

\* obtain_copilot_token does not read the entry "openai", but setting it writes
\* all of oauth_tokens.json, with the entry "copilot" as it is by now.
KeepOpenai(c) ==
  /\ pc[c] = "keep_openai"
  /\ SetStore(store)
  /\ Goes(c, "cache")
  /\ UNCHANGED <<cache, tokenfile, world, token, todo, rejected>>

ExchangeAgain(c) ==
  /\ pc[c] = "exchange_again"
  /\ \/ /\ Issue
        /\ Goes(c, "keep")
        /\ Holds(c, issued')
        /\ UNCHANGED <<found, todo, rejected>>
     \/ Returns(c) /\ UNCHANGED world

\* The new token goes to the store; the retry starts from the top.
KeepRefreshed(c) ==
  /\ pc[c] = "keep"
  /\ SetStore(token[c])
  /\ Goes(c, "cache") /\ Holds(c, NoToken)
  /\ UNCHANGED <<cache, tokenfile, world, todo, rejected>>

-----------------------------------------------------------------------------
(* poll_copilot_device_auth, until it is answered.                          *)

\* The login is exchanged, or used as it is when that fails.
Authorized(f) ==
  /\ pc[f] = "polling"
  /\ Issue
  /\ Takes(f, issued', FileStoreCache) \/ Takes(f, issued', CacheFile)

\* Sixty polls, or an error.
GivesUp(f) == pc[f] = "polling" /\ Passes(f, "idle")

-----------------------------------------------------------------------------
(* The world.                                                               *)

\* A token expires, or its login is revoked: the provider takes it no more.
Expire ==
  /\ \E tk \in 1..issued : tk \notin dead /\ dead' = dead \cup {tk}
  /\ UNCHANGED <<found, logins, issued, task>>

\* The store of the next process is what oauth_tokens.json holds; a write of
\* it that was under way may be left half done.
CrashAndRestart ==
  /\ "crash" \in Faults
  /\ \/ UNCHANGED storefile
     \/ /\ \E t \in Tasks : pc[t] \in {"keep", "keep_openai"} \/ (todo[t] # << >> /\ Head(todo[t]) = "store")
        /\ storefile' = NoToken
  /\ store' = storefile' /\ cache' = NoToken
  /\ pc' = [t \in Tasks |-> "idle"]
  /\ token' = [t \in Tasks |-> NoToken]
  /\ todo' = [t \in Tasks |-> << >>]
  /\ rejected' = [c \in Callers |-> NoToken]
  /\ UNCHANGED <<tokenfile, world>>

Obtain(c) ==
  \/ LookInCache(c) \/ LookInStore(c) \/ Exchange(c) \/ LookInFile(c) \/ Import(c)
  \/ FromEnvironment(c) \/ MissingCredentials(c)

Request(c) ==
  \/ Answered(c) \/ Rejected(c) \/ Refresh(c) \/ ExchangeAgain(c) \/ KeepRefreshed(c)
  \/ KeepOpenai(c)

Call(c) == Obtain(c) \/ Leave(c) \/ Request(c)

Next ==
  \/ \E c \in Callers : Begin(c) \/ Call(c)
  \/ \E f \in Flows : Authorized(f) \/ GivesUp(f) \/ Leave(f)
  \/ Expire \/ CrashAndRestart

Spec == Init /\ [][Next]_vars

\* Every request of a call has a timeout, and the blocking task is scheduled.
FairSpec == Spec /\ \A c \in Callers : WF_vars(Call(c))

-----------------------------------------------------------------------------
(* Properties.                                                              *)

Steps == {"idle", "cache", "store", "exchange", "file", "import", "environment",
          "leave", "send", "refresh", "exchange_again", "keep",
          "keep_openai", "polling"}

TypeOK ==
  /\ cache \in MaybeToken /\ store \in MaybeToken
  /\ storefile \in MaybeToken /\ tokenfile \in MaybeToken
  /\ issued \in MaybeToken /\ dead \subseteq Tokens
  /\ pc \in [Tasks -> Steps]
  /\ logins \subseteq Logins
  /\ token \in [Tasks -> MaybeToken]
  /\ todo \in [Tasks -> Seq(Places)]
  /\ rejected \in [Callers -> MaybeToken]
  /\ \A t \in Tasks : pc[t] = "leave" <=> todo[t] # << >>
  /\ \A t \in Tasks : pc[t] \in {"leave", "send", "keep"} => token[t] # NoToken

(* A retry presents what the process cached first, whatever the refresh    *)
(* has put into the store since, and whichever task cached it.             *)
RetryPresentsCache ==
  \A c \in Callers : pc[c] = "send" /\ rejected[c] # NoToken => token[c] = cache

(* "If the first attempt fails with an auth error, refresh the token and   *)
(* retry once" (provider_adapter.rs:336): the retry does not present the   *)
(* token that was rejected.                                                *)
RetryPresentsAnother ==
  \A c \in Callers : pc[c] = "send" /\ rejected[c] # NoToken => token[c] # rejected[c]

(* "Thread-safe, persistent token store" (provider_adapter.rs:48): a       *)
(* process that has a token and is not writing one finds a token when it   *)
(* is started again, also after crashes in the middle of a write and with  *)
(* tasks that write at once.                                               *)
SignInSurvives ==
  cache # NoToken /\ (\A t \in Tasks : todo[t] = << >>) /\ "write" \notin Faults =>
    tokenfile # NoToken \/ storefile # NoToken

(* The only token on disk is one the provider rejects, the store has none  *)
(* to refresh with, nobody else is signed in and no flow is under way.     *)
LockedOut ==
  /\ tokenfile \in dead /\ store = NoToken /\ storefile = NoToken
  /\ logins = {}
  /\ \A t \in Tasks : pc[t] \in {"idle", "cache", "store", "file", "leave", "send", "refresh"}
  /\ \A t \in Tasks : todo[t] \in {<< >>, CacheOnly}

(* Such a house stays so: a 401 is not taken for missing credentials, so   *)
(* no device code is ever shown again, and no restart helps.               *)
LockedOutForGood == [][LockedOut => LockedOut']_vars

(* One retry and no more: every call returns.                              *)
CallsEnd == \A c \in Callers : (pc[c] # "idle") ~> (pc[c] = "idle")

================================================================================
