-------------------------- MODULE CopilotTokensProofs --------------------------
(***************************************************************************)
(* Theorems about CopilotTokens, for any number of callers and flows, any  *)
(* number of tokens and every fault: the type invariant, that a retry      *)
(* presents the cached token, that a sign-in survives a restart, that a    *)
(* house locked out stays so, and that every call comes down to its end.   *)
(***************************************************************************)
EXTENDS CopilotTokens, SequenceTheorems, TLAPS

(* The assumptions on the constants, as one fact.                          *)
LEMMA Constants ==
  Callers \cap Flows = {} /\ MaxTokens \in Nat /\ Faults \subseteq TokenFaultKinds
BY TaskAssumption, TokenBoundAssumption, TokenFaultAssumption

LEMMA NothingIsMaybe == NoToken \in MaybeToken
BY Constants DEF NoToken, MaybeToken

(* The five plans are sequences of places, none empty, and each has the    *)
(* cache among its places.                                                 *)
Plans == {FileStoreCache, StoreCacheFile, StoreCache, CacheFile, CacheOnly}

LEMMA PlansAreTyped ==
  ASSUME NEW plan \in Plans
  PROVE  /\ plan \in Seq(Places) /\ plan # << >>
         /\ \E i \in 1..Len(plan) : plan[i] = "cache"
<1>1. CASE plan = FileStoreCache
  <2>1. plan \in Seq(Places) /\ plan # << >> /\ Len(plan) = 4 /\ plan[4] = "cache"
    BY <1>1 DEF FileStoreCache, Places
  <2> QED BY <2>1
<1>2. CASE plan = StoreCacheFile
  <2>1. plan \in Seq(Places) /\ plan # << >> /\ Len(plan) = 4 /\ plan[2] = "cache"
    BY <1>2 DEF StoreCacheFile, Places
  <2> QED BY <2>1
<1>3. CASE plan = StoreCache
  <2>1. plan \in Seq(Places) /\ plan # << >> /\ Len(plan) = 2 /\ plan[2] = "cache"
    BY <1>3 DEF StoreCache, Places
  <2> QED BY <2>1
<1>4. CASE plan = CacheFile
  <2>1. plan \in Seq(Places) /\ plan # << >> /\ Len(plan) = 3 /\ plan[1] = "cache"
    BY <1>4 DEF CacheFile, Places
  <2> QED BY <2>1
<1>5. CASE plan = CacheOnly
  <2>1. plan \in Seq(Places) /\ plan # << >> /\ Len(plan) = 1 /\ plan[1] = "cache"
    BY <1>5 DEF CacheOnly, Places
  <2> QED BY <2>1
<1> QED BY <1>1, <1>2, <1>3, <1>4, <1>5 DEF Plans

(* What is left to do after one place has been written.                    *)
LEMMA OnePlaceLess ==
  ASSUME NEW s \in Seq(Places), s # << >>
  PROVE  /\ Head(s) \in Places /\ Tail(s) \in Seq(Places) /\ Len(s) > 0
         /\ Head(s) = s[1] /\ Len(Tail(s)) = Len(s) - 1
         /\ \A i \in 1..Len(Tail(s)) : Tail(s)[i] = s[i + 1]
         /\ Len(s) > 1 => Tail(s) # << >>
         /\ Len(s) = 1 => Tail(s) = << >>
<1>1. Len(s) \in Nat /\ Len(s) > 0
  BY EmptySeq
<1>2. Tail(s) \in Seq(Places) /\ Len(Tail(s)) = Len(s) - 1
  BY HeadTailProperties
<1>6. Head(s) = s[1]
  BY <1>1
<1>3. Head(s) \in Places
  BY HeadTailProperties
<1>4. \A i \in 1..Len(Tail(s)) : Tail(s)[i] = s[i + 1]
  BY HeadTailProperties
<1>5. (Len(s) > 1 => Tail(s) # << >>) /\ (Len(s) = 1 => Tail(s) = << >>)
  <2>1. \A t \in Seq(Places) : t = << >> <=> Len(t) = 0
    BY EmptySeq
  <2>2. Tail(s) = << >> <=> Len(s) - 1 = 0
    BY <1>2, <2>1
  <2>3. \A n \in Nat : (n > 1 => n - 1 # 0) /\ (n = 1 => n - 1 = 0)
    OBVIOUS
  <2> QED BY <1>1, <2>2, <2>3, Zenon
<1> QED BY <1>1, <1>2, <1>3, <1>4, <1>5, <1>6

-----------------------------------------------------------------------------
(* Types.                                                                   *)

Types ==
  /\ cache \in MaybeToken /\ store \in MaybeToken
  /\ storefile \in MaybeToken /\ tokenfile \in MaybeToken
  /\ logins \subseteq Logins
  /\ issued \in MaybeToken /\ dead \subseteq Tokens

LocalTypes ==
  /\ pc \in [Tasks -> Steps]
  /\ token \in [Tasks -> MaybeToken]
  /\ todo \in [Tasks -> Seq(Places)]
  /\ rejected \in [Callers -> MaybeToken]
  /\ \A t \in Tasks : pc[t] = "leave" <=> todo[t] # << >>
  /\ \A t \in Tasks : pc[t] \in {"leave", "send", "keep"} => token[t] # NoToken

LEMMA TypesSplit == TypeOK <=> Types /\ LocalTypes
BY DEF TypeOK, Types, LocalTypes

(* Passing, taking and returning keep the variables of the tasks in their  *)
(* domains.                                                                *)
LEMMA PassesTyped ==
  ASSUME TypeOK, NEW t \in Tasks, NEW to \in Steps, Passes(t, to),
         to \notin {"leave", "send", "keep"}, pc[t] # "leave"
  PROVE  TypeOK'
BY DEF TypeOK, Passes, Goes, found, world

LEMMA TakesTyped ==
  ASSUME TypeOK, NEW t \in Tasks, NEW tk \in MaybeToken \ {NoToken}, NEW plan \in Plans,
         Takes(t, tk, plan)
  PROVE  /\ LocalTypes'
         /\ UNCHANGED found
<1>1. plan \in Seq(Places) /\ plan # << >>
  BY PlansAreTyped
<1>2. pc' = [pc EXCEPT ![t] = "leave"] /\ token' = [token EXCEPT ![t] = tk]
      /\ todo' = [todo EXCEPT ![t] = plan] /\ rejected' = rejected /\ UNCHANGED found
  BY DEF Takes, Goes, Holds
<1>3. pc' \in [Tasks -> Steps] /\ token' \in [Tasks -> MaybeToken]
      /\ todo' \in [Tasks -> Seq(Places)] /\ rejected' \in [Callers -> MaybeToken]
  BY <1>1, <1>2 DEF TypeOK, Steps
<1>4. \A u \in Tasks : pc'[u] = "leave" <=> todo'[u] # << >>
  BY <1>1, <1>2 DEF TypeOK
<1>5. \A u \in Tasks : pc'[u] \in {"leave", "send", "keep"} => token'[u] # NoToken
  BY <1>2 DEF TypeOK
<1> QED BY <1>2, <1>3, <1>4, <1>5 DEF LocalTypes

LEMMA ReturnsTyped ==
  ASSUME TypeOK, NEW c \in Callers, Returns(c), pc[c] # "leave"
  PROVE  LocalTypes' /\ UNCHANGED found
<1>1. c \in Tasks /\ NoToken \in MaybeToken
  BY NothingIsMaybe DEF Tasks
<1>2. /\ pc' = [pc EXCEPT ![c] = "idle"] /\ token' = [token EXCEPT ![c] = NoToken]
      /\ rejected' = [rejected EXCEPT ![c] = NoToken] /\ todo' = todo /\ UNCHANGED found
  BY DEF Returns, Goes, Holds, Forgets
<1>3. pc' \in [Tasks -> Steps] /\ token' \in [Tasks -> MaybeToken]
      /\ todo' \in [Tasks -> Seq(Places)] /\ rejected' \in [Callers -> MaybeToken]
  BY <1>1, <1>2 DEF TypeOK, Steps
<1>4. \A u \in Tasks : pc'[u] = "leave" <=> todo'[u] # << >>
  BY <1>1, <1>2 DEF TypeOK
<1>5. \A u \in Tasks : pc'[u] \in {"leave", "send", "keep"} => token'[u] # NoToken
  BY <1>1, <1>2 DEF TypeOK
<1> QED BY <1>2, <1>3, <1>4, <1>5 DEF LocalTypes

LEMMA IssueTyped ==
  ASSUME TypeOK, Issue
  PROVE  /\ issued' \in MaybeToken \ {NoToken}
         /\ logins' \subseteq Logins /\ dead' \subseteq Tokens
BY Constants DEF TypeOK, Issue, MaybeToken, NoToken

(* The places are written with tokens or with nothing.                     *)
LEMMA PlacesTyped ==
  ASSUME TypeOK, NEW tk \in MaybeToken
  PROVE  /\ SetCache(tk) => cache' \in MaybeToken
         /\ SetStore(tk) => store' \in MaybeToken /\ storefile' \in MaybeToken
         /\ Truncate => tokenfile' \in MaybeToken
         /\ Fill(tk) => tokenfile' \in MaybeToken
<1>1. NoToken \in MaybeToken
  BY Constants DEF NoToken, MaybeToken
<1> QED BY <1>1 DEF TypeOK, SetCache, SetStore, Truncate, Fill, Written

LEMMA LeaveTyped ==
  ASSUME TypeOK, NEW t \in Tasks, Leave(t)
  PROVE  TypeOK'
<1>1. todo[t] \in Seq(Places) /\ todo[t] # << >> /\ token[t] \in MaybeToken /\ pc[t] = "leave"
  BY DEF TypeOK, Leave
<1>2. /\ Tail(todo[t]) \in Seq(Places) /\ Len(todo[t]) > 0
      /\ Len(todo[t]) > 1 => Tail(todo[t]) # << >>
      /\ Len(todo[t]) = 1 => Tail(todo[t]) = << >>
  BY <1>1, OnePlaceLess
<1>3. Types'
  <2>1. /\ cache' \in MaybeToken /\ store' \in MaybeToken
        /\ storefile' \in MaybeToken /\ tokenfile' \in MaybeToken
    BY <1>1, PlacesTyped DEF Leave, TypeOK
  <2> QED BY <2>1 DEF Leave, TypeOK, Types, world
<1>4. LocalTypes'
  <2>1. todo' = [todo EXCEPT ![t] = Tail(todo[t])] /\ rejected' = rejected
    BY DEF Leave
  <2>2. CASE Len(todo[t]) > 1 /\ UNCHANGED <<pc, token>>
    <3>1. todo' \in [Tasks -> Seq(Places)] /\ (\A u \in Tasks : todo'[u] = << >> <=> todo[u] = << >>)
      BY <1>1, <1>2, <2>1, <2>2 DEF TypeOK
    <3> QED BY <2>1, <2>2, <3>1 DEF TypeOK, LocalTypes
  <2>3. CASE Len(todo[t]) = 1 /\ t \in Callers /\ Goes(t, "send") /\ UNCHANGED token
    <3>1. /\ todo' \in [Tasks -> Seq(Places)] /\ todo'[t] = << >>
          /\ \A u \in Tasks \ {t} : todo'[u] = todo[u]
      BY <1>1, <1>2, <2>1, <2>3 DEF TypeOK
    <3> QED BY <1>1, <2>1, <2>3, <3>1 DEF TypeOK, LocalTypes, Goes, Steps
  <2>4. CASE Len(todo[t]) = 1 /\ t \in Flows /\ Goes(t, "idle") /\ Holds(t, NoToken)
    <3>1. /\ todo' \in [Tasks -> Seq(Places)] /\ todo'[t] = << >>
          /\ \A u \in Tasks \ {t} : todo'[u] = todo[u]
      BY <1>1, <1>2, <2>1, <2>4 DEF TypeOK
    <3> QED BY <1>1, <2>1, <2>4, <3>1, NothingIsMaybe DEF TypeOK, LocalTypes, Goes, Holds, Steps
  <2> QED BY <1>1, <2>2, <2>3, <2>4 DEF Leave
<1> QED BY <1>3, <1>4, TypesSplit DEF Types, LocalTypes, TypeOK

LEMMA LooksTyped ==
  ASSUME TypeOK, NEW c \in Callers,
         LookInCache(c) \/ LookInStore(c) \/ LookInFile(c)
  PROVE  TypeOK'
<1>1. c \in Tasks
  BY DEF Tasks
<1>2. CASE LookInCache(c)
  <2>1. CASE cache = NoToken /\ Passes(c, "store")
    BY <1>1, <1>2, <2>1, PassesTyped DEF LookInCache, Steps
  <2>2. CASE cache # NoToken /\ Goes(c, "send") /\ Holds(c, cache)
             /\ UNCHANGED <<found, world, todo, rejected>> /\ pc[c] = "cache"
    BY <1>1, <2>2 DEF TypeOK, Goes, Holds, Steps, found, world
  <2> QED BY <1>2, <2>1, <2>2 DEF LookInCache
<1>3. CASE LookInStore(c)
  <2>1. CASE store # NoToken /\ Takes(c, store, CacheOnly) /\ UNCHANGED world
    <3>1. store \in MaybeToken \ {NoToken} /\ CacheOnly \in Plans
      BY <2>1 DEF TypeOK, Plans
    <3> QED BY <1>1, <2>1, <3>1, TakesTyped, TypesSplit DEF TypeOK, LocalTypes, found, world
  <2>2. CASE pc[c] = "store" /\ (Passes(c, "file") \/ Passes(c, "exchange"))
    BY <1>1, <2>2, PassesTyped DEF Steps
  <2> QED BY <1>3, <2>1, <2>2 DEF LookInStore
<1>4. CASE LookInFile(c)
  <2>1. CASE tokenfile # NoToken /\ Takes(c, tokenfile, CacheOnly) /\ UNCHANGED world
    <3>1. tokenfile \in MaybeToken \ {NoToken} /\ CacheOnly \in Plans
      BY <2>1 DEF TypeOK, Plans
    <3> QED BY <1>1, <2>1, <3>1, TakesTyped, TypesSplit DEF TypeOK, LocalTypes, found, world
  <2>2. CASE pc[c] = "file" /\ Passes(c, "import")
    BY <1>1, <2>2, PassesTyped DEF Steps
  <2> QED BY <1>4, <2>1, <2>2 DEF LookInFile
<1> QED BY <1>2, <1>3, <1>4

(* A newly issued token taken with one of the plans.                       *)
LEMMA IssueAndTakeTyped ==
  ASSUME TypeOK, NEW t \in Tasks, NEW plan \in Plans, Issue, Takes(t, issued', plan)
  PROVE  TypeOK'
<1>1. /\ issued' \in MaybeToken \ {NoToken}
      /\ logins' \subseteq Logins /\ dead' \subseteq Tokens
  BY IssueTyped
<1>2. LocalTypes' /\ UNCHANGED found
  BY <1>1, TakesTyped
<1> QED BY <1>1, <1>2 DEF TypeOK, LocalTypes, found

LEMMA SourcesTyped ==
  ASSUME TypeOK, NEW c \in Callers,
         Exchange(c) \/ Import(c) \/ FromEnvironment(c) \/ MissingCredentials(c)
  PROVE  TypeOK'
<1>1. c \in Tasks /\ {FileStoreCache, StoreCacheFile, StoreCache} \subseteq Plans
  BY DEF Tasks, Plans
<1>2. CASE Exchange(c)
  BY <1>1, <1>2, IssueAndTakeTyped, PassesTyped DEF Exchange, Steps
<1>3. CASE Import(c)
  BY <1>1, <1>3, IssueAndTakeTyped, PassesTyped DEF Import, Steps
<1>4. CASE FromEnvironment(c)
  BY <1>1, <1>4, IssueAndTakeTyped DEF FromEnvironment
<1>5. CASE MissingCredentials(c)
  <2>1. Flows \subseteq Tasks
    BY DEF Tasks
  <2>2. /\ token' = [token EXCEPT ![c] = NoToken] /\ rejected' = [rejected EXCEPT ![c] = NoToken]
        /\ UNCHANGED <<found, world, todo>> /\ pc[c] = "environment"
    BY <1>5 DEF MissingCredentials, Forgets, Holds
  <2>3. Types'
    BY <2>2 DEF TypeOK, Types, found, world
  <2>4. token' \in [Tasks -> MaybeToken] /\ rejected' \in [Callers -> MaybeToken]
        /\ todo' \in [Tasks -> Seq(Places)]
    BY <1>1, <2>2, NothingIsMaybe DEF TypeOK
  <2>5. ASSUME pc' = [pc EXCEPT ![c] = "idle"]
        PROVE  LocalTypes'
    BY <1>1, <2>2, <2>4, <2>5 DEF TypeOK, LocalTypes, Steps
  <2>6. ASSUME NEW f \in Flows, pc[f] = "idle",
               pc' = [pc EXCEPT ![c] = "idle", ![f] = "polling"]
        PROVE  LocalTypes'
    BY <1>1, <2>1, <2>2, <2>4, <2>6 DEF TypeOK, LocalTypes, Steps
  <2> QED BY <1>5, <2>3, <2>5, <2>6 DEF MissingCredentials, TypeOK, Types, LocalTypes
<1> QED BY <1>2, <1>3, <1>4, <1>5

LEMMA RequestsTyped ==
  ASSUME TypeOK, NEW c \in Callers, Request(c)
  PROVE  TypeOK'
<1>1. c \in Tasks
  BY DEF Tasks
<1>2. ASSUME Returns(c), UNCHANGED world, pc[c] # "leave"
      PROVE  TypeOK'
  BY <1>2, ReturnsTyped DEF TypeOK, LocalTypes, found, world
<1>3. CASE Answered(c)
  BY <1>2, <1>3 DEF Answered
<1>4. CASE Rejected(c)
  <2>1. CASE /\ pc' = [pc EXCEPT ![c] = "refresh"] /\ token' = [token EXCEPT ![c] = NoToken]
             /\ rejected' = [rejected EXCEPT ![c] = token[c]]
             /\ UNCHANGED <<found, world, todo>> /\ pc[c] = "send"
    <3>1. Types'
      BY <2>1 DEF TypeOK, Types, found, world
    <3>2. LocalTypes'
      BY <1>1, <2>1, NothingIsMaybe DEF TypeOK, LocalTypes, Steps
    <3> QED BY <3>1, <3>2 DEF TypeOK, Types, LocalTypes
  <2> QED BY <1>2, <1>4, <2>1 DEF Rejected, Goes, Holds
<1>5. CASE Refresh(c)
  BY <1>1, <1>2, <1>5, PassesTyped DEF Refresh, Steps
<1>6. CASE ExchangeAgain(c)
  <2>1. CASE /\ Issue /\ pc[c] = "exchange_again"
             /\ pc' = [pc EXCEPT ![c] = "keep"] /\ token' = [token EXCEPT ![c] = issued']
             /\ UNCHANGED <<found, todo, rejected>>
    <3>1. issued' \in MaybeToken \ {NoToken} /\ logins' \subseteq Logins /\ dead' \subseteq Tokens
      BY <2>1, IssueTyped
    <3>2. Types'
      BY <2>1, <3>1 DEF TypeOK, Types, found
    <3>3. LocalTypes'
      BY <1>1, <2>1, <3>1 DEF TypeOK, LocalTypes, Steps
    <3> QED BY <3>2, <3>3 DEF TypeOK, Types, LocalTypes
  <2> QED BY <1>2, <1>6, <2>1 DEF ExchangeAgain, Goes, Holds
<1>7. CASE KeepRefreshed(c)
  <2>1. /\ SetStore(token[c]) /\ token[c] \in MaybeToken
        /\ pc' = [pc EXCEPT ![c] = "cache"] /\ token' = [token EXCEPT ![c] = NoToken]
        /\ UNCHANGED <<cache, tokenfile, world, todo, rejected>> /\ pc[c] = "keep"
    BY <1>1, <1>7 DEF KeepRefreshed, TypeOK, Goes, Holds
  <2>2. Types'
    BY <2>1, PlacesTyped DEF TypeOK, Types, world
  <2>3. LocalTypes'
    BY <1>1, <2>1, NothingIsMaybe DEF TypeOK, LocalTypes, Steps
  <2> QED BY <2>2, <2>3 DEF TypeOK, Types, LocalTypes
<1>8. CASE KeepOpenai(c)
  <2>1. /\ SetStore(store) /\ store \in MaybeToken
        /\ pc' = [pc EXCEPT ![c] = "cache"]
        /\ UNCHANGED <<cache, tokenfile, world, token, todo, rejected>> /\ pc[c] = "keep_openai"
    BY <1>8 DEF KeepOpenai, TypeOK, Goes
  <2>2. Types'
    BY <2>1, PlacesTyped DEF TypeOK, Types, world
  <2>3. LocalTypes'
    BY <1>1, <2>1 DEF TypeOK, LocalTypes, Steps
  <2> QED BY <2>2, <2>3 DEF TypeOK, Types, LocalTypes
<1> QED BY <1>3, <1>4, <1>5, <1>6, <1>7, <1>8 DEF Request

LEMMA BeginTyped ==
  ASSUME TypeOK, NEW c \in Callers, Begin(c)
  PROVE  TypeOK'
BY DEF Begin, Goes, TypeOK, Tasks, Steps, found, world

LEMMA CrashTyped ==
  ASSUME TypeOK, CrashAndRestart
  PROVE  TypeOK'
<1>1. NoToken \in MaybeToken
  BY NothingIsMaybe
<1>2. Types'
  BY <1>1 DEF TypeOK, Types, CrashAndRestart, world
<1>3. << >> \in Seq(Places)
  BY EmptySeq
<1>4. LocalTypes'
  BY <1>1, <1>3 DEF LocalTypes, CrashAndRestart, Steps
<1> QED BY <1>2, <1>4 DEF TypeOK, Types, LocalTypes

LEMMA TypeStep == TypeOK /\ [Next]_vars => TypeOK'
<1> SUFFICES ASSUME TypeOK, [Next]_vars
             PROVE  TypeOK'
  OBVIOUS
<1>1. ASSUME NEW c \in Callers, Begin(c) \/ Call(c)
      PROVE  TypeOK'
  <2>1. c \in Tasks
    BY DEF Tasks
  <2> QED BY <1>1, <2>1, BeginTyped, LooksTyped, SourcesTyped, LeaveTyped, RequestsTyped
          DEF Call, Obtain
<1>2. ASSUME NEW f \in Flows, Authorized(f) \/ GivesUp(f) \/ Leave(f)
      PROVE  TypeOK'
  <2>1. f \in Tasks /\ FileStoreCache \in Plans /\ CacheFile \in Plans
    BY DEF Tasks, Plans
  <2>2. CASE Authorized(f)
    BY <2>1, <2>2, IssueAndTakeTyped DEF Authorized
  <2>3. CASE GivesUp(f)
    BY <2>1, <2>3, PassesTyped DEF GivesUp, Steps
  <2>4. CASE Leave(f)
    BY <2>1, <2>4, LeaveTyped
  <2> QED BY <1>2, <2>2, <2>3, <2>4
<1>3. CASE Expire
  <2>1. 1..issued \subseteq Tokens
    BY Constants DEF TypeOK, Tokens, MaybeToken
  <2> QED BY <1>3, <2>1 DEF Expire, TypeOK, found, task
<1>4. CASE CrashAndRestart
  BY <1>4, CrashTyped
<1>5. CASE UNCHANGED vars
  BY <1>5 DEF TypeOK, vars, found, world, task
<1> QED BY <1>1, <1>2, <1>3, <1>4, <1>5 DEF Next

(* Every variable stays in its domain; a request always carries a token,   *)
(* and a task that leaves tokens has a place left (obtain_copilot_token).  *)
THEOREM TokenTypes == Spec => []TypeOK
<1>1. Init => TypeOK
  <2>1. NoToken \in MaybeToken /\ 0 \in MaybeToken /\ << >> \in Seq(Places)
    BY NothingIsMaybe, EmptySeq DEF NoToken
  <2> QED BY <2>1 DEF Init, TypeOK, Steps
<1> QED BY <1>1, TypeStep, PTL DEF Spec

-----------------------------------------------------------------------------
(* The retry.  A task that has a token in its hands has cached one, or has *)
(* the cache among the places it still has to go to; a call that had a 401 *)
(* never gets past the cache again.                                        *)

CacheIsToDo(t) == \E i \in 1..Len(todo[t]) : todo[t][i] = "cache"

Cached(t) ==
  /\ pc[t] = "leave" => cache # NoToken \/ CacheIsToDo(t)
  /\ t \in Callers =>
       /\ pc[t] = "send" => cache # NoToken
       /\ rejected[t] # NoToken =>
            /\ cache # NoToken
            /\ pc[t] \in {"refresh", "exchange_again", "keep", "keep_openai", "cache", "send"}
            /\ pc[t] = "send" => token[t] = cache

AllCached == \A t \in Tasks : Cached(t)

(* A step of one task, which may start a flow and never changes a cache    *)
(* that is set, leaves the others as they are.                             *)
LEMMA OneTaskMoves ==
  ASSUME AllCached, NEW t \in Tasks, cache # NoToken => cache' = cache,
         \A u \in Tasks \ {t} : pc'[u] = pc[u] \/ (u \in Flows /\ pc'[u] = "polling"),
         \A u \in Tasks \ {t} : token'[u] = token[u] /\ todo'[u] = todo[u],
         \A c \in Callers \ {t} : rejected'[c] = rejected[c],
         Cached(t)'
  PROVE  AllCached'
<1> SUFFICES ASSUME NEW u \in Tasks \ {t} PROVE Cached(u)'
  BY DEF AllCached
<1>1. Cached(u)
  BY DEF AllCached
<1>2. u \in Flows => u \notin Callers
  BY Constants
<1> QED BY <1>1, <1>2 DEF Cached, CacheIsToDo

(* The steps that end a call or take a token from its hands.               *)
LEMMA PassesCached ==
  ASSUME TypeOK, AllCached, NEW t \in Tasks, NEW to, Passes(t, to),
         to \notin {"leave", "send"},
         t \in Callers /\ rejected[t] # NoToken =>
           to \in {"refresh", "exchange_again", "keep", "keep_openai", "cache"}
  PROVE  AllCached'
<1>1. Cached(t)
  BY DEF AllCached
<1>2. pc' = [pc EXCEPT ![t] = to] /\ UNCHANGED <<cache, token, todo, rejected>>
  BY DEF Passes, Goes, found
<1>3. pc'[t] = to /\ \A u \in Tasks \ {t} : pc'[u] = pc[u]
  BY <1>2 DEF TypeOK
<1>4. Cached(t)'
  BY <1>1, <1>2, <1>3 DEF Cached
<1> QED BY <1>2, <1>3, <1>4, OneTaskMoves

LEMMA TakesCached ==
  ASSUME TypeOK, AllCached, NEW t \in Tasks, NEW tk, NEW plan \in Plans, Takes(t, tk, plan),
         t \in Callers => rejected[t] = NoToken
  PROVE  AllCached'
<1>1. \E i \in 1..Len(plan) : plan[i] = "cache"
  BY PlansAreTyped
<1>2. /\ pc'[t] = "leave" /\ todo'[t] = plan
      /\ \A u \in Tasks \ {t} : pc'[u] = pc[u] /\ token'[u] = token[u] /\ todo'[u] = todo[u]
      /\ UNCHANGED <<cache, rejected>>
  BY DEF Takes, Goes, Holds, TypeOK, found
<1>3. Cached(t)'
  BY <1>1, <1>2 DEF Cached, CacheIsToDo
<1> QED BY <1>2, <1>3, OneTaskMoves

LEMMA ReturnsCached ==
  ASSUME TypeOK, AllCached, NEW c \in Callers, Returns(c)
  PROVE  AllCached'
<1>1. c \in Tasks
  BY DEF Tasks
<1>2. /\ pc'[c] = "idle" /\ rejected'[c] = NoToken /\ UNCHANGED <<cache, todo>>
      /\ \A u \in Tasks \ {c} : pc'[u] = pc[u] /\ token'[u] = token[u]
      /\ \A d \in Callers \ {c} : rejected'[d] = rejected[d]
  BY <1>1 DEF Returns, Forgets, Goes, Holds, TypeOK, found
<1>3. Cached(c)'
  BY <1>2 DEF Cached
<1> QED BY <1>1, <1>2, <1>3, OneTaskMoves

LEMMA LeaveCached ==
  ASSUME TypeOK, AllCached, NEW t \in Tasks, Leave(t)
  PROVE  AllCached'
<1>1. todo[t] \in Seq(Places) /\ todo[t] # << >> /\ pc[t] = "leave" /\ token[t] # NoToken
  BY DEF TypeOK, Leave
<1>2. /\ Head(todo[t]) = todo[t][1] /\ Len(Tail(todo[t])) = Len(todo[t]) - 1
      /\ \A i \in 1..Len(Tail(todo[t])) : Tail(todo[t])[i] = todo[t][i + 1]
  BY <1>1, OnePlaceLess
<1>3. /\ todo'[t] = Tail(todo[t]) /\ UNCHANGED rejected
      /\ \A u \in Tasks \ {t} : todo'[u] = todo[u]
      /\ \A u \in Tasks \ {t} : pc'[u] = pc[u] /\ token'[u] = token[u]
      /\ pc'[t] \in {"leave", "send", "idle"}
      /\ pc'[t] = "leave" => Len(todo[t]) > 1
      /\ pc'[t] = "send" => Len(todo[t]) = 1
  BY <1>1 DEF Leave, Goes, Holds, TypeOK
<1>4. cache # NoToken => cache' = cache
  BY DEF Leave, SetCache
<1>5. Head(todo[t]) = "cache" => cache' # NoToken
  BY <1>1 DEF Leave, SetCache
<1>6. cache' # NoToken \/ CacheIsToDo(t)'
  <2>1. Cached(t) /\ Len(todo[t]) \in Nat
    BY <1>1, LenProperties DEF AllCached
  <2>2. CASE cache # NoToken
    BY <1>4, <2>2
  <2>3. ASSUME NEW i \in 1..Len(todo[t]), todo[t][i] = "cache"
        PROVE  cache' # NoToken \/ CacheIsToDo(t)'
    <3>1. CASE i = 1
      BY <1>2, <1>5, <2>3, <3>1
    <3>2. CASE i # 1
      <4>1. i - 1 \in 1..Len(Tail(todo[t])) /\ (i - 1) + 1 = i
        BY <1>2, <2>1, <3>2
      <4>2. Tail(todo[t])[i - 1] = "cache"
        BY <1>2, <2>3, <4>1
      <4> QED BY <1>3, <4>1, <4>2 DEF CacheIsToDo
    <3> QED BY <3>1, <3>2
  <2> QED BY <1>1, <2>1, <2>2, <2>3 DEF Cached, CacheIsToDo
<1>7. Len(todo[t]) = 1 => ~CacheIsToDo(t)'
  BY <1>2, <1>3 DEF CacheIsToDo
<1>8. t \in Callers => rejected[t] = NoToken
  BY <1>1 DEF AllCached, Cached
<1>9. Cached(t)'
  BY <1>3, <1>6, <1>7, <1>8 DEF Cached
<1> QED BY <1>3, <1>4, <1>9, OneTaskMoves

(* Where a call may be that has had a 401.                                 *)
LEMMA RetryStaysAhead ==
  ASSUME AllCached, NEW c \in Callers, rejected[c] # NoToken
  PROVE  cache # NoToken /\ pc[c] \in {"refresh", "exchange_again", "keep", "keep_openai", "cache", "send"}
<1>1. c \in Tasks
  BY DEF Tasks
<1> QED BY <1>1 DEF AllCached, Cached

LEMMA ObtainCached ==
  ASSUME TypeOK, AllCached, NEW c \in Callers, Obtain(c)
  PROVE  AllCached'
<1>1. c \in Tasks
  BY DEF Tasks
<1>2. rejected[c] # NoToken =>
        cache # NoToken /\ pc[c] \in {"refresh", "exchange_again", "keep", "keep_openai", "cache", "send"}
  BY RetryStaysAhead
<1>3. CASE LookInCache(c)
  <2>1. CASE cache = NoToken /\ Passes(c, "store")
    BY <1>1, <1>2, <2>1, PassesCached
  <2>2. CASE cache # NoToken /\ Goes(c, "send") /\ Holds(c, cache)
             /\ UNCHANGED <<found, world, todo, rejected>>
    <3>1. /\ pc'[c] = "send" /\ token'[c] = cache /\ UNCHANGED <<cache, todo, rejected>>
          /\ \A u \in Tasks \ {c} : pc'[u] = pc[u] /\ token'[u] = token[u]
      BY <1>1, <2>2 DEF Goes, Holds, TypeOK, found
    <3>2. Cached(c)'
      BY <2>2, <3>1 DEF Cached
    <3> QED BY <1>1, <3>1, <3>2, OneTaskMoves
  <2> QED BY <1>3, <2>1, <2>2 DEF LookInCache
<1>4. CASE ~LookInCache(c)
  <2>1. pc[c] \in {"store", "exchange", "file", "import", "environment"}
    BY <1>4 DEF Obtain, LookInStore, Exchange, LookInFile, Import, FromEnvironment, MissingCredentials
  <2>2. rejected[c] = NoToken
    BY <1>2, <2>1
  <2>3. ASSUME NEW tk, NEW plan \in Plans, Takes(c, tk, plan)
        PROVE  AllCached'
    BY <1>1, <2>2, <2>3, TakesCached
  <2>4. ASSUME NEW to, to \notin {"leave", "send"}, Passes(c, to)
        PROVE  AllCached'
    BY <1>1, <2>2, <2>4, PassesCached
  <2>5. {FileStoreCache, StoreCacheFile, StoreCache, CacheOnly} \subseteq Plans
    BY DEF Plans
  <2>6. CASE LookInStore(c)
    BY <2>3, <2>4, <2>5, <2>6 DEF LookInStore
  <2>7. CASE Exchange(c)
    BY <2>3, <2>4, <2>5, <2>7 DEF Exchange
  <2>8. CASE LookInFile(c)
    BY <2>3, <2>4, <2>5, <2>8 DEF LookInFile
  <2>9. CASE Import(c)
    BY <2>3, <2>4, <2>5, <2>9 DEF Import
  <2>10. CASE FromEnvironment(c)
    BY <2>3, <2>5, <2>10 DEF FromEnvironment
  <2>11. CASE MissingCredentials(c)
    <3>1. Flows \subseteq Tasks
      BY DEF Tasks
    <3>2. /\ pc'[c] = "idle" /\ rejected'[c] = NoToken /\ UNCHANGED <<cache, todo>>
          /\ \A u \in Tasks \ {c} : token'[u] = token[u]
          /\ \A d \in Callers \ {c} : rejected'[d] = rejected[d]
          /\ \A u \in Tasks \ {c} : pc'[u] = pc[u] \/ (u \in Flows /\ pc'[u] = "polling")
      <4>1. token' = [token EXCEPT ![c] = NoToken] /\ rejected' = [rejected EXCEPT ![c] = NoToken]
            /\ UNCHANGED <<cache, todo>>
        BY <2>11 DEF MissingCredentials, Forgets, Holds, found
      <4>2. pc'[c] = "idle"
            /\ \A u \in Tasks \ {c} : pc'[u] = pc[u] \/ (u \in Flows /\ pc'[u] = "polling")
        <5>1. CASE pc' = [pc EXCEPT ![c] = "idle"]
          BY <1>1, <5>1 DEF TypeOK
        <5>2. ASSUME NEW f \in Flows, pc' = [pc EXCEPT ![c] = "idle", ![f] = "polling"]
              PROVE  pc'[c] = "idle"
                     /\ \A u \in Tasks \ {c} : pc'[u] = pc[u] \/ (u \in Flows /\ pc'[u] = "polling")
          BY <1>1, <3>1, <5>2, Constants DEF TypeOK
        <5> QED BY <2>11, <5>1, <5>2 DEF MissingCredentials
      <4> QED BY <1>1, <4>1, <4>2 DEF TypeOK
    <3>3. Cached(c)'
      BY <3>2 DEF Cached
    <3> QED BY <1>1, <3>2, <3>3, OneTaskMoves
  <2> QED BY <1>4, <2>6, <2>7, <2>8, <2>9, <2>10, <2>11 DEF Obtain
<1> QED BY <1>3, <1>4

LEMMA RequestCached ==
  ASSUME TypeOK, AllCached, NEW c \in Callers, Request(c)
  PROVE  AllCached'
<1>1. c \in Tasks /\ Cached(c)
  BY DEF Tasks, AllCached
<1>2. CASE Answered(c)
  BY <1>2, ReturnsCached DEF Answered
<1>3. CASE Rejected(c)
  <2>1. CASE pc[c] = "send" /\ Goes(c, "refresh") /\ Holds(c, NoToken)
             /\ rejected' = [rejected EXCEPT ![c] = token[c]] /\ UNCHANGED <<found, world, todo>>
    <3>1. /\ pc'[c] = "refresh" /\ UNCHANGED <<cache, todo>>
          /\ \A u \in Tasks \ {c} : pc'[u] = pc[u] /\ token'[u] = token[u]
          /\ \A d \in Callers \ {c} : rejected'[d] = rejected[d]
      BY <1>1, <2>1 DEF Goes, Holds, TypeOK, found
    <3>2. Cached(c)'
      BY <1>1, <2>1, <3>1 DEF Cached
    <3> QED BY <1>1, <3>1, <3>2, OneTaskMoves
  <2> QED BY <1>3, <2>1, ReturnsCached DEF Rejected
<1>4. CASE Refresh(c)
  BY <1>1, <1>4, PassesCached, ReturnsCached DEF Refresh
<1>5. CASE ExchangeAgain(c)
  <2>1. CASE /\ pc[c] = "exchange_again" /\ Goes(c, "keep") /\ Holds(c, issued')
             /\ UNCHANGED <<found, todo, rejected>>
    <3>1. /\ pc'[c] = "keep" /\ UNCHANGED <<cache, todo, rejected>>
          /\ \A u \in Tasks \ {c} : pc'[u] = pc[u] /\ token'[u] = token[u]
      BY <1>1, <2>1 DEF Goes, Holds, TypeOK, found
    <3>2. Cached(c)'
      BY <1>1, <3>1 DEF Cached
    <3> QED BY <1>1, <3>1, <3>2, OneTaskMoves
  <2> QED BY <1>5, <2>1, ReturnsCached DEF ExchangeAgain
<1>6. CASE KeepRefreshed(c)
  <2>1. /\ pc'[c] = "cache" /\ UNCHANGED <<cache, todo, rejected>>
        /\ \A u \in Tasks \ {c} : pc'[u] = pc[u] /\ token'[u] = token[u]
    BY <1>1, <1>6 DEF KeepRefreshed, Goes, Holds, TypeOK
  <2>2. Cached(c)'
    BY <1>1, <2>1 DEF Cached
  <2> QED BY <1>1, <2>1, <2>2, OneTaskMoves
<1>7. CASE KeepOpenai(c)
  <2>1. /\ pc'[c] = "cache" /\ UNCHANGED <<cache, token, todo, rejected>>
        /\ \A u \in Tasks \ {c} : pc'[u] = pc[u]
    BY <1>1, <1>7 DEF KeepOpenai, Goes, TypeOK
  <2>2. Cached(c)'
    BY <1>1, <2>1 DEF Cached
  <2> QED BY <1>1, <2>1, <2>2, OneTaskMoves
<1> QED BY <1>2, <1>3, <1>4, <1>5, <1>6, <1>7 DEF Request

LEMMA CachedStep == TypeOK /\ AllCached /\ [Next]_vars => AllCached'
<1> SUFFICES ASSUME TypeOK, AllCached, [Next]_vars
             PROVE  AllCached'
  OBVIOUS
<1>1. ASSUME NEW c \in Callers, Begin(c)
      PROVE  AllCached'
  <2>1. c \in Tasks /\ Cached(c)
    BY DEF Tasks, AllCached
  <2>2. /\ pc[c] = "idle" /\ pc'[c] = "cache" /\ UNCHANGED <<cache, token, todo, rejected>>
        /\ \A u \in Tasks \ {c} : pc'[u] = pc[u]
    BY <1>1, <2>1 DEF Begin, Goes, TypeOK, found
  <2>3. Cached(c)'
    BY <2>1, <2>2 DEF Cached
  <2> QED BY <2>1, <2>2, <2>3, OneTaskMoves
<1>2. ASSUME NEW c \in Callers, Call(c)
      PROVE  AllCached'
  <2>1. c \in Tasks
    BY DEF Tasks
  <2> QED BY <1>2, <2>1, ObtainCached, LeaveCached, RequestCached DEF Call
<1>3. ASSUME NEW f \in Flows, Authorized(f) \/ GivesUp(f) \/ Leave(f)
      PROVE  AllCached'
  <2>1. f \in Tasks /\ f \notin Callers /\ FileStoreCache \in Plans /\ CacheFile \in Plans
    BY Constants DEF Tasks, Plans
  <2>2. CASE Authorized(f)
    BY <2>1, <2>2, TakesCached DEF Authorized
  <2>3. CASE GivesUp(f)
    BY <2>1, <2>3, PassesCached DEF GivesUp
  <2> QED BY <1>3, <2>1, <2>2, <2>3, LeaveCached
<1>4. CASE Expire
  BY <1>4 DEF Expire, AllCached, Cached, CacheIsToDo, found, task
<1>5. CASE CrashAndRestart
  BY <1>5 DEF CrashAndRestart, AllCached, Cached
<1>6. CASE UNCHANGED vars
  BY <1>6 DEF AllCached, Cached, CacheIsToDo, vars, found, world, task
<1> QED BY <1>1, <1>2, <1>3, <1>4, <1>5, <1>6 DEF Next

(* The retry after a 401 presents the token the process cached, whatever   *)
(* the refresh has stored (run_provider_adapter, obtain_copilot_token).    *)
THEOREM RetryIsFutile == Spec => []RetryPresentsCache
<1>1. Init => TypeOK /\ AllCached
  <2>1. NoToken \in MaybeToken /\ 0 \in MaybeToken /\ << >> \in Seq(Places)
    BY NothingIsMaybe, EmptySeq DEF NoToken
  <2> QED BY <2>1 DEF Init, TypeOK, Steps, AllCached, Cached
<1>2. TypeOK /\ AllCached /\ [Next]_vars => (TypeOK /\ AllCached)'
  BY TypeStep, CachedStep
<1>3. AllCached => RetryPresentsCache
  <2>1. Callers \subseteq Tasks
    BY DEF Tasks
  <2> QED BY <2>1 DEF AllCached, Cached, RetryPresentsCache
<1> QED BY <1>1, <1>2, <1>3, PTL DEF Spec

-----------------------------------------------------------------------------
(* What survives a restart.  With one device flow and a disk that takes     *)
(* what it is given, a token that is cached, or about to be, is in a file,  *)
(* or some task will still put it there.                                    *)

FileLast      == <<"file">>
TruncateFile  == <<"truncate", "file">>
FileThenStore == <<"file", "store", "cache">>

ToStore == {FileStoreCache, FileThenStore, StoreCache, StoreCacheFile}
ToFile  == {CacheFile, TruncateFile, FileLast}
ToDos   == ToStore \cup ToFile \cup {CacheOnly, << >>}
ToCache == ToDos \ {<< >>, TruncateFile, FileLast}

Safe ==
  \/ storefile # NoToken \/ tokenfile # NoToken
  \/ \E t \in Tasks : todo[t] \in ToStore \cup ToFile

(* A device flow in direct mode that finds the file filled by another task *)
(* may spoil it; but that task has put its token in the store, or will.    *)
SignedIn ==
  /\ store = storefile
  /\ \A t \in Tasks : todo[t] \in ToDos
  /\ cache # NoToken \/ (\E t \in Tasks : todo[t] \in ToCache) => Safe
  /\ \A t \in Tasks : todo[t] \in ToFile =>
       \/ storefile # NoToken
       \/ /\ t \in Flows
          /\ todo[t] = FileLast /\ tokenfile # NoToken => \E u \in Tasks : todo[u] \in ToStore

(* Where each step of leaving a token leads.                                *)
LEMMA WhatRemains ==
  /\ Head(FileStoreCache) = "truncate" /\ Tail(FileStoreCache) = FileThenStore
  /\ Head(FileThenStore) = "file" /\ Tail(FileThenStore) = StoreCache
  /\ Head(StoreCache) = "store" /\ Tail(StoreCache) = CacheOnly
  /\ Head(CacheOnly) = "cache" /\ Tail(CacheOnly) = << >>
  /\ Head(StoreCacheFile) = "store" /\ Tail(StoreCacheFile) = CacheFile
  /\ Head(CacheFile) = "cache" /\ Tail(CacheFile) = TruncateFile
  /\ Head(TruncateFile) = "truncate" /\ Tail(TruncateFile) = FileLast
  /\ Head(FileLast) = "file" /\ Tail(FileLast) = << >>
BY DEF FileStoreCache, FileThenStore, StoreCache, CacheOnly, StoreCacheFile, CacheFile,
       TruncateFile, FileLast

LEMMA ToDosDiffer ==
  /\ CacheOnly \notin ToStore \cup ToFile /\ << >> \notin ToStore \cup ToFile
  /\ \A s \in ToStore : s \notin ToFile
  /\ CacheFile # FileLast /\ TruncateFile # FileLast
  /\ CacheOnly # << >>
BY DEF ToStore, ToFile, FileStoreCache, FileThenStore, StoreCache, CacheOnly, StoreCacheFile,
       CacheFile, TruncateFile, FileLast

(* No task's list changes, and no token is lost.                            *)
LEMMA QuietSigned ==
  ASSUME SignedIn, UNCHANGED <<cache, tokenfile, todo>>, store' = storefile',
         storefile # NoToken => storefile' # NoToken
  PROVE  SignedIn'
BY DEF SignedIn, Safe

(* A task takes a token that it will store, or that is in a file already.   *)
LEMMA TakesSigned ==
  ASSUME TypeOK, SignedIn, NEW t \in Tasks, todo[t] = << >>, NEW tk, NEW plan,
         Takes(t, tk, plan),
         \/ plan \in ToStore
         \/ plan = CacheFile /\ t \in Flows
         \/ plan = CacheOnly /\ (storefile # NoToken \/ tokenfile # NoToken)
  PROVE  SignedIn'
<1>1. /\ todo'[t] = plan /\ (\A u \in Tasks \ {t} : todo'[u] = todo[u])
      /\ UNCHANGED <<cache, store, storefile, tokenfile>>
  BY DEF Takes, TypeOK, found
<1>2. plan \in ToDos
  BY DEF ToDos, ToFile
<1>3. \A u \in Tasks : todo[u] \in ToStore \cup ToFile => todo'[u] = todo[u]
  BY <1>1, ToDosDiffer
<1>4. Safe => Safe'
  BY <1>1, <1>3 DEF Safe
<1>5. Safe' \/ (cache = NoToken /\ \A u \in Tasks \ {t} : todo[u] \notin ToCache)
  BY <1>4 DEF SignedIn
<1>6. plan \in ToStore \cup ToFile => Safe'
  BY <1>1 DEF Safe
<1>7. plan = CacheOnly => Safe'
  BY <1>1, <1>2, ToDosDiffer DEF Safe, ToFile
<1>8. Safe'
  BY <1>6, <1>7 DEF ToFile
<1>9. ASSUME NEW u \in Tasks, todo'[u] \in ToFile, storefile' = NoToken
      PROVE  /\ u \in Flows
             /\ todo'[u] = FileLast /\ tokenfile' # NoToken => \E x \in Tasks : todo'[x] \in ToStore
  <2>1. CASE u = t
    <3>1. plan = CacheFile /\ t \in Flows
      BY <1>1, <1>9, <2>1, ToDosDiffer
    <3> QED
      BY <1>1, <2>1, <3>1, ToDosDiffer
  <2>2. CASE u # t
    BY <1>1, <1>3, <1>9, <2>2 DEF SignedIn
  <2> QED
    BY <2>1, <2>2
<1> QED
  BY <1>1, <1>2, <1>8, <1>9 DEF SignedIn

LEMMA LeaveSigned ==
  ASSUME TypeOK, SignedIn, "write" \notin Faults, \A f, g \in Flows : f = g,
         NEW t \in Tasks, Leave(t)
  PROVE  SignedIn'
<1>1. /\ todo'[t] = Tail(todo[t]) /\ (\A u \in Tasks \ {t} : todo'[u] = todo[u])
      /\ todo[t] \in ToDos /\ todo[t] # << >> /\ token[t] # NoToken
  BY DEF Leave, TypeOK, SignedIn
<1>2. \/ Head(todo[t]) = "cache" /\ UNCHANGED <<store, storefile, tokenfile>>
      \/ Head(todo[t]) = "store" /\ store' = token[t] /\ storefile' = token[t]
         /\ UNCHANGED tokenfile
      \/ Head(todo[t]) = "truncate" /\ tokenfile' = NoToken /\ UNCHANGED <<store, storefile>>
      \/ /\ Head(todo[t]) = "file" /\ UNCHANGED <<store, storefile>>
         /\ tokenfile' = token[t] \/ tokenfile # NoToken
  BY DEF Leave, SetStore, Truncate, Fill, Written
<1>3. store' = storefile'
  BY <1>2 DEF SignedIn
<1>4. CASE todo[t] = FileStoreCache
  <2>1. todo'[t] = FileThenStore /\ tokenfile' = NoToken /\ storefile' = storefile
    BY <1>1, <1>2, <1>4, WhatRemains
  <2>2. todo'[t] \in ToStore /\ todo'[t] \notin ToFile
    BY <2>1, ToDosDiffer DEF ToStore
  <2> QED
    BY <1>1, <1>3, <2>1, <2>2 DEF SignedIn, Safe, ToDos
<1>5. CASE todo[t] = FileThenStore
  <2>1. todo'[t] = StoreCache /\ storefile' = storefile
    BY <1>1, <1>2, <1>5, WhatRemains
  <2>2. todo'[t] \in ToStore /\ todo'[t] \notin ToFile
    BY <2>1, ToDosDiffer DEF ToStore
  <2> QED
    BY <1>1, <1>3, <2>1, <2>2 DEF SignedIn, Safe, ToDos
<1>6. CASE todo[t] \in {StoreCache, StoreCacheFile}
  <2>1. todo'[t] \in {CacheOnly, CacheFile} /\ storefile' # NoToken
    BY <1>1, <1>2, <1>6, WhatRemains
  <2>2. todo'[t] \in ToDos
    BY <2>1 DEF ToDos, ToFile
  <2> QED
    BY <1>1, <1>3, <2>1, <2>2 DEF SignedIn, Safe
<1>7. CASE todo[t] = CacheOnly
  <2>1. todo'[t] = << >> /\ UNCHANGED <<storefile, tokenfile>>
    BY <1>1, <1>2, <1>7, WhatRemains
  <2>2. \A u \in Tasks : todo[u] \in ToStore \cup ToFile => todo'[u] = todo[u]
    BY <1>1, <1>7, ToDosDiffer
  <2>3. CacheOnly \in ToCache
    BY ToDosDiffer DEF ToCache, ToDos, ToFile
  <2>4. Safe'
    BY <1>7, <2>1, <2>2, <2>3 DEF SignedIn, Safe
  <2>5. \A u \in Tasks : todo'[u] \in ToFile => todo'[u] = todo[u]
    BY <1>1, <2>1, ToDosDiffer
  <2>6. \A u \in Tasks : todo'[u] \in ToDos
    BY <1>1, <2>1 DEF SignedIn, ToDos
  <2> QED
    BY <1>3, <2>1, <2>2, <2>4, <2>5, <2>6 DEF SignedIn
<1>8. CASE todo[t] = CacheFile
  <2>1. todo'[t] = TruncateFile /\ UNCHANGED <<storefile, tokenfile>>
    BY <1>1, <1>2, <1>8, WhatRemains
  <2>2. todo[t] \in ToFile /\ todo'[t] \in ToFile /\ todo'[t] # FileLast /\ todo[t] \notin ToStore
    BY <1>8, <2>1, ToDosDiffer DEF ToFile
  <2> QED
    BY <1>1, <1>3, <2>1, <2>2 DEF SignedIn, Safe, ToDos
<1>9. CASE todo[t] = TruncateFile
  <2>1. todo'[t] = FileLast /\ tokenfile' = NoToken /\ UNCHANGED storefile
    BY <1>1, <1>2, <1>9, WhatRemains
  <2>2. todo[t] \in ToFile /\ todo'[t] \in ToFile
    BY <1>9, <2>1 DEF ToFile
  <2> QED
    BY <1>1, <1>3, <2>1, <2>2 DEF SignedIn, Safe, ToDos
<1>10. CASE todo[t] = FileLast
  <2>1. todo'[t] = << >> /\ UNCHANGED storefile /\ (tokenfile' = token[t] \/ tokenfile # NoToken)
    BY <1>1, <1>2, <1>10, WhatRemains
  <2>2. \A u \in Tasks : todo'[u] \in ToDos
    BY <1>1, <2>1 DEF SignedIn, ToDos
  <2>3. CASE storefile # NoToken
    BY <1>3, <2>1, <2>2, <2>3 DEF SignedIn, Safe
  <2>4. CASE storefile = NoToken
    <3>1. FileLast \in ToFile /\ FileLast \notin ToStore
      BY ToDosDiffer DEF ToFile
    <3>2. t \in Flows /\ (tokenfile # NoToken => \E u \in Tasks : todo[u] \in ToStore)
      BY <1>10, <2>4, <3>1 DEF SignedIn
    <3>3. \A u \in Tasks : todo'[u] \notin ToFile
      <4> SUFFICES ASSUME NEW u \in Tasks, todo'[u] \in ToFile PROVE FALSE
        OBVIOUS
      <4>1. u # t
        BY <2>1, ToDosDiffer
      <4>2. u \in Flows
        BY <1>1, <2>4, <4>1 DEF SignedIn
      <4> QED
        BY <3>2, <4>1, <4>2
    <3>4. Safe'
      <4>1. CASE tokenfile' = token[t]
        BY <1>1, <4>1 DEF Safe
      <4>2. CASE tokenfile # NoToken
        <5>1. PICK u \in Tasks : todo[u] \in ToStore
          BY <3>2, <4>2
        <5>2. todo'[u] = todo[u]
          BY <1>1, <1>10, <3>1, <5>1
        <5> QED
          BY <5>1, <5>2 DEF Safe
      <4> QED
        BY <2>1, <4>1, <4>2
    <3> QED
      BY <1>3, <2>2, <3>3, <3>4 DEF SignedIn
  <2> QED
    BY <2>3, <2>4
<1> QED
  BY <1>1, <1>4, <1>5, <1>6, <1>7, <1>8, <1>9, <1>10 DEF ToDos, ToStore, ToFile

LEMMA ObtainSigned ==
  ASSUME TypeOK, SignedIn, NEW c \in Callers, Obtain(c)
  PROVE  SignedIn'
<1>1. c \in Tasks
  BY DEF Tasks
<1>2. StoreCache \in ToStore /\ FileStoreCache \in ToStore /\ StoreCacheFile \in ToStore
  BY DEF ToStore
<1>3. pc[c] # "leave" => todo[c] = << >>
  BY <1>1 DEF TypeOK
<1>4. ASSUME NEW to, Passes(c, to) PROVE SignedIn'
  BY <1>4, QuietSigned DEF Passes, found, SignedIn
<1>5. CASE LookInCache(c)
  BY <1>4, <1>5, QuietSigned DEF LookInCache, found, SignedIn
<1>6. CASE LookInStore(c)
  <2>1. CASE store # NoToken /\ Takes(c, store, CacheOnly)
    <3>1. storefile # NoToken /\ todo[c] = << >>
      BY <1>3, <1>6, <2>1 DEF SignedIn, LookInStore
    <3> QED
      BY <1>1, <2>1, <3>1, TakesSigned
  <2> QED
    BY <1>4, <1>6, <2>1 DEF LookInStore
<1>7. CASE Exchange(c)
  BY <1>1, <1>2, <1>3, <1>4, <1>7, TakesSigned DEF Exchange
<1>8. CASE LookInFile(c)
  <2>1. CASE tokenfile # NoToken /\ Takes(c, tokenfile, CacheOnly)
    <3>1. todo[c] = << >>
      BY <1>3, <1>8 DEF LookInFile
    <3> QED
      BY <1>1, <2>1, <3>1, TakesSigned
  <2> QED
    BY <1>4, <1>8, <2>1 DEF LookInFile
<1>9. CASE Import(c)
  BY <1>1, <1>2, <1>3, <1>4, <1>9, TakesSigned DEF Import
<1>10. CASE FromEnvironment(c)
  BY <1>1, <1>2, <1>3, <1>10, TakesSigned DEF FromEnvironment
<1>11. CASE MissingCredentials(c)
  BY <1>11, QuietSigned DEF MissingCredentials, found, SignedIn
<1> QED
  BY <1>5, <1>6, <1>7, <1>8, <1>9, <1>10, <1>11 DEF Obtain

LEMMA RequestSigned ==
  ASSUME TypeOK, SignedIn, "write" \notin Faults, NEW c \in Callers, Request(c)
  PROVE  SignedIn'
<1>1. CASE KeepRefreshed(c)
  <2>1. c \in Tasks /\ token[c] # NoToken
    BY <1>1 DEF Tasks, TypeOK, KeepRefreshed
  <2>2. store' = token[c] /\ storefile' = token[c] /\ UNCHANGED <<cache, tokenfile, todo>>
    BY <1>1 DEF KeepRefreshed, SetStore, Written
  <2> QED
    BY <2>1, <2>2, QuietSigned
<1>2. CASE UNCHANGED <<found, todo>>
  BY <1>2, QuietSigned DEF found, SignedIn
<1>3. CASE KeepOpenai(c)
  <2>1. store' = store /\ storefile' = store /\ UNCHANGED <<cache, tokenfile, todo>>
    BY <1>3 DEF KeepOpenai, SetStore, Written
  <2> QED
    BY <2>1, QuietSigned DEF SignedIn
<1> QED
  BY <1>1, <1>2, <1>3 DEF Request, Answered, Rejected, Refresh, ExchangeAgain, Returns, Passes

LEMMA SignedStep ==
  ASSUME TypeOK, SignedIn, "write" \notin Faults, \A f, g \in Flows : f = g, [Next]_vars
  PROVE  SignedIn'
<1>1. ASSUME NEW c \in Callers, Begin(c) PROVE SignedIn'
  BY <1>1, QuietSigned DEF Begin, found, SignedIn
<1>2. ASSUME NEW c \in Callers, Call(c) PROVE SignedIn'
  <2>1. c \in Tasks
    BY DEF Tasks
  <2> QED
    BY <1>2, <2>1, ObtainSigned, LeaveSigned, RequestSigned DEF Call
<1>3. ASSUME NEW f \in Flows, Authorized(f) \/ GivesUp(f) \/ Leave(f) PROVE SignedIn'
  <2>1. f \in Tasks /\ FileStoreCache \in ToStore /\ (pc[f] = "polling" => todo[f] = << >>)
    BY DEF Tasks, ToStore, TypeOK
  <2>2. CASE Authorized(f)
    BY <1>3, <2>1, <2>2, TakesSigned DEF Authorized
  <2>3. CASE GivesUp(f)
    BY <2>3, QuietSigned DEF GivesUp, Passes, found, SignedIn
  <2> QED
    BY <1>3, <2>1, <2>2, <2>3, LeaveSigned
<1>4. CASE Expire
  BY <1>4, QuietSigned DEF Expire, found, task, SignedIn
<1>5. CASE CrashAndRestart
  <2>1. cache' = NoToken /\ store' = storefile' /\ \A t \in Tasks : todo'[t] = << >>
    BY <1>5 DEF CrashAndRestart
  <2> QED
    BY <2>1, ToDosDiffer DEF SignedIn, ToDos, ToCache
<1>6. CASE UNCHANGED vars
  BY <1>6, QuietSigned DEF vars, found, task, SignedIn
<1> QED
  BY <1>1, <1>2, <1>3, <1>4, <1>5, <1>6 DEF Next

(* A process that has a token finds one when it is started again, through   *)
(* crashes at any moment and calls that write at once (TokenStore,          *)
(* save_copilot_token), as long as at most one device flow runs: two that   *)
(* end in direct mode may spoil the only file they write.                   *)
THEOREM SignInIsKept ==
  ASSUME \A f, g \in Flows : f = g
  PROVE  Spec => []SignInSurvives
<1> DEFINE Kept == "write" \notin Faults => SignedIn
<1>1. Init => TypeOK /\ Kept
  <2>1. NoToken \in MaybeToken /\ 0 \in MaybeToken /\ << >> \in Seq(Places)
    BY NothingIsMaybe, EmptySeq DEF NoToken
  <2>2. Init => TypeOK
    BY <2>1 DEF Init, TypeOK, Steps
  <2>3. Init => SignedIn
    BY ToDosDiffer DEF Init, SignedIn, ToDos, ToCache
  <2> QED
    BY <2>2, <2>3
<1>2. TypeOK /\ Kept /\ [Next]_vars => (TypeOK /\ Kept)'
  BY TypeStep, SignedStep
<1>3. Kept => SignInSurvives
  <2> SUFFICES ASSUME SignedIn, cache # NoToken, \A t \in Tasks : todo[t] = << >>
               PROVE  tokenfile # NoToken \/ storefile # NoToken
    BY DEF SignInSurvives
  <2> QED
    BY ToDosDiffer DEF SignedIn, Safe
<1> QED
  BY <1>1, <1>2, <1>3, PTL DEF Spec

-----------------------------------------------------------------------------
(* The lockout.  A task of a locked-out house walks cache, store, file,     *)
(* cache, send, refresh and home again: none of the places it passes leads  *)
(* to a new login, and none of them forgets the dead token.                 *)

LoopSteps == {"idle", "cache", "store", "file", "leave", "send", "refresh"}

(* A task that moves along the loop leaves the house locked out.            *)
LEMMA LoopStep ==
  ASSUME TypeOK, LockedOut, NEW t \in Tasks, NEW to \in LoopSteps, Goes(t, to),
         NEW rest \in {<< >>, CacheOnly}, todo' \in {todo, [todo EXCEPT ![t] = rest]},
         UNCHANGED <<store, storefile, tokenfile, logins, dead>>
  PROVE  LockedOut'
<1>1. \A u \in Tasks : pc'[u] \in LoopSteps
  BY DEF LockedOut, LoopSteps, Goes, TypeOK
<1>2. \A u \in Tasks : todo'[u] \in {<< >>, CacheOnly}
  BY DEF LockedOut, TypeOK
<1> QED
  BY <1>1, <1>2 DEF LockedOut, LoopSteps

LEMMA ObtainLocked ==
  ASSUME TypeOK, LockedOut, NEW c \in Callers, Obtain(c)
  PROVE  LockedOut'
<1>1. /\ c \in Tasks /\ pc[c] \in LoopSteps /\ store = NoToken /\ tokenfile # NoToken
      /\ {"send", "store", "file", "leave"} \subseteq LoopSteps /\ << >> \in {<< >>, CacheOnly}
  BY DEF Tasks, LockedOut, LoopSteps, TypeOK, Tokens, NoToken
<1>2. CASE LookInCache(c)
  BY <1>1, <1>2, LoopStep DEF LookInCache, Passes, found, world
<1>3. CASE LookInStore(c)
  BY <1>1, <1>3, LoopStep DEF LookInStore, Passes, found, world
<1>4. CASE LookInFile(c)
  BY <1>1, <1>4, LoopStep DEF LookInFile, Takes, found, world
<1> QED
  BY <1>1, <1>2, <1>3, <1>4
  DEF Obtain, Exchange, Import, FromEnvironment, MissingCredentials, LoopSteps

LEMMA LeaveLocked ==
  ASSUME TypeOK, LockedOut, NEW t \in Tasks, Leave(t)
  PROVE  LockedOut'
<1>1. todo[t] = CacheOnly
  BY DEF Leave, LockedOut, TypeOK
<1>2. Head(todo[t]) = "cache" /\ Tail(todo[t]) = << >> /\ Len(todo[t]) = 1
  BY <1>1, WhatRemains DEF CacheOnly
<1>3. /\ todo' = [todo EXCEPT ![t] = << >>]
      /\ UNCHANGED <<store, storefile, tokenfile, logins, dead>>
      /\ Goes(t, "send") \/ Goes(t, "idle")
  <2>1. todo' = [todo EXCEPT ![t] = << >>] /\ UNCHANGED <<logins, dead>>
    BY <1>2 DEF Leave, world
  <2>2. UNCHANGED <<store, storefile, tokenfile>>
    BY <1>2 DEF Leave
  <2>3. Goes(t, "send") \/ Goes(t, "idle")
    BY <1>2 DEF Leave
  <2> QED
    BY <2>1, <2>2, <2>3
<1>4. << >> \in {<< >>, CacheOnly} /\ {"send", "idle"} \subseteq LoopSteps
  BY DEF LoopSteps
<1> QED
  BY <1>3, <1>4, LoopStep

LEMMA RequestLocked ==
  ASSUME TypeOK, LockedOut, NEW c \in Callers, Request(c)
  PROVE  LockedOut'
<1>1. /\ c \in Tasks /\ pc[c] \in LoopSteps /\ store = NoToken /\ "apps.json" \notin logins
      /\ {"idle", "refresh"} \subseteq LoopSteps /\ << >> \in {<< >>, CacheOnly}
  BY DEF Tasks, LockedOut, LoopSteps
<1>2. ASSUME NEW to \in LoopSteps, Goes(c, to), UNCHANGED <<found, world, todo>>
      PROVE  LockedOut'
  BY <1>1, <1>2, LoopStep DEF found, world
<1>3. CASE Answered(c)
  BY <1>1, <1>2, <1>3 DEF Answered, Returns
<1>4. CASE Rejected(c)
  BY <1>1, <1>2, <1>4 DEF Rejected, Returns
<1>5. CASE Refresh(c)
  BY <1>1, <1>2, <1>5 DEF Refresh, Returns
<1> QED
  BY <1>1, <1>3, <1>4, <1>5 DEF Request, ExchangeAgain, KeepRefreshed, KeepOpenai, LoopSteps

(* A house locked out by a dead copilot_token.json stays locked out through *)
(* every call, every refresh and every restart: run_provider_adapter asks   *)
(* for no sign-in after a 401, and nothing removes the file.                *)
THEOREM LockedOutStays == Spec => LockedOutForGood
<1>1. ASSUME TypeOK, LockedOut, [Next]_vars PROVE LockedOut'
  <2>1. ASSUME NEW c \in Callers, Begin(c) PROVE LockedOut'
    <3>1. c \in Tasks /\ "cache" \in LoopSteps /\ << >> \in {<< >>, CacheOnly}
      BY DEF Tasks, LoopSteps
    <3> QED
      BY <1>1, <2>1, <3>1, LoopStep DEF Begin, found, world
  <2>2. ASSUME NEW c \in Callers, Call(c) PROVE LockedOut'
    <3>1. c \in Tasks
      BY DEF Tasks
    <3> QED
      BY <1>1, <2>2, <3>1, ObtainLocked, LeaveLocked, RequestLocked DEF Call
  <2>3. ASSUME NEW f \in Flows, Authorized(f) \/ GivesUp(f) \/ Leave(f) PROVE LockedOut'
    <3>1. f \in Tasks /\ pc[f] # "polling"
      BY <1>1 DEF Tasks, LockedOut
    <3> QED
      BY <1>1, <2>3, <3>1, LeaveLocked DEF Authorized, GivesUp
  <2>4. CASE Expire
    BY <1>1, <2>4 DEF Expire, LockedOut, found, task
  <2>5. CASE CrashAndRestart
    BY <1>1, <2>5 DEF CrashAndRestart, LockedOut, world
  <2>6. CASE UNCHANGED vars
    BY <1>1, <2>6 DEF LockedOut, vars, found, world, task
  <2> QED
    BY <1>1, <2>1, <2>2, <2>3, <2>4, <2>5, <2>6 DEF Next
<1>2. TypeOK /\ [Next]_vars => [LockedOut => LockedOut']_vars
  BY <1>1
<1> QED
  BY <1>2, TokenTypes, PTL DEF Spec, LockedOutForGood

-----------------------------------------------------------------------------
(* What fairness needs of CallsEnd.  A call comes down a ladder: the rungs  *)
(* of its first request above those of the refresh, these above the retry. *)

Rung ==
  [p \in Steps |->
     CASE p = "send"        -> 1  [] p = "leave"          -> 1
       [] p = "environment" -> 6  [] p = "import"         -> 7
       [] p = "file"        -> 8  [] p = "exchange"       -> 9
       [] p = "store"       -> 10 [] p = "cache"          -> 11
       [] p = "keep"        -> 12 [] p = "exchange_again" -> 13
       [] p = "keep_openai" -> 12 [] p = "refresh"        -> 14
       [] OTHER             -> 0]

FirstRequest(c) == pc[c] # "idle" /\ rejected[c] = NoToken

Lead(c) == IF FirstRequest(c) THEN 14 ELSE 0

StepsLeft(c) == Rung[pc[c]] + Len(todo[c]) + Lead(c)

(* Each step of a call brings it nearer to its end, and no step of another *)
(* task, of the provider or of a restart takes it back.                     *)
CallsWindDown ==
  [][\A c \in Callers : pc[c] # "idle" =>
       /\ StepsLeft(c)' <= StepsLeft(c)
       /\ Call(c) => StepsLeft(c)' < StepsLeft(c)]_vars

(* Only a call that had its 401 refreshes.                                  *)
RefreshesRejected ==
  \A c \in Callers : pc[c] \in {"refresh", "exchange_again", "keep", "keep_openai"} => rejected[c] # NoToken

LEMMA Rungs ==
  /\ Rung["send"] = 1 /\ Rung["leave"] = 1 /\ Rung["environment"] = 6 /\ Rung["import"] = 7
  /\ Rung["file"] = 8 /\ Rung["exchange"] = 9 /\ Rung["store"] = 10 /\ Rung["cache"] = 11
  /\ Rung["keep"] = 12 /\ Rung["keep_openai"] = 12 /\ Rung["exchange_again"] = 13 /\ Rung["refresh"] = 14
  /\ Rung["idle"] = 0 /\ Rung["polling"] = 0
BY DEF Rung, Steps

Below(p, q) == Rung[p] < Rung[q]

LEMMA TheLadder ==
  /\ Below("exchange_again", "refresh") /\ Below("keep_openai", "refresh")
  /\ Below("keep", "exchange_again") /\ Below("cache", "keep")
  /\ Below("cache", "keep_openai")
  /\ Below("store", "cache") /\ Below("send", "cache")
  /\ Below("exchange", "store") /\ Below("file", "store")
  /\ Below("file", "exchange") /\ Below("import", "file") /\ Below("environment", "import")
BY DEF Rung, Steps, Below

LEMMA RungsAreNat == \A p \in Steps : Rung[p] \in Nat
BY DEF Rung

(* What is left of a call is a number, and a call that leaves no token      *)
(* behind is on its rung.                                                   *)
LEMMA LeftIsNat ==
  ASSUME TypeOK, NEW c \in Callers
  PROVE  /\ c \in Tasks /\ Len(todo[c]) \in Nat /\ Rung[pc[c]] \in Nat /\ StepsLeft(c) \in Nat
         /\ pc[c] # "leave" => todo[c] = << >> /\ Len(todo[c]) = 0
         /\ pc[c] = "leave" => todo[c] # << >> /\ Len(todo[c]) > 0
<1>1. c \in Tasks /\ pc[c] \in Steps /\ todo[c] \in Seq(Places)
  BY DEF Tasks, TypeOK
<1>2. Len(todo[c]) \in Nat /\ Rung[pc[c]] \in Nat
  BY <1>1, RungsAreNat
<1>3. /\ pc[c] # "leave" => todo[c] = << >> /\ Len(todo[c]) = 0
      /\ pc[c] = "leave" => todo[c] # << >> /\ Len(todo[c]) > 0
  BY <1>1, OnePlaceLess DEF TypeOK
<1>4. Lead(c) \in Nat
  BY DEF Lead
<1> QED
  BY <1>1, <1>2, <1>3, <1>4 DEF StepsLeft

LEMMA LeftIsNatNext ==
  ASSUME TypeOK', NEW c \in Callers
  PROVE  StepsLeft(c)' \in Nat
<1>1. c \in Tasks /\ pc'[c] \in Steps /\ todo'[c] \in Seq(Places)
  BY DEF Tasks, TypeOK
<1>2. Len(todo'[c]) \in Nat /\ Rung[pc'[c]] \in Nat /\ Lead(c)' \in Nat
  BY <1>1, RungsAreNat DEF Lead
<1> QED
  BY <1>2 DEF StepsLeft

(* A call that comes down, with what it leaves behind counted.              *)
LEMMA ComesDown ==
  ASSUME TypeOK, NEW c \in Callers, NEW m \in Nat, NEW n \in Nat,
         Rung[pc'[c]] = m, Len(todo'[c]) = n, m + n < Rung[pc[c]] + Len(todo[c]),
         FirstRequest(c)' => FirstRequest(c)
  PROVE  StepsLeft(c)' < StepsLeft(c)
<1>1. Lead(c) \in Nat /\ Lead(c)' \in Nat /\ Lead(c)' <= Lead(c)
  BY DEF Lead
<1>2. Rung[pc[c]] \in Nat /\ Len(todo[c]) \in Nat
  BY LeftIsNat
<1>3. StepsLeft(c)' = m + n + Lead(c)'
  BY DEF StepsLeft
<1>4. StepsLeft(c) = Rung[pc[c]] + Len(todo[c]) + Lead(c)
  BY DEF StepsLeft
<1> QED
  BY <1>1, <1>2, <1>3, <1>4

(* A call that goes on to a lower rung with what it has.                    *)
LEMMA LowerRung ==
  ASSUME TypeOK, NEW c \in Callers, pc[c] # "idle", pc[c] # "leave",
         NEW to \in Steps, Goes(c, to), UNCHANGED todo, Below(to, pc[c]),
         FirstRequest(c)' => FirstRequest(c)
  PROVE  StepsLeft(c)' < StepsLeft(c)
<1>1. /\ pc'[c] = to /\ todo'[c] = todo[c]
      /\ Rung[to] \in Nat /\ Rung[pc[c]] \in Nat /\ Len(todo[c]) \in Nat
  BY LeftIsNat, RungsAreNat DEF TypeOK, Goes
<1>2. Rung[to] + Len(todo[c]) < Rung[pc[c]] + Len(todo[c])
  BY <1>1 DEF Below
<1> QED
  BY <1>1, <1>2, ComesDown

LEMMA PlansAreShort == \A plan \in Plans : plan \in Seq(Places) /\ Len(plan) <= 4
<1>1. Len(FileStoreCache) = 4 /\ Len(StoreCacheFile) = 4 /\ Len(StoreCache) = 2
      /\ Len(CacheFile) = 3 /\ Len(CacheOnly) = 1
  BY DEF FileStoreCache, StoreCacheFile, StoreCache, CacheFile, CacheOnly
<1>2. \A plan \in Plans : Len(plan) \in {1, 2, 3, 4}
  BY <1>1, Zenon DEF Plans
<1>3. \A n \in {1, 2, 3, 4} : n <= 4
  OBVIOUS
<1> QED
  BY <1>2, <1>3, PlansAreTyped, Zenon

(* A call that takes a token, to leave it in at most four places.           *)
LEMMA TakesRung ==
  ASSUME TypeOK, NEW c \in Callers, NEW tk, NEW plan \in Plans, Takes(c, tk, plan),
         pc[c] \in {"store", "exchange", "file", "import", "environment"}
  PROVE  StepsLeft(c)' < StepsLeft(c)
<1>1. /\ pc'[c] = "leave" /\ todo'[c] = plan /\ UNCHANGED rejected
      /\ Rung[pc[c]] \in Nat /\ Rung[pc[c]] > 5 /\ Len(todo[c]) = 0
  <2>1. /\ pc'[c] = "leave" /\ todo'[c] = plan /\ UNCHANGED rejected
        /\ Rung[pc[c]] \in Nat /\ Len(todo[c]) = 0
    BY LeftIsNat DEF TypeOK, Takes, Goes
  <2>2. \A p \in {"store", "exchange", "file", "import", "environment"} : Rung[p] > 5
    BY DEF Rung, Steps
  <2> QED
    BY <2>1, <2>2
<1>2. FirstRequest(c)' <=> FirstRequest(c)
  BY <1>1 DEF FirstRequest
<1>3. Rung[pc'[c]] = 1
  BY <1>1, Rungs
<1>4. Len(plan) \in Nat /\ Len(plan) <= 4
  <2>1. plan \in Seq(Places) /\ Len(plan) <= 4
    BY PlansAreShort
  <2> QED
    BY <2>1
<1>5. 1 + Len(plan) < Rung[pc[c]] + Len(todo[c])
  <2>1. \A m, n \in Nat : m > 5 /\ n <= 4 => 1 + n < m + 0
    OBVIOUS
  <2> QED
    BY <1>1, <1>4, <2>1
<1> QED
  BY <1>1, <1>2, <1>3, <1>4, <1>5, ComesDown

(* A call that ends.                                                        *)
LEMMA ReturnsRung ==
  ASSUME TypeOK, NEW c \in Callers, pc'[c] = "idle", todo'[c] = todo[c],
         pc[c] \in {"environment", "send", "refresh", "exchange_again"}
  PROVE  StepsLeft(c)' < StepsLeft(c)
<1>1. Len(todo[c]) = 0 /\ Rung[pc[c]] \in Nat /\ Rung[pc[c]] > 0
  <2>1. \A p \in {"environment", "send", "refresh", "exchange_again"} : Rung[p] > 0
    BY DEF Rung, Steps
  <2> QED
    BY <2>1, LeftIsNat
<1>2. Rung[pc'[c]] = 0 /\ ~FirstRequest(c)'
  BY Rungs DEF FirstRequest
<1>3. 0 + Len(todo[c]) < Rung[pc[c]] + Len(todo[c]) /\ Len(todo[c]) \in Nat
  <2>1. \A m, n \in Nat : m > 0 /\ n = 0 => 0 + n < m + n
    OBVIOUS
  <2> QED
    BY <1>1, <2>1
<1> QED
  BY <1>1, <1>2, <1>3, ComesDown

LEMMA LeaveRung ==
  ASSUME TypeOK, NEW c \in Callers, Leave(c)
  PROVE  StepsLeft(c)' < StepsLeft(c)
<1>1. /\ c \in Tasks /\ c \notin Flows /\ todo[c] \in Seq(Places) /\ todo[c] # << >>
      /\ todo'[c] = Tail(todo[c]) /\ rejected' = rejected /\ pc[c] = "leave"
      /\ pc'[c] = "leave" \/ pc'[c] = "send"
  BY Constants DEF Tasks, TypeOK, Leave, Goes
<1>2. Len(todo'[c]) = Len(todo[c]) - 1 /\ Len(todo[c]) \in Nat
  BY <1>1, OnePlaceLess, LeftIsNat
<1>3. FirstRequest(c)' <=> FirstRequest(c)
  BY <1>1 DEF FirstRequest
<1>4. Rung[pc'[c]] = 1 /\ Rung[pc[c]] = 1
  BY <1>1, Rungs
<1>5. /\ Len(todo[c]) - 1 \in Nat /\ Len(todo'[c]) = Len(todo[c]) - 1
      /\ 1 + (Len(todo[c]) - 1) < Rung[pc[c]] + Len(todo[c])
  BY <1>1, <1>2, <1>4, LeftIsNat
<1> QED
  BY <1>3, <1>4, <1>5, ComesDown

LEMMA ObtainRung ==
  ASSUME TypeOK, NEW c \in Callers, Obtain(c)
  PROVE  StepsLeft(c)' < StepsLeft(c)
<1>1. ASSUME NEW to \in Steps, Passes(c, to), pc[c] # "idle", pc[c] # "leave",
             Below(to, pc[c])
      PROVE  StepsLeft(c)' < StepsLeft(c)
  <2>1. FirstRequest(c)' => FirstRequest(c)
    BY <1>1 DEF Passes, FirstRequest
  <2> QED
    BY <1>1, <2>1, LowerRung DEF Passes
<1>2. {CacheOnly, StoreCache, StoreCacheFile, FileStoreCache} \subseteq Plans
  BY DEF Plans
<1>3. {"send", "store", "file", "import", "environment", "exchange"} \subseteq Steps
  BY DEF Steps
<1>4. CASE LookInCache(c)
  <2>1. CASE cache # NoToken /\ Goes(c, "send") /\ UNCHANGED <<todo, rejected>>
    <3>1. FirstRequest(c)' => FirstRequest(c)
      BY <1>4, <2>1 DEF LookInCache, FirstRequest
    <3> QED
      BY <1>3, <1>4, <2>1, <3>1, LowerRung, TheLadder DEF LookInCache
  <2> QED
    BY <1>1, <1>3, <1>4, <2>1, TheLadder DEF LookInCache
<1>5. CASE LookInStore(c)
  BY <1>1, <1>2, <1>3, <1>5, TakesRung, TheLadder DEF LookInStore
<1>6. CASE Exchange(c)
  BY <1>1, <1>2, <1>3, <1>6, TakesRung, TheLadder DEF Exchange
<1>7. CASE LookInFile(c)
  BY <1>1, <1>2, <1>3, <1>7, TakesRung, TheLadder DEF LookInFile
<1>8. CASE Import(c)
  BY <1>1, <1>2, <1>3, <1>8, TakesRung, TheLadder DEF Import
<1>9. CASE FromEnvironment(c)
  BY <1>2, <1>9, TakesRung DEF FromEnvironment
<1>10. CASE MissingCredentials(c)
  <2>1. c \in Tasks /\ c \notin Flows
    BY Constants DEF Tasks
  <2>2. pc'[c] = "idle" /\ todo' = todo /\ pc[c] = "environment"
    BY <1>10, <2>1 DEF MissingCredentials, TypeOK
  <2> QED
    BY <2>2, ReturnsRung
<1> QED
  BY <1>4, <1>5, <1>6, <1>7, <1>8, <1>9, <1>10 DEF Obtain

LEMMA RequestRung ==
  ASSUME TypeOK, RefreshesRejected, NEW c \in Callers, Request(c)
  PROVE  StepsLeft(c)' < StepsLeft(c)
<1>1. /\ c \in Tasks /\ {"refresh", "exchange_again", "keep", "keep_openai", "cache", "idle"} \subseteq Steps
      /\ pc[c] = "send" => token[c] # NoToken
  BY DEF Tasks, Steps, TypeOK
<1>2. ASSUME Returns(c), pc[c] \in {"send", "refresh", "exchange_again"} PROVE StepsLeft(c)' < StepsLeft(c)
  BY <1>1, <1>2, ReturnsRung DEF Returns, Goes, TypeOK
<1>3. CASE Answered(c)
  BY <1>2, <1>3 DEF Answered
<1>4. CASE Rejected(c)
  <2>1. CASE rejected[c] = NoToken /\ Goes(c, "refresh") /\ rejected' = [rejected EXCEPT ![c] = token[c]]
             /\ UNCHANGED todo
    <3>1. /\ pc'[c] = "refresh" /\ rejected'[c] # NoToken /\ todo'[c] = todo[c]
          /\ pc[c] = "send" /\ Len(todo[c]) = 0
      BY <1>1, <1>4, <2>1, LeftIsNat DEF Rejected, Goes, TypeOK
    <3>2. Lead(c) = 14 /\ Lead(c)' = 0
      BY <2>1, <3>1 DEF Lead, FirstRequest
    <3>3. StepsLeft(c)' = 14 + 0 + 0
      BY <3>1, <3>2, Rungs DEF StepsLeft
    <3>4. StepsLeft(c) = 1 + 0 + 14
      BY <3>1, <3>2, Rungs DEF StepsLeft
    <3> QED
      BY <3>3, <3>4
  <2> QED
    BY <1>2, <1>4, <2>1 DEF Rejected
<1>5. ASSUME pc[c] \in {"refresh", "exchange_again", "keep", "keep_openai"}, NEW to \in Steps, Goes(c, to),
             UNCHANGED <<todo, rejected>>, Below(to, pc[c])
      PROVE  StepsLeft(c)' < StepsLeft(c)
  <2>1. ~FirstRequest(c)'
    BY <1>5 DEF RefreshesRejected, FirstRequest
  <2> QED
    BY <1>5, <2>1, LowerRung
<1>6. CASE Refresh(c)
  BY <1>1, <1>2, <1>5, <1>6, TheLadder DEF Refresh, Passes
<1>7. CASE ExchangeAgain(c)
  BY <1>1, <1>2, <1>5, <1>7, TheLadder DEF ExchangeAgain
<1>8. CASE KeepRefreshed(c)
  BY <1>1, <1>5, <1>8, TheLadder DEF KeepRefreshed
<1>9. CASE KeepOpenai(c)
  BY <1>1, <1>5, <1>9, TheLadder DEF KeepOpenai
<1> QED
  BY <1>3, <1>4, <1>6, <1>7, <1>8, <1>9 DEF Request

(* The steps of others leave a call where it is.                            *)
LEMMA OthersLeaveCall ==
  ASSUME TypeOK, Next, NEW c \in Callers, ~Call(c), ~Begin(c), ~CrashAndRestart
  PROVE  pc'[c] = pc[c] /\ todo'[c] = todo[c] /\ rejected'[c] = rejected[c]
<1>1. c \in Tasks /\ c \notin Flows
  BY Constants DEF Tasks
<1>2. ASSUME NEW t \in Tasks \ {c}, Leave(t)
      PROVE  pc'[c] = pc[c] /\ todo'[c] = todo[c] /\ rejected'[c] = rejected[c]
  BY <1>1, <1>2 DEF Leave, Goes, TypeOK
<1>3. ASSUME NEW d \in Callers \ {c}, Begin(d) \/ Obtain(d) \/ Request(d)
      PROVE  pc'[c] = pc[c] /\ todo'[c] = todo[c] /\ rejected'[c] = rejected[c]
  <2>1. d \in Tasks
    BY DEF Tasks
  <2>2. CASE Begin(d)
    BY <1>1, <1>3, <2>1, <2>2 DEF Begin, Goes, TypeOK
  <2>3. CASE Obtain(d)
    BY <1>1, <1>3, <2>1, <2>3
    DEF Obtain, LookInCache, LookInStore, Exchange, LookInFile, Import, FromEnvironment,
        MissingCredentials, Passes, Takes, Goes, Forgets, TypeOK
  <2>4. CASE Request(d)
    BY <1>1, <1>3, <2>1, <2>4
    DEF Request, Answered, Rejected, Refresh, ExchangeAgain, KeepRefreshed, KeepOpenai, Passes, Returns,
        Goes, Forgets, TypeOK
  <2> QED
    BY <1>3, <2>2, <2>3, <2>4
<1>4. ASSUME NEW f \in Flows, Authorized(f) \/ GivesUp(f)
      PROVE  pc'[c] = pc[c] /\ todo'[c] = todo[c] /\ rejected'[c] = rejected[c]
  <2>1. f \in Tasks /\ f # c
    BY <1>1 DEF Tasks
  <2> QED
    BY <1>1, <1>4, <2>1 DEF Authorized, GivesUp, Passes, Takes, Goes, TypeOK
<1>5. CASE Expire
  BY <1>5 DEF Expire, task
<1> QED
  BY <1>1, <1>2, <1>3, <1>4, <1>5 DEF Next, Call, Tasks

LEMMA RejectedStep ==
  ASSUME TypeOK, RefreshesRejected, [Next]_vars
  PROVE  RefreshesRejected'
<1> SUFFICES ASSUME NEW c \in Callers, pc'[c] \in {"refresh", "exchange_again", "keep", "keep_openai"}
             PROVE  rejected'[c] # NoToken
  BY DEF RefreshesRejected
<1>1. c \in Tasks /\ c \notin Flows /\ (pc[c] = "send" => token[c] # NoToken)
  BY Constants DEF Tasks, TypeOK
<1>2. CASE Obtain(c)
  BY <1>1, <1>2
  DEF Obtain, LookInCache, LookInStore, Exchange, LookInFile, Import, FromEnvironment,
      MissingCredentials, Passes, Takes, Goes, TypeOK
<1>3. CASE Leave(c)
  BY <1>1, <1>3 DEF Leave, Goes, TypeOK
<1>4. CASE Request(c)
  BY <1>1, <1>4
  DEF Request, Answered, Rejected, Refresh, ExchangeAgain, KeepRefreshed, KeepOpenai, Passes, Returns,
      Goes, TypeOK, RefreshesRejected
<1>5. CASE Begin(c) \/ CrashAndRestart
  BY <1>1, <1>5 DEF Begin, CrashAndRestart, Goes, TypeOK
<1>6. CASE UNCHANGED vars
  BY <1>6 DEF vars, task, RefreshesRejected
<1> QED
  BY <1>2, <1>3, <1>4, <1>5, <1>6, OthersLeaveCall DEF Call, RefreshesRejected

(* One retry and no more: a call of run_provider_adapter that is scheduled  *)
(* gets nearer to its answer with every step, whatever the other tasks, the *)
(* provider and the process do, so that it takes at most 25 of them.        *)
THEOREM CallsComeDown == Spec => CallsWindDown
<1> DEFINE Nearer(c) == pc[c] # "idle" =>
             /\ StepsLeft(c)' <= StepsLeft(c)
             /\ Call(c) => StepsLeft(c)' < StepsLeft(c)
<1>1. Init => RefreshesRejected
  BY DEF Init, RefreshesRejected, Tasks
<1>2. ASSUME TypeOK, RefreshesRejected, [Next]_vars, NEW c \in Callers, pc[c] # "idle"
      PROVE  /\ StepsLeft(c)' <= StepsLeft(c)
             /\ Call(c) => StepsLeft(c)' < StepsLeft(c)
  <2>1. StepsLeft(c) \in Nat /\ StepsLeft(c)' \in Nat /\ c \in Tasks
    BY <1>2, TypeStep, LeftIsNat, LeftIsNatNext
  <2>2. Call(c) => StepsLeft(c)' < StepsLeft(c)
    BY <1>2, ObtainRung, LeaveRung, RequestRung DEF Call
  <2>3. CASE CrashAndRestart
    <3>1. pc'[c] = "idle" /\ todo'[c] = << >>
      BY <2>1, <2>3 DEF CrashAndRestart
    <3>2. Rung[pc'[c]] = 0 /\ Len(todo'[c]) = 0 /\ Lead(c)' = 0
      BY <3>1, Rungs DEF Lead, FirstRequest
    <3>3. StepsLeft(c)' = 0
      BY <3>2 DEF StepsLeft
    <3> QED
      BY <2>1, <2>2, <3>3
  <2>4. CASE ~Call(c) /\ ~CrashAndRestart
    <3>1. pc'[c] = pc[c] /\ todo'[c] = todo[c] /\ rejected'[c] = rejected[c]
      BY <1>2, <2>4, OthersLeaveCall DEF Begin, vars, task
    <3> QED
      BY <2>1, <2>4, <3>1 DEF StepsLeft, Lead, FirstRequest
  <2> QED
    BY <2>1, <2>2, <2>3, <2>4
<1>3. TypeOK /\ RefreshesRejected /\ [Next]_vars => [\A c \in Callers : Nearer(c)]_vars
  BY <1>2
<1>4. TypeOK /\ RefreshesRejected /\ [Next]_vars => RefreshesRejected'
  BY RejectedStep
<1> QED
  BY <1>1, <1>3, <1>4, TokenTypes, PTL DEF Spec, CallsWindDown

================================================================================
