------------------------------ MODULE Session ------------------------------
(***************************************************************************)
(* Login by telephone code and the session behind it: UserServiceImpl,     *)
(* LoginInterceptor with its ThreadLocal, and the browser tab that keeps    *)
(* the token (common.js and the pages).                                     *)
(*                                                                         *)
(* A tab holds its token twice: in sessionStorage, and in the variable      *)
(* common.js fills once when a page is loaded.  Every call of a tab runs on *)
(* a pooled thread, one command of Redis or MySQL at a time.  A time to     *)
(* live counts down as Redis reports it: NoKey (-2) and Forever (-1).       *)
(***************************************************************************)
EXTENDS Integers, Sequences

CONSTANTS
    Tabs, Threads, Tokens, Phones, Codes,
    CodeTTL, SessionTTL,   \* LOGIN_CODE_TTL and LOGIN_USER_TTL, in ticks
    MaxFaults,             \* bound on failed commands and crashes
    None                   \* no token, no code, no tab

ASSUME TimeAssumption == /\ CodeTTL \in Nat \ {0}
                         /\ SessionTTL \in Nat \ {0}
                         /\ MaxFaults \in Nat
ASSUME NoneAssumption == None \notin Tokens /\ None \notin Codes /\ None \notin Tabs

Grant == [phone : Phones, user : Nat]   \* what a token stands for

ASSUME GrantAssumption == None \notin Grant

VARIABLES
    code, codeTtl,    \* login:code:<phone>
    session, ttl,     \* login:token:<token>: user id in the hash (0: no hash)
    rows,             \* tb_user: rows[id] is the phone of user id
    pc, call, page,   \* per thread: its place, its request, the tab still listening
    who, result,      \* per thread: the user login found, the answer
    holder,           \* per thread: the user in UserHolder's ThreadLocal (0: none)
    stored, loaded,   \* per tab: sessionStorage "token", the page's variable token
    faults,
    given,            \* ghost: given[k] is the phone and user token k was made for
    ended             \* ghost: tokens deleted by a logout

redis == <<code, codeTtl, session, ttl>>
thread == <<pc, call, page, who, result, holder>>
tab == <<stored, loaded>>
ghosts == <<given, ended>>
vars == <<redis, rows, thread, tab, faults, ghosts>>

NoKey == -2
Forever == -1
Kinds == {"code", "login", "me", "logout"}
Places == {"idle", "send", "check", "find", "create", "save", "expire",
           "prehandle", "refresh", "handler", "completing", "answering"}
Call == [kind : Kinds, token : Tokens \cup {None},
         phone : Phones \cup {None}, code : Codes \cup {None}]

NoCall == [kind |-> "me", token |-> None, phone |-> None, code |-> None]

Init ==
    /\ code = [p \in Phones |-> None]
    /\ codeTtl = [p \in Phones |-> NoKey]
    /\ session = [k \in Tokens |-> 0]
    /\ ttl = [k \in Tokens |-> NoKey]
    /\ rows = <<>>
    /\ pc = [t \in Threads |-> "idle"]
    /\ call = [t \in Threads |-> NoCall]
    /\ page = [t \in Threads |-> None]
    /\ who = [t \in Threads |-> 0]
    /\ result = [t \in Threads |-> "none"]
    /\ holder = [t \in Threads |-> 0]
    /\ stored = [b \in Tabs |-> None]
    /\ loaded = [b \in Tabs |-> None]
    /\ faults = 0
    /\ given = [k \in Tokens |-> None]
    /\ ended = {}

-----------------------------------------------------------------------------
(* The tab.                                                                 *)

(* A page is loaded: common.js reads the token, and whatever the previous   *)
(* page had asked for has nobody left to answer to.                          *)
Navigate(b, token) ==
    /\ loaded' = [loaded EXCEPT ![b] = token]
    /\ page' = [t \in Threads |-> IF page[t] = b THEN None ELSE page[t]]

LoadPage(b) ==
    /\ Navigate(b, stored[b])
    /\ UNCHANGED <<redis, rows, pc, call, who, result, holder, stored, faults, ghosts>>

Submit(b, t, request, place) ==
    /\ pc[t] = "idle"
    /\ call' = [call EXCEPT ![t] = request]
    /\ page' = [page EXCEPT ![t] = b]
    /\ pc' = [pc EXCEPT ![t] = place]
    /\ UNCHANGED <<redis, rows, who, result, holder, tab, faults, ghosts>>

AskCode(b, t, p) ==
    Submit(b, t, [NoCall EXCEPT !.kind = "code", !.phone = p], "send")

(* The random token the login may draw is named here already. *)
Unused(k) == given[k] = None /\ \A t \in Threads : call[t].token # k

AskLogin(b, t, p, c) ==
    \E k \in Tokens :
        /\ Unused(k)
        /\ Submit(b, t, [kind |-> "login", token |-> k, phone |-> p, code |-> c], "check")

(* Calls behind the interceptor carry the page's token in their header. *)
AskMe(b, t) ==
    Submit(b, t, [NoCall EXCEPT !.kind = "me", !.token = loaded[b]], "prehandle")

AskLogout(b, t) ==
    Submit(b, t, [NoCall EXCEPT !.kind = "logout", !.token = loaded[b]], "prehandle")

-----------------------------------------------------------------------------
(* Commands.  One may fail without effect, or take effect and still throw.   *)

Fault == faults < MaxFaults /\ faults' = faults + 1

(* The advice turns an exception into an answer.  afterCompletion runs only  *)
(* for an interceptor whose preHandle returned true.                         *)
Throw(t) ==
    /\ pc' = [pc EXCEPT ![t] = IF pc[t] = "handler" THEN "completing" ELSE "answering"]
    /\ result' = [result EXCEPT ![t] = "error"]

Proceed(t, place) ==
    \/ /\ pc' = [pc EXCEPT ![t] = place]
       /\ UNCHANGED <<result, faults>>
    \/ Fault /\ Throw(t)

Reply(t, place, answer) ==
    /\ pc' = [pc EXCEPT ![t] = place]
    /\ result' = [result EXCEPT ![t] = answer]

ReplyAfter(t, place, answer) ==
    \/ Reply(t, place, answer) /\ UNCHANGED faults
    \/ Fault /\ Throw(t)

CommandFails(t) ==
    /\ pc[t] \notin {"idle", "completing", "answering"}
    /\ Fault
    /\ Throw(t)
    /\ UNCHANGED <<redis, rows, call, page, who, holder, tab, ghosts>>

-----------------------------------------------------------------------------
(* UserServiceImpl.sendCode and login.                                       *)

SendCode(t) ==
    /\ pc[t] = "send"
    /\ \E c \in Codes : code' = [code EXCEPT ![call[t].phone] = c]
    /\ codeTtl' = [codeTtl EXCEPT ![call[t].phone] = CodeTTL]
    /\ ReplyAfter(t, "answering", "ok")
    /\ UNCHANGED <<session, ttl, rows, call, page, who, holder, tab, ghosts>>

CodeMatches(t) == code[call[t].phone] # None /\ code[call[t].phone] = call[t].code

WrongCode(t) ==
    /\ pc[t] = "check"
    /\ ~CodeMatches(t)
    /\ Reply(t, "answering", "error")
    /\ UNCHANGED <<redis, rows, call, page, who, holder, tab, faults, ghosts>>

CheckCode(t) ==
    /\ pc[t] = "check"
    /\ CodeMatches(t)
    /\ pc' = [pc EXCEPT ![t] = "find"]
    /\ UNCHANGED <<redis, rows, call, page, who, result, holder, tab, faults, ghosts>>

UsersOf(p) == {u \in DOMAIN rows : rows[u] = p}

FindUser(t) ==
    /\ pc[t] = "find"
    /\ \E u \in UsersOf(call[t].phone) : who' = [who EXCEPT ![t] = u]
    /\ pc' = [pc EXCEPT ![t] = "save"]
    /\ UNCHANGED <<redis, rows, call, page, result, holder, tab, faults, ghosts>>

FindNobody(t) ==
    /\ pc[t] = "find"
    /\ UsersOf(call[t].phone) = {}
    /\ pc' = [pc EXCEPT ![t] = "create"]
    /\ UNCHANGED <<redis, rows, call, page, who, result, holder, tab, faults, ghosts>>

PhoneTakenNever(p) == FALSE

(* The unique key on tb_user.phone refuses a second row of one phone. *)
PhoneTaken(p) == UsersOf(p) # {}

CreateUser(t) ==
    /\ pc[t] = "create"
    /\ ~PhoneTaken(call[t].phone)
    /\ rows' = Append(rows, call[t].phone)
    /\ who' = [who EXCEPT ![t] = Len(rows) + 1]
    /\ Proceed(t, "save")
    /\ UNCHANGED <<redis, call, page, holder, tab, ghosts>>

CreateTwice(t) ==
    /\ pc[t] = "create"
    /\ PhoneTaken(call[t].phone)
    /\ Throw(t)
    /\ UNCHANGED <<redis, rows, call, page, who, holder, tab, faults, ghosts>>

(* HMSET creates the key without a time to live. *)
SaveSession(t) ==
    LET k == call[t].token IN
    /\ pc[t] = "save"
    /\ session' = [session EXCEPT ![k] = who[t]]
    /\ ttl' = [ttl EXCEPT ![k] = IF @ = NoKey THEN Forever ELSE @]
    /\ given' = [given EXCEPT ![k] = [phone |-> call[t].phone, user |-> who[t]]]
    /\ Proceed(t, "expire")
    /\ UNCHANGED <<code, codeTtl, rows, call, page, who, holder, tab, ended>>

ExpireUpserts(k) == ttl' = [ttl EXCEPT ![k] = SessionTTL]

(* EXPIRE does nothing to a key that is not there. *)
Expire(k) == ttl' = [ttl EXCEPT ![k] = IF @ = NoKey THEN NoKey ELSE SessionTTL]

ExpireSessionIgnored(t) ==
    /\ pc[t] = "expire"
    /\ \/ Expire(call[t].token) /\ UNCHANGED faults
       \/ Fault /\ UNCHANGED ttl
    /\ Reply(t, "answering", "ok")
    /\ UNCHANGED <<code, codeTtl, session, rows, call, page, who, holder, tab, ghosts>>

ExpireSession(t) ==
    /\ pc[t] = "expire"
    /\ Expire(call[t].token)
    /\ ReplyAfter(t, "answering", "ok")
    /\ UNCHANGED <<code, codeTtl, session, rows, call, page, who, holder, tab, ghosts>>

-----------------------------------------------------------------------------
(* LoginInterceptor.                                                         *)

HasSessionUnlessNull(t) == call[t].token # None

HasSession(t) == call[t].token # None /\ ttl[call[t].token] # NoKey

Unauthorized(t) ==
    /\ pc[t] = "prehandle"
    /\ ~HasSession(t)
    /\ Reply(t, "answering", "401")
    /\ UNCHANGED <<redis, rows, call, page, who, holder, tab, faults, ghosts>>

ReadSession(t) ==
    /\ pc[t] = "prehandle"
    /\ HasSession(t)
    /\ holder' = [holder EXCEPT ![t] = session[call[t].token]]
    /\ pc' = [pc EXCEPT ![t] = "refresh"]
    /\ UNCHANGED <<redis, rows, call, page, who, result, tab, faults, ghosts>>

Refresh(t) ==
    /\ pc[t] = "refresh"
    /\ Expire(call[t].token)
    /\ Proceed(t, "handler")
    /\ UNCHANGED <<code, codeTtl, session, rows, call, page, who, holder, tab, ghosts>>

(* UserController.me: the handler reads the user of its thread. *)
Me(t) ==
    /\ pc[t] = "handler"
    /\ call[t].kind = "me"
    /\ Reply(t, "completing", "ok")
    /\ UNCHANGED <<redis, rows, call, page, who, holder, tab, faults, ghosts>>

Logout(t) ==
    LET k == call[t].token IN
    /\ pc[t] = "handler"
    /\ call[t].kind = "logout"
    /\ session' = [session EXCEPT ![k] = 0]
    /\ ttl' = [ttl EXCEPT ![k] = NoKey]
    /\ ended' = ended \cup {k}
    /\ ReplyAfter(t, "completing", "ok")
    /\ UNCHANGED <<code, codeTtl, rows, call, page, who, holder, tab, given>>

AfterCompletionEmpty(t) ==
    /\ pc[t] = "completing"
    /\ pc' = [pc EXCEPT ![t] = "answering"]
    /\ UNCHANGED <<redis, rows, call, page, who, result, holder, tab, faults, ghosts>>

AfterCompletion(t) ==
    /\ pc[t] = "completing"
    /\ holder' = [holder EXCEPT ![t] = 0]
    /\ pc' = [pc EXCEPT ![t] = "answering"]
    /\ UNCHANGED <<redis, rows, call, page, who, result, tab, faults, ghosts>>

-----------------------------------------------------------------------------
(* The answer reaches the tab, or nobody: the page is gone, or axios gave up *)
(* after its two seconds.  The thread returns to its pool.                    *)

Release(t) ==
    /\ pc' = [pc EXCEPT ![t] = "idle"]
    /\ call' = [call EXCEPT ![t] = NoCall]
    /\ who' = [who EXCEPT ![t] = 0]
    /\ result' = [result EXCEPT ![t] = "none"]

Answer(t) ==
    LET b == page[t]
        token == IF call[t].kind = "login" THEN call[t].token ELSE None
    IN
    /\ pc[t] = "answering"
    /\ b # None
    /\ Release(t)
    /\ IF result[t] = "ok" /\ call[t].kind \in {"login", "logout"}
       THEN /\ stored' = [stored EXCEPT ![b] = token]
            /\ Navigate(b, token)
       ELSE /\ page' = [page EXCEPT ![t] = None]
            /\ UNCHANGED tab
    /\ UNCHANGED <<redis, rows, holder, faults, ghosts>>

AnswerLost(t) ==
    /\ pc[t] = "answering"
    /\ Release(t)
    /\ page' = [page EXCEPT ![t] = None]
    /\ UNCHANGED <<redis, rows, holder, tab, faults, ghosts>>

Crash(t) ==
    /\ pc[t] # "idle"
    /\ Fault
    /\ Release(t)
    /\ page' = [page EXCEPT ![t] = None]
    /\ holder' = [holder EXCEPT ![t] = 0]
    /\ UNCHANGED <<redis, rows, tab, ghosts>>

Aged(x) == IF x > 1 THEN x - 1 ELSE IF x = 1 THEN NoKey ELSE x

Tick ==
    /\ \/ \E p \in Phones : codeTtl[p] > 0
       \/ \E k \in Tokens : ttl[k] > 0
    /\ codeTtl' = [p \in Phones |-> Aged(codeTtl[p])]
    /\ code' = [p \in Phones |-> IF codeTtl'[p] = NoKey THEN None ELSE code[p]]
    /\ ttl' = [k \in Tokens |-> Aged(ttl[k])]
    /\ session' = [k \in Tokens |-> IF ttl'[k] = NoKey THEN 0 ELSE session[k]]
    /\ UNCHANGED <<rows, thread, tab, faults, ghosts>>

-----------------------------------------------------------------------------
Browse(b, t) ==
    \/ \E p \in Phones : AskCode(b, t, p)
    \/ \E p \in Phones, c \in Codes : AskLogin(b, t, p, c)
    \/ AskMe(b, t)
    \/ AskLogout(b, t)

Serve(t) ==
    \/ SendCode(t)
    \/ WrongCode(t) \/ CheckCode(t) \/ FindUser(t) \/ FindNobody(t)
    \/ CreateUser(t) \/ CreateTwice(t) \/ SaveSession(t) \/ ExpireSession(t)
    \/ Unauthorized(t) \/ ReadSession(t) \/ Refresh(t)
    \/ Me(t) \/ Logout(t) \/ AfterCompletion(t)
    \/ Answer(t) \/ AnswerLost(t)

Next ==
    \/ \E b \in Tabs : LoadPage(b)
    \/ \E b \in Tabs, t \in Threads : Browse(b, t)
    \/ \E t \in Threads : Serve(t) \/ CommandFails(t) \/ Crash(t)
    \/ Tick

Spec == Init /\ [][Next]_vars

-----------------------------------------------------------------------------
TypeOK ==
    /\ code \in [Phones -> Codes \cup {None}]
    /\ codeTtl \in [Phones -> {NoKey} \cup 1..CodeTTL]
    /\ session \in [Tokens -> Nat]
    /\ ttl \in [Tokens -> {NoKey, Forever} \cup 1..SessionTTL]
    /\ rows \in Seq(Phones)
    /\ pc \in [Threads -> Places]
    /\ call \in [Threads -> Call]
    /\ page \in [Threads -> Tabs \cup {None}]
    /\ who \in [Threads -> Nat]
    /\ result \in [Threads -> {"none", "ok", "error", "401"}]
    /\ holder \in [Threads -> Nat]
    /\ stored \in [Tabs -> Tokens \cup {None}]
    /\ loaded \in [Tabs -> Tokens \cup {None}]
    /\ faults \in 0..MaxFaults
    /\ given \in [Tokens -> Grant \cup {None}]
    /\ ended \subseteq Tokens

(* A handler behind the interceptor runs as the user the token of its own   *)
(* request was given to, whoever the pooled thread served before and whoever *)
(* it still remembers after a refresh that threw.                            *)
ActsAsCaller ==
    \A t \in Threads : pc[t] = "handler" =>
        /\ call[t].token # None
        /\ given[call[t].token] # None
        /\ holder[t] = given[call[t].token].user
        /\ holder[t] # 0

(* A logout is final: no refresh that was under way, and no later command,   *)
(* brings the session of its token back.                                     *)
LogoutIsFinal == \A k \in ended : ttl[k] = NoKey /\ session[k] = 0

(* A token that some tab has been told has a time to live or is gone: the    *)
(* sessions left without one by a failure between putAll and expire belong   *)
(* to nobody.                                                                *)
KnownSessionsExpire ==
    \A b \in Tabs : \A k \in {stored[b], loaded[b]} : k # None => ttl[k] # Forever

(* All logins of one phone are logins of one user, however they interleave   *)
(* with the registration of that phone and wherever it failed.               *)
OnePhoneOneUser ==
    \A k1, k2 \in Tokens :
        (/\ given[k1] # None
         /\ given[k2] # None
         /\ given[k1].phone = given[k2].phone) => given[k1].user = given[k2].user

(* A thread that waits in the pool remembers a user only where a failure kept *)
(* afterCompletion from running: preHandle saved the user, then threw.        *)
LeftoverNeedsFailure ==
    (\E t \in Threads : pc[t] = "idle" /\ holder[t] # 0) => faults > 0
=============================================================================
