--------------------------- MODULE SessionProofs ---------------------------
(***************************************************************************)
(* Proofs about Session, for any number of tabs, threads, tokens and phones.*)
(* Inv is the inductive invariant: what a thread may rely on at its place    *)
(* (ThreadInv), what a token in Redis and a grant have to do with each other *)
(* (TokenInv), what a tab was told (TabInv), that no two logins draw one     *)
(* token and no two rows carry one phone.                                    *)
(***************************************************************************)
EXTENDS Session, TLAPS

Drawing == {"check", "find", "create", "save"}
Logging == Drawing \cup {"expire"}
Inside == {"prehandle", "refresh", "handler", "completing"}

Token(t) == call[t].token

ThreadInv(t) ==
    /\ pc[t] = "idle" => Token(t) = None /\ call[t].kind # "login"
    /\ call[t].kind = "login" => Token(t) \in Tokens /\ call[t].phone \in Phones
    /\ pc[t] \in Logging => call[t].kind = "login"
    /\ pc[t] \in Inside \cup {"send"} => call[t].kind # "login"
    /\ pc[t] \in Drawing => given[Token(t)] = None
    /\ pc[t] = "save" => who[t] \in DOMAIN rows /\ rows[who[t]] = call[t].phone
    /\ pc[t] \in {"refresh", "handler"} =>
           /\ Token(t) # None
           /\ given[Token(t)] # None
           /\ holder[t] = given[Token(t)].user
    /\ (pc[t] = "answering" /\ call[t].kind = "login" /\ result[t] = "ok") =>
           given[Token(t)] # None /\ ttl[Token(t)] # Forever
    /\ pc[t] = "expire" => given[Token(t)] # None
    /\ (call[t].kind # "login" /\ Token(t) # None) => given[Token(t)] # None
    /\ (holder[t] # 0 /\ faults = 0) => pc[t] \in {"refresh", "handler", "completing"}

TokenInv(k) ==
    /\ ttl[k] # NoKey => given[k] # None /\ session[k] = given[k].user
    /\ ttl[k] = NoKey => session[k] = 0
    /\ given[k] # None => /\ given[k].user \in DOMAIN rows
                          /\ rows[given[k].user] = given[k].phone
    /\ k \in ended => ttl[k] = NoKey /\ given[k] # None

TabInv(b) ==
    /\ stored[b] # None => given[stored[b]] # None /\ ttl[stored[b]] # Forever
    /\ loaded[b] # None => given[loaded[b]] # None /\ ttl[loaded[b]] # Forever

OneDrawEach ==
    \A t1, t2 \in Threads :
        (call[t1].kind = "login" /\ call[t2].kind = "login" /\ Token(t1) = Token(t2))
            => t1 = t2

OneRowEach == \A u1, u2 \in DOMAIN rows : rows[u1] = rows[u2] => u1 = u2

Inv ==
    /\ TypeOK
    /\ \A t \in Threads : ThreadInv(t)
    /\ \A k \in Tokens : TokenInv(k)
    /\ \A b \in Tabs : TabInv(b)
    /\ OneDrawEach
    /\ OneRowEach

-----------------------------------------------------------------------------
(* Typing. *)

LEMMA InitTyped == Init => TypeOK
BY TimeAssumption DEF Init, TypeOK, Call, NoCall, Kinds, Places, NoKey

LEMMA ThrowTyped ==
    ASSUME TypeOK, NEW t \in Threads, Throw(t)
    PROVE  /\ pc' \in [Threads -> Places]
           /\ result' \in [Threads -> {"none", "ok", "error", "401"}]
BY DEF TypeOK, Throw, Places

LEMMA FaultTyped ==
    ASSUME TypeOK, Fault
    PROVE  faults' \in 0..MaxFaults
BY TimeAssumption DEF TypeOK, Fault

LEMMA ProceedTyped ==
    ASSUME TypeOK, NEW t \in Threads, NEW place \in Places, Proceed(t, place)
    PROVE  /\ pc' \in [Threads -> Places]
           /\ result' \in [Threads -> {"none", "ok", "error", "401"}]
           /\ faults' \in 0..MaxFaults
BY ThrowTyped, FaultTyped DEF TypeOK, Proceed

LEMMA ReplyTyped ==
    ASSUME TypeOK, NEW t \in Threads, NEW place \in Places,
           NEW answer \in {"none", "ok", "error", "401"}, Reply(t, place, answer)
    PROVE  /\ pc' \in [Threads -> Places]
           /\ result' \in [Threads -> {"none", "ok", "error", "401"}]
BY DEF TypeOK, Reply

LEMMA ReplyAfterTyped ==
    ASSUME TypeOK, NEW t \in Threads, NEW place \in Places,
           NEW answer \in {"none", "ok", "error", "401"}, ReplyAfter(t, place, answer)
    PROVE  /\ pc' \in [Threads -> Places]
           /\ result' \in [Threads -> {"none", "ok", "error", "401"}]
           /\ faults' \in 0..MaxFaults
BY ReplyTyped, ThrowTyped, FaultTyped DEF TypeOK, ReplyAfter

LEMMA ReleaseTyped ==
    ASSUME TypeOK, NEW t \in Threads, Release(t)
    PROVE  /\ pc' \in [Threads -> Places]
           /\ call' \in [Threads -> Call]
           /\ who' \in [Threads -> Nat]
           /\ result' \in [Threads -> {"none", "ok", "error", "401"}]
<1>1. NoCall \in Call
  BY DEF NoCall, Call, Kinds
<1>2. "idle" \in Places
  BY DEF Places
<1> QED
  BY <1>1, <1>2 DEF TypeOK, Release

LEMMA ExpireTyped ==
    ASSUME TypeOK, NEW k, Expire(k)
    PROVE  ttl' \in [Tokens -> {NoKey, Forever} \cup 1..SessionTTL]
<1>1. SessionTTL \in 1..SessionTTL
  BY TimeAssumption
<1>2. \A x \in Tokens : ttl'[x] \in {ttl[x], NoKey, SessionTTL}
  BY DEF TypeOK, Expire
<1> QED
  BY <1>1, <1>2 DEF TypeOK, Expire

LEMMA SubmitTyped ==
    ASSUME TypeOK, NEW t \in Threads, NEW b \in Tabs, NEW request \in Call,
           NEW place \in Places, Submit(b, t, request, place)
    PROVE  TypeOK'
BY DEF TypeOK, Submit, redis, tab, ghosts

LEMMA BrowseTyped ==
    ASSUME TypeOK, NEW b \in Tabs, NEW t \in Threads, Browse(b, t)
    PROVE  TypeOK'
<1>1. ASSUME NEW p \in Phones, AskCode(b, t, p)  PROVE TypeOK'
  <2>1. [NoCall EXCEPT !.kind = "code", !.phone = p] \in Call
    BY DEF NoCall, Call, Kinds
  <2>2. "send" \in Places
    BY DEF Places
  <2> QED
    BY <1>1, <2>1, <2>2, SubmitTyped DEF AskCode
<1>2. ASSUME NEW p \in Phones, NEW c \in Codes, AskLogin(b, t, p, c)  PROVE TypeOK'
  <2>1. PICK k \in Tokens :
            Submit(b, t, [kind |-> "login", token |-> k, phone |-> p, code |-> c], "check")
    BY <1>2 DEF AskLogin
  <2>2. [kind |-> "login", token |-> k, phone |-> p, code |-> c] \in Call
    BY DEF Call, Kinds
  <2>3. "check" \in Places
    BY DEF Places
  <2> QED
    BY <2>1, <2>2, <2>3, SubmitTyped
<1>3. loaded[b] \in Tokens \cup {None} /\ "prehandle" \in Places
  BY DEF TypeOK, Places
<1>4. ASSUME AskMe(b, t)  PROVE TypeOK'
  <2>1. [NoCall EXCEPT !.kind = "me", !.token = loaded[b]] \in Call
    BY <1>3 DEF NoCall, Call, Kinds
  <2> QED
    BY <1>3, <1>4, <2>1, SubmitTyped DEF AskMe
<1>5. ASSUME AskLogout(b, t)  PROVE TypeOK'
  <2>1. [NoCall EXCEPT !.kind = "logout", !.token = loaded[b]] \in Call
    BY <1>3 DEF NoCall, Call, Kinds
  <2> QED
    BY <1>3, <1>5, <2>1, SubmitTyped DEF AskLogout
<1> QED
  BY <1>1, <1>2, <1>4, <1>5 DEF Browse

LEMMA CommandTyped ==
    ASSUME TypeOK, NEW t \in Threads,
           \/ SendCode(t) \/ CreateUser(t) \/ SaveSession(t)
           \/ ExpireSession(t) \/ Refresh(t) \/ Logout(t),
           pc[t] \in {"create", "save"} => call[t].phone \in Phones,
           pc[t] = "handler" => call[t].token \in Tokens
    PROVE  TypeOK'
<1> USE DEF TypeOK, redis, tab, ghosts
<1>0. {"answering", "save", "expire", "handler", "completing"} \subseteq Places
  BY DEF Places
<1>1. ASSUME SendCode(t)  PROVE TypeOK'
  <2>1. code' \in [Phones -> Codes \cup {None}]
    BY <1>1 DEF SendCode
  <2>2. codeTtl' \in [Phones -> {NoKey} \cup 1..CodeTTL]
    <3>1. CodeTTL \in 1..CodeTTL
      BY TimeAssumption
    <3>2. \A p \in Phones : codeTtl'[p] \in {codeTtl[p], CodeTTL}
      BY <1>1 DEF SendCode
    <3> QED
      BY <1>1, <3>1, <3>2 DEF SendCode
  <2> QED
    BY <1>0, <1>1, <2>1, <2>2, ReplyAfterTyped DEF SendCode
<1>2. ASSUME CreateUser(t)  PROVE TypeOK'
  <2>1. rows' \in Seq(Phones) /\ who' \in [Threads -> Nat]
    BY <1>2 DEF CreateUser
  <2> QED
    BY <1>0, <1>2, <2>1, ProceedTyped DEF CreateUser
<1>3. ASSUME SaveSession(t)  PROVE TypeOK'
  <2>1. session' \in [Tokens -> Nat]
    BY <1>3 DEF SaveSession
  <2>2. ttl' \in [Tokens -> {NoKey, Forever} \cup 1..SessionTTL]
    BY <1>3 DEF SaveSession
  <2>3. given' \in [Tokens -> Grant \cup {None}]
    BY <1>3 DEF SaveSession, Grant
  <2> QED
    BY <1>0, <1>3, <2>1, <2>2, <2>3, ProceedTyped DEF SaveSession
<1>4. ASSUME ExpireSession(t)  PROVE TypeOK'
  BY <1>0, <1>4, ExpireTyped, ReplyAfterTyped DEF ExpireSession
<1>5. ASSUME Refresh(t)  PROVE TypeOK'
  BY <1>0, <1>5, ExpireTyped, ProceedTyped DEF Refresh
<1>6. ASSUME Logout(t)  PROVE TypeOK'
  <2>1. ended' \subseteq Tokens
    BY <1>6 DEF Logout
  <2>2. session' \in [Tokens -> Nat]
    BY <1>6 DEF Logout
  <2>3. ttl' \in [Tokens -> {NoKey, Forever} \cup 1..SessionTTL]
    BY <1>6 DEF Logout
  <2> QED
    BY <1>0, <1>6, <2>1, <2>2, <2>3, ReplyAfterTyped DEF Logout
<1> QED
  BY <1>1, <1>2, <1>3, <1>4, <1>5, <1>6

LEMMA QuietTyped ==
    ASSUME TypeOK, NEW t \in Threads,
           \/ CommandFails(t) \/ WrongCode(t) \/ CheckCode(t) \/ FindUser(t)
           \/ FindNobody(t) \/ CreateTwice(t) \/ Unauthorized(t)
           \/ ReadSession(t) \/ Me(t) \/ AfterCompletion(t)
    PROVE  TypeOK'
<1> USE DEF TypeOK, redis, tab, ghosts
<1>0. {"answering", "find", "save", "create", "refresh", "completing"} \subseteq Places
  BY DEF Places
<1>1. CASE CommandFails(t)
  BY <1>1, ThrowTyped, FaultTyped DEF CommandFails
<1>2. CASE WrongCode(t)
  BY <1>0, <1>2, ReplyTyped DEF WrongCode
<1>3. CASE CheckCode(t)
  BY <1>0, <1>3 DEF CheckCode
<1>4. CASE FindUser(t)
  <2>1. who' \in [Threads -> Nat]
    BY <1>4 DEF FindUser, UsersOf
  <2> QED
    BY <1>0, <1>4, <2>1 DEF FindUser
<1>5. CASE FindNobody(t)
  BY <1>0, <1>5 DEF FindNobody
<1>6. CASE CreateTwice(t)
  BY <1>6, ThrowTyped DEF CreateTwice
<1>7. CASE Unauthorized(t)
  BY <1>0, <1>7, ReplyTyped DEF Unauthorized
<1>8. CASE ReadSession(t)
  <2>1. call[t].token \in Tokens
    BY <1>8 DEF ReadSession, HasSession, Call
  <2> QED
    BY <1>0, <1>8, <2>1 DEF ReadSession
<1>9. CASE Me(t)
  BY <1>0, <1>9, ReplyTyped DEF Me
<1>10. CASE AfterCompletion(t)
  BY <1>0, <1>10 DEF AfterCompletion
<1> QED
  BY <1>1, <1>2, <1>3, <1>4, <1>5, <1>6, <1>7, <1>8, <1>9, <1>10

LEMMA AnswerTyped ==
    ASSUME TypeOK, NEW t \in Threads, Answer(t) \/ AnswerLost(t) \/ Crash(t)
    PROVE  TypeOK'
<1> USE DEF TypeOK, redis, tab, ghosts
<1>1. CASE Answer(t)
  <2>1. call[t].token \in Tokens \cup {None}
    BY DEF Call
  <2>2. /\ stored' \in [Tabs -> Tokens \cup {None}]
        /\ loaded' \in [Tabs -> Tokens \cup {None}]
        /\ page' \in [Threads -> Tabs \cup {None}]
    BY <1>1, <2>1 DEF Answer, Navigate
  <2> QED
    BY <1>1, <2>2, ReleaseTyped DEF Answer
<1>2. CASE AnswerLost(t)
  BY <1>2, ReleaseTyped DEF AnswerLost
<1>3. CASE Crash(t)
  BY <1>3, ReleaseTyped, FaultTyped DEF Crash
<1> QED
  BY <1>1, <1>2, <1>3

LEMMA LoadPageTyped ==
    ASSUME TypeOK, NEW b \in Tabs, LoadPage(b)
    PROVE  TypeOK'
BY DEF TypeOK, LoadPage, Navigate, redis, ghosts

LEMMA TickTyped ==
    ASSUME TypeOK, Tick
    PROVE  TypeOK'
<1> USE DEF TypeOK, Tick, thread, tab, ghosts
<1>1. codeTtl' \in [Phones -> {NoKey} \cup 1..CodeTTL]
  BY TimeAssumption DEF Aged, NoKey
<1>2. ttl' \in [Tokens -> {NoKey, Forever} \cup 1..SessionTTL]
  BY TimeAssumption DEF Aged, NoKey, Forever
<1> QED
  BY <1>1, <1>2

-----------------------------------------------------------------------------
(* Steps of one thread that leave users, sessions and tabs alone. *)

SameThread(x) ==
    /\ pc'[x] = pc[x] /\ call'[x] = call[x] /\ who'[x] = who[x]
    /\ result'[x] = result[x] /\ holder'[x] = holder[x]

LEMMA OtherThread ==
    ASSUME NEW x \in Threads, ThreadInv(x), SameThread(x),
           UNCHANGED <<ttl, rows, given>>, faults' = 0 => faults = 0
    PROVE  ThreadInv(x)'
BY DEF ThreadInv, Token, SameThread

LEMMA LocalStep ==
    ASSUME Inv, NEW t \in Threads, TypeOK',
           UNCHANGED <<session, ttl, rows, given, ended, stored, loaded>>,
           \A x \in Threads : x # t => SameThread(x),
           faults' = 0 => faults = 0,
           ThreadInv(t)', OneDrawEach'
    PROVE  Inv'
<1>1. \A x \in Threads : ThreadInv(x)'
  BY OtherThread DEF Inv
<1>2. \A k \in Tokens : TokenInv(k)'
  BY DEF Inv, TokenInv
<1>3. \A b \in Tabs : TabInv(b)'
  BY DEF Inv, TabInv
<1>4. OneRowEach'
  BY DEF Inv, OneRowEach
<1> QED
  BY <1>1, <1>2, <1>3, <1>4 DEF Inv

LEMMA SameCalls ==
    ASSUME OneDrawEach, call' = call
    PROVE  OneDrawEach'
BY DEF OneDrawEach, Token

LEMMA FaultCounts ==
    ASSUME TypeOK, Fault
    PROVE  faults' # 0
BY TimeAssumption DEF TypeOK, Fault

(* What a thread is left with after it threw. *)
LEMMA ThrowKeeps ==
    ASSUME TypeOK, NEW t \in Threads, ThreadInv(t), Throw(t),
           pc[t] # "idle", UNCHANGED <<call, who, holder, rows>>,
           given'[Token(t)] = given[Token(t)] \/ given'[Token(t)] # None,
           holder[t] # 0 => faults' # 0 \/ pc[t] = "handler"
    PROVE  ThreadInv(t)'
BY DEF TypeOK, ThreadInv, Throw, Token, Logging, Drawing, Inside

LEMMA CommandFailsKeeps ==
    ASSUME Inv, NEW t \in Threads, CommandFails(t), TypeOK'
    PROVE  Inv'
<1>1. ThreadInv(t)'
  BY FaultCounts, ThrowKeeps DEF Inv, CommandFails, ghosts
<1>2. \A x \in Threads : x # t => SameThread(x)
  BY DEF Inv, TypeOK, CommandFails, Throw, SameThread
<1>3. faults' # 0
  BY FaultCounts DEF Inv, CommandFails
<1>4. OneDrawEach'
  BY SameCalls DEF Inv, CommandFails
<1> QED
  BY <1>1, <1>2, <1>3, <1>4, LocalStep DEF CommandFails, redis, tab, ghosts

LEMMA SendCodeKeeps ==
    ASSUME Inv, NEW t \in Threads, SendCode(t), TypeOK'
    PROVE  Inv'
<1>1. ThreadInv(t)'
  <2>1. CASE Reply(t, "answering", "ok") /\ UNCHANGED faults
    BY <2>1 DEF Inv, TypeOK, SendCode, Reply, ThreadInv, Token, Logging, Drawing, Inside, ghosts
  <2>2. CASE Fault /\ Throw(t)
    BY <2>2, FaultCounts, ThrowKeeps DEF Inv, SendCode, ghosts
  <2> QED
    BY <2>1, <2>2 DEF SendCode, ReplyAfter
<1>2. \A x \in Threads : x # t => SameThread(x)
  BY DEF Inv, TypeOK, SendCode, ReplyAfter, Reply, Throw, SameThread
<1>3. faults' = 0 => faults = 0
  BY FaultCounts DEF Inv, SendCode, ReplyAfter
<1>4. OneDrawEach'
  BY SameCalls DEF Inv, SendCode
<1> QED
  BY <1>1, <1>2, <1>3, <1>4, LocalStep DEF SendCode, tab, ghosts

LEMMA LoginReadsKeep ==
    ASSUME Inv, NEW t \in Threads, TypeOK',
           \/ WrongCode(t) \/ CheckCode(t) \/ FindUser(t) \/ FindNobody(t)
    PROVE  Inv'
<1> USE DEF WrongCode, CheckCode, FindUser, FindNobody
<1>1. ThreadInv(t)'
  <2>1. CASE WrongCode(t)
    BY <2>1 DEF Inv, TypeOK, Reply, ThreadInv, Token, Logging, Drawing, Inside, ghosts
  <2>2. CASE CheckCode(t) \/ FindNobody(t)
    BY <2>2 DEF Inv, TypeOK, ThreadInv, Token, Logging, Drawing, Inside, ghosts
  <2>3. CASE FindUser(t)
    BY <2>3 DEF Inv, TypeOK, UsersOf, ThreadInv, Token, Logging, Drawing, Inside, ghosts
  <2> QED
    BY <2>1, <2>2, <2>3
<1>2. \A x \in Threads : x # t => SameThread(x)
  BY DEF Inv, TypeOK, Reply, SameThread
<1>3. faults' = faults /\ call' = call
  OBVIOUS
<1> QED
  BY <1>1, <1>2, <1>3, SameCalls, LocalStep DEF Inv, redis, tab, ghosts

LEMMA CreateTwiceKeeps ==
    ASSUME Inv, NEW t \in Threads, CreateTwice(t), TypeOK'
    PROVE  Inv'
<1>1. holder[t] # 0 => faults' # 0
  BY DEF Inv, ThreadInv, CreateTwice, Inside
<1>2. ThreadInv(t)'
  BY <1>1, ThrowKeeps DEF Inv, CreateTwice, ghosts
<1>3. \A x \in Threads : x # t => SameThread(x)
  BY DEF Inv, TypeOK, CreateTwice, Throw, SameThread
<1>4. OneDrawEach'
  BY SameCalls DEF Inv, CreateTwice
<1> QED
  BY <1>2, <1>3, <1>4, LocalStep DEF CreateTwice, redis, tab, ghosts

LEMMA InterceptorKeeps ==
    ASSUME Inv, NEW t \in Threads, TypeOK',
           Unauthorized(t) \/ ReadSession(t) \/ Me(t) \/ AfterCompletion(t)
    PROVE  Inv'
<1> USE DEF Unauthorized, ReadSession, Me, AfterCompletion
<1>1. ThreadInv(t)'
  <2>1. CASE Unauthorized(t)
    BY <2>1 DEF Inv, TypeOK, Reply, ThreadInv, Token, Logging, Drawing, Inside, ghosts
  <2>2. CASE ReadSession(t)
    <3>1. Token(t) \in Tokens /\ ttl[Token(t)] # NoKey
      BY <2>2 DEF Inv, TypeOK, Call, HasSession, Token
    <3>2. given[Token(t)] # None /\ session[Token(t)] = given[Token(t)].user
      BY <3>1 DEF Inv, TokenInv
    <3>3. /\ pc[t] = "prehandle" /\ pc'[t] = "refresh"
          /\ holder'[t] = session[Token(t)]
          /\ Token(t)' = Token(t)
          /\ UNCHANGED <<call, given, faults>>
      BY <2>2 DEF Inv, TypeOK, Token, ghosts
    <3> QED
      BY <3>1, <3>2, <3>3, NoneAssumption DEF Inv, ThreadInv, Token, Logging, Drawing, Inside
  <2>3. CASE Me(t)
    BY <2>3 DEF Inv, TypeOK, Reply, ThreadInv, Token, Logging, Drawing, Inside, ghosts
  <2>4. CASE AfterCompletion(t)
    BY <2>4 DEF Inv, TypeOK, ThreadInv, Token, Logging, Drawing, Inside, ghosts
  <2> QED
    BY <2>1, <2>2, <2>3, <2>4
<1>2. \A x \in Threads : x # t => SameThread(x)
  BY DEF Inv, TypeOK, Reply, SameThread
<1>3. faults' = faults /\ call' = call
  OBVIOUS
<1> QED
  BY <1>1, <1>2, <1>3, SameCalls, LocalStep DEF Inv, redis, tab, ghosts

LEMMA SubmitKeeps ==
    ASSUME Inv, NEW t \in Threads, NEW b \in Tabs, NEW request \in Call, NEW place,
           Submit(b, t, request, place), TypeOK',
           \/ request.kind = "code" /\ request.token = None /\ place = "send"
           \/ /\ request.kind \in {"me", "logout"} /\ request.token = loaded[b]
              /\ place = "prehandle"
           \/ /\ request.kind = "login" /\ place = "check" /\ request.phone \in Phones
              /\ request.token \in Tokens /\ Unused(request.token)
    PROVE  Inv'
<1>1. ThreadInv(t)'
  <2>1. pc'[t] = place /\ call'[t] = request /\ UNCHANGED <<who, result, holder, rows, given, ttl, faults>>
    BY DEF Inv, TypeOK, Submit, redis, ghosts
  <2>2. holder[t] # 0 => faults # 0
    BY DEF Inv, ThreadInv, Submit, Inside
  <2>3. loaded[b] # None => given[loaded[b]] # None
    BY DEF Inv, TabInv
  <2> QED
    BY <2>1, <2>2, <2>3 DEF ThreadInv, Token, Logging, Drawing, Inside, Unused
<1>2. \A x \in Threads : x # t => SameThread(x)
  BY DEF Inv, TypeOK, Submit, SameThread
<1>3. OneDrawEach'
  <2> SUFFICES ASSUME NEW t1 \in Threads, NEW t2 \in Threads,
                      call'[t1].kind = "login", call'[t2].kind = "login",
                      call'[t1].token = call'[t2].token
               PROVE  t1 = t2
    BY DEF OneDrawEach, Token
  <2>1. \A x \in Threads : x # t => call'[x] = call[x]
    BY <1>2 DEF SameThread
  <2>2. call'[t] = request
    BY DEF Inv, TypeOK, Submit
  <2>3. request.kind = "login" => \A x \in Threads : call[x].token # request.token
    BY DEF Unused
  <2> QED
    BY <2>1, <2>2, <2>3 DEF Inv, OneDrawEach, Token
<1> QED
  BY <1>1, <1>2, <1>3, LocalStep DEF Submit, redis, tab, ghosts

LEMMA BrowseKeeps ==
    ASSUME Inv, NEW b \in Tabs, NEW t \in Threads, Browse(b, t), TypeOK'
    PROVE  Inv'
<1>1. ASSUME NEW p \in Phones, AskCode(b, t, p)  PROVE Inv'
  <2>1. [NoCall EXCEPT !.kind = "code", !.phone = p] \in Call
    BY DEF NoCall, Call, Kinds
  <2> QED
    BY <1>1, <2>1, SubmitKeeps DEF AskCode, NoCall
<1>2. ASSUME NEW p \in Phones, NEW c \in Codes, AskLogin(b, t, p, c)  PROVE Inv'
  <2>1. PICK k \in Tokens :
            /\ Unused(k)
            /\ Submit(b, t, [kind |-> "login", token |-> k, phone |-> p, code |-> c], "check")
    BY <1>2 DEF AskLogin
  <2>2. [kind |-> "login", token |-> k, phone |-> p, code |-> c] \in Call
    BY DEF Call, Kinds
  <2> QED
    BY <2>1, <2>2, SubmitKeeps
<1>3. loaded[b] \in Tokens \cup {None}
  BY DEF Inv, TypeOK
<1>4. ASSUME AskMe(b, t)  PROVE Inv'
  <2>1. [NoCall EXCEPT !.kind = "me", !.token = loaded[b]] \in Call
    BY <1>3 DEF NoCall, Call, Kinds
  <2> QED
    BY <1>4, <2>1, SubmitKeeps DEF AskMe, NoCall
<1>5. ASSUME AskLogout(b, t)  PROVE Inv'
  <2>1. [NoCall EXCEPT !.kind = "logout", !.token = loaded[b]] \in Call
    BY <1>3 DEF NoCall, Call, Kinds
  <2> QED
    BY <1>5, <2>1, SubmitKeeps DEF AskLogout, NoCall
<1> QED
  BY <1>1, <1>2, <1>4, <1>5 DEF Browse

LEMMA ReleaseKeeps ==
    ASSUME Inv, NEW t \in Threads, Release(t), pc[t] # "idle",
           UNCHANGED <<session, ttl, rows, given, ended, stored, loaded>>,
           \A x \in Threads : x # t => holder'[x] = holder[x],
           faults' = 0 => faults = 0,
           holder'[t] # 0 => faults' # 0, TypeOK'
    PROVE  Inv'
<1>1. \A x \in Threads : x # t => SameThread(x)
  BY DEF Inv, TypeOK, Release, SameThread
<1>2. pc'[t] = "idle" /\ call'[t] = NoCall
  BY DEF Inv, TypeOK, Release
<1>3. ThreadInv(t)'
  BY <1>2 DEF ThreadInv, Token, NoCall, Logging, Drawing, Inside
<1>4. OneDrawEach'
  BY <1>1, <1>2 DEF Inv, OneDrawEach, Token, SameThread, NoCall
<1> QED
  BY <1>1, <1>3, <1>4, LocalStep

LEMMA LeaveKeeps ==
    ASSUME Inv, NEW t \in Threads, AnswerLost(t) \/ Crash(t), TypeOK'
    PROVE  Inv'
<1>1. CASE AnswerLost(t)
  <2>1. holder[t] # 0 => faults # 0
    BY <1>1 DEF Inv, ThreadInv, AnswerLost, Inside
  <2> QED
    BY <1>1, <2>1, ReleaseKeeps DEF AnswerLost, redis, tab, ghosts
<1>2. CASE Crash(t)
  <2>1. faults' # 0
    BY <1>2, FaultCounts DEF Inv, Crash
  <2> QED
    BY <1>2, <2>1, ReleaseKeeps DEF Inv, TypeOK, Crash, redis, tab, ghosts
<1> QED
  BY <1>1, <1>2

-----------------------------------------------------------------------------
(* Steps that change users, sessions or tabs. *)

RowsGrow == \A u \in DOMAIN rows : u \in DOMAIN rows' /\ rows'[u] = rows[u]

LEMMA Bystander ==
    ASSUME NEW x \in Threads, ThreadInv(x), SameThread(x), RowsGrow,
           given'[Token(x)] = given[Token(x)],
           ttl'[Token(x)] = ttl[Token(x)] \/ ttl'[Token(x)] # Forever,
           faults' = 0 => faults = 0
    PROVE  ThreadInv(x)'
BY DEF ThreadInv, Token, SameThread, RowsGrow

LEMMA ProceedKeeps ==
    ASSUME TypeOK, NEW t \in Threads, NEW place, Proceed(t, place)
    PROVE  /\ \A x \in Threads : x # t => pc'[x] = pc[x] /\ result'[x] = result[x]
           /\ faults' = 0 => faults = 0
           /\ \/ pc'[t] = place /\ result' = result /\ faults' = faults
              \/ Throw(t) /\ faults' # 0
BY FaultCounts DEF TypeOK, Proceed, Throw

LEMMA ReplyAfterKeeps ==
    ASSUME TypeOK, NEW t \in Threads, NEW place, NEW answer, ReplyAfter(t, place, answer)
    PROVE  /\ \A x \in Threads : x # t => pc'[x] = pc[x] /\ result'[x] = result[x]
           /\ faults' = 0 => faults = 0
           /\ \/ pc'[t] = place /\ result'[t] = answer /\ faults' = faults
              \/ Throw(t) /\ faults' # 0
BY FaultCounts DEF TypeOK, ReplyAfter, Reply, Throw

LEMMA GrantIsNotNone ==
    ASSUME NEW p \in Phones, NEW u \in Nat, NEW g, g = [phone |-> p, user |-> u]
    PROVE  g # None
BY GrantAssumption DEF Grant

LEMMA CreateUserKeeps ==
    ASSUME Inv, NEW t \in Threads, CreateUser(t), TypeOK'
    PROVE  Inv'
<1>0. TypeOK /\ ThreadInv(t) /\ pc[t] = "create" /\ Proceed(t, "save")
  BY DEF Inv, CreateUser
<1>1. /\ rows \in Seq(Phones) /\ call[t].phone \in Phones
      /\ rows' = Append(rows, call[t].phone)
      /\ \A u \in DOMAIN rows : rows[u] # call[t].phone
  BY <1>0 DEF TypeOK, ThreadInv, Logging, Drawing, CreateUser, PhoneTaken, UsersOf
<1>2. RowsGrow
  BY <1>1 DEF RowsGrow
<1>3. Len(rows) + 1 \in DOMAIN rows' /\ rows'[Len(rows) + 1] = call[t].phone
  BY <1>1
<1>4. OneRowEach'
  <2>1. \A u \in DOMAIN rows' : u \in DOMAIN rows \/ u = Len(rows) + 1
    BY <1>1
  <2> QED
    BY <1>1, <1>2, <1>3, <2>1 DEF Inv, OneRowEach, RowsGrow
<1>5. UNCHANGED <<session, ttl, given, ended, stored, loaded, call, holder>>
  BY DEF CreateUser, redis, tab, ghosts
<1>6. \A k \in Tokens : TokenInv(k)'
  BY <1>2, <1>5 DEF Inv, TokenInv, RowsGrow
<1>7. \A b \in Tabs : TabInv(b)'
  BY <1>5 DEF Inv, TabInv
<1>8. \A x \in Threads : x # t => SameThread(x)
  BY <1>0, <1>5, ProceedKeeps DEF TypeOK, CreateUser, SameThread
<1>9. \A x \in Threads : x # t => ThreadInv(x)'
  BY <1>0, <1>2, <1>5, <1>8, Bystander, ProceedKeeps DEF Inv, Token
<1>10. ThreadInv(t)'
  <2>1. who'[t] = Len(rows) + 1
    BY <1>0 DEF TypeOK, CreateUser
  <2>2. CASE pc'[t] = "save" /\ faults' = faults /\ result' = result
    BY <1>0, <1>3, <1>5, <2>1, <2>2 DEF ThreadInv, Token, Logging, Drawing, Inside
  <2>3. CASE Throw(t) /\ faults' # 0
    <3>1. pc'[t] = "answering" /\ result'[t] = "error"
      BY <1>0, <2>3 DEF TypeOK, Throw
    <3> QED
      BY <1>0, <1>5, <2>3, <3>1 DEF ThreadInv, Token, Logging, Drawing, Inside
  <2> QED
    BY <1>0, <2>2, <2>3, ProceedKeeps
<1> QED
  BY <1>4, <1>5, <1>6, <1>7, <1>9, <1>10, SameCalls DEF Inv

LEMMA SaveSessionKeeps ==
    ASSUME Inv, NEW t \in Threads, SaveSession(t), TypeOK'
    PROVE  Inv'
<1>0. TypeOK /\ ThreadInv(t) /\ pc[t] = "save" /\ Proceed(t, "expire")
  BY DEF Inv, SaveSession
<1>k. PICK k \in Tokens : k = Token(t)
  BY <1>0 DEF ThreadInv, Logging, Drawing
<1>1. /\ call[t].phone \in Phones /\ given[k] = None /\ call[t].kind = "login"
      /\ who[t] \in DOMAIN rows /\ rows[who[t]] = call[t].phone
  BY <1>0, <1>k DEF ThreadInv, Token, Logging, Drawing
<1>2. ttl[k] = NoKey /\ k \notin ended
  BY <1>1 DEF Inv, TokenInv
<1>3. UNCHANGED <<rows, call, who, holder, stored, loaded, ended>>
  BY DEF SaveSession, tab
<1>4. /\ session'[k] = who[t] /\ ttl'[k] = Forever
      /\ given'[k] = [phone |-> call[t].phone, user |-> who[t]]
      /\ given'[k] # None
  <2>1. given'[k] = [phone |-> call[t].phone, user |-> who[t]]
    BY <1>0, <1>1, <1>2, <1>k DEF TypeOK, SaveSession, Token
  <2>2. session'[k] = who[t] /\ ttl'[k] = Forever
    BY <1>0, <1>1, <1>2, <1>k DEF TypeOK, SaveSession, Token
  <2>3. given'[k] # None
    BY <1>0, <1>1, <2>1, GrantIsNotNone DEF TypeOK
  <2> QED
    BY <2>1, <2>2, <2>3
<1>5. \A j \in Tokens \cup {None} :
          j # k => session'[j] = session[j] /\ ttl'[j] = ttl[j] /\ given'[j] = given[j]
  BY <1>0, <1>1, <1>k DEF TypeOK, SaveSession, Token
<1>6. \A j \in Tokens : TokenInv(j)'
  <2>1. TokenInv(k)'
    <3>1. given'[k].user = who[t] /\ given'[k].phone = call[t].phone
      BY <1>4
    <3>2. ttl'[k] # NoKey
      BY <1>4 DEF NoKey, Forever
    <3> QED
      BY <1>1, <1>2, <1>3, <1>4, <3>1, <3>2 DEF TokenInv
  <2>2. \A j \in Tokens : j # k => TokenInv(j)'
    BY <1>3, <1>5 DEF Inv, TokenInv
  <2> QED
    BY <2>1, <2>2
<1>7. \A b \in Tabs : TabInv(b)'
  <2> SUFFICES ASSUME NEW b \in Tabs  PROVE TabInv(b)'
    OBVIOUS
  <2>1. /\ stored[b] \in Tokens \cup {None} /\ loaded[b] \in Tokens \cup {None}
        /\ stored[b] # k /\ loaded[b] # k
    BY <1>0, <1>1, NoneAssumption DEF Inv, TypeOK, TabInv
  <2> QED
    BY <1>3, <1>5, <2>1 DEF Inv, TabInv
<1>8. \A x \in Threads : x # t => SameThread(x)
  BY <1>0, <1>3, ProceedKeeps DEF SameThread
<1>9. \A x \in Threads : x # t => ThreadInv(x)'
  <2> SUFFICES ASSUME NEW x \in Threads, x # t  PROVE ThreadInv(x)'
    OBVIOUS
  <2>1. Token(x) \in Tokens \cup {None} /\ Token(x) # k
    BY <1>0, <1>1, <1>k, NoneAssumption DEF Inv, TypeOK, Call, ThreadInv, OneDrawEach, Token
  <2>2. given'[Token(x)] = given[Token(x)] /\ ttl'[Token(x)] = ttl[Token(x)]
    BY <1>5, <2>1
  <2> QED
    BY <1>0, <1>3, <1>8, <2>2, Bystander, ProceedKeeps DEF Inv, RowsGrow
<1>10. ThreadInv(t)'
  <2>1. CASE pc'[t] = "expire" /\ faults' = faults /\ result' = result
    BY <1>0, <1>1, <1>3, <1>4, <1>k, <2>1 DEF ThreadInv, Token, Logging, Drawing, Inside
  <2>2. CASE Throw(t) /\ faults' # 0
    <3>1. pc'[t] = "answering" /\ result'[t] = "error"
      BY <1>0, <2>2 DEF TypeOK, Throw
    <3> QED
      BY <1>0, <1>1, <1>3, <1>4, <1>k, <2>2, <3>1 DEF ThreadInv, Token, Logging, Drawing, Inside
  <2> QED
    BY <1>0, <2>1, <2>2, ProceedKeeps
<1> QED
  BY <1>3, <1>6, <1>7, <1>9, <1>10, SameCalls DEF Inv, OneRowEach

(* Expiring a key, or finding none to expire. *)
LEMMA ExpireKeeps ==
    ASSUME Inv, NEW k \in Tokens, Expire(k),
           UNCHANGED <<session, rows, given, ended, stored, loaded>>
    PROVE  /\ \A j \in Tokens : TokenInv(j)'
           /\ \A b \in Tabs : TabInv(b)'
           /\ \A j \in Tokens \cup {None} : ttl'[j] = ttl[j] \/ ttl'[j] # Forever
           /\ ttl'[k] # Forever \/ ttl'[k] = NoKey
<1>1. \A j \in Tokens \cup {None} :
          \/ ttl'[j] = ttl[j]
          \/ ttl'[j] # Forever /\ ttl'[j] # NoKey /\ ttl[j] # NoKey
  BY TimeAssumption DEF Inv, TypeOK, Expire, NoKey, Forever
<1>2. \A j \in Tokens : TokenInv(j)'
  BY <1>1 DEF Inv, TokenInv
<1>3. \A b \in Tabs : TabInv(b)'
  BY <1>1 DEF Inv, TypeOK, TabInv
<1>4. ttl'[k] # Forever \/ ttl'[k] = NoKey
  BY TimeAssumption DEF Inv, TypeOK, Expire, NoKey, Forever
<1> QED
  BY <1>1, <1>2, <1>3, <1>4

LEMMA ExpireSessionKeeps ==
    ASSUME Inv, NEW t \in Threads, ExpireSession(t), TypeOK'
    PROVE  Inv'
<1>0. TypeOK /\ ThreadInv(t) /\ pc[t] = "expire" /\ ReplyAfter(t, "answering", "ok")
  BY DEF Inv, ExpireSession
<1>1. PICK k \in Tokens : k = Token(t)
  BY <1>0 DEF ThreadInv, Logging
<1>2. Expire(k) /\ UNCHANGED <<session, rows, call, who, holder, stored, loaded, given, ended>>
  BY <1>1 DEF ExpireSession, Token, tab, ghosts
<1>3. \A x \in Threads : x # t => SameThread(x)
  BY <1>0, <1>2, ReplyAfterKeeps DEF SameThread
<1>4. \A x \in Threads : x # t => ThreadInv(x)'
  <2> SUFFICES ASSUME NEW x \in Threads, x # t  PROVE ThreadInv(x)'
    OBVIOUS
  <2>1. Token(x) \in Tokens \cup {None}
    BY <1>0 DEF TypeOK, Call, Token
  <2> QED
    BY <1>0, <1>2, <1>3, <2>1, Bystander, ExpireKeeps, ReplyAfterKeeps DEF Inv, RowsGrow
<1>5. ThreadInv(t)'
  <2>1. CASE pc'[t] = "answering" /\ result'[t] = "ok" /\ faults' = faults
    <3>1. ttl'[k] # Forever
      BY <1>2, ExpireKeeps DEF NoKey, Forever
    <3> QED
      BY <1>0, <1>1, <1>2, <2>1, <3>1 DEF ThreadInv, Token, Logging, Drawing, Inside
  <2>2. CASE Throw(t) /\ faults' # 0
    <3>1. pc'[t] = "answering" /\ result'[t] = "error"
      BY <1>0, <2>2 DEF TypeOK, Throw
    <3> QED
      BY <1>0, <1>2, <2>2, <3>1 DEF ThreadInv, Token, Logging, Drawing, Inside
  <2> QED
    BY <1>0, <2>1, <2>2, ReplyAfterKeeps
<1> QED
  BY <1>2, <1>4, <1>5, ExpireKeeps, SameCalls DEF Inv, OneRowEach

LEMMA RefreshKeeps ==
    ASSUME Inv, NEW t \in Threads, Refresh(t), TypeOK'
    PROVE  Inv'
<1>0. TypeOK /\ ThreadInv(t) /\ pc[t] = "refresh" /\ Proceed(t, "handler")
  BY DEF Inv, Refresh
<1>1. PICK k \in Tokens : k = Token(t)
  BY <1>0 DEF TypeOK, Call, ThreadInv, Token
<1>2. Expire(k) /\ UNCHANGED <<session, rows, call, who, holder, stored, loaded, given, ended>>
  BY <1>1 DEF Refresh, Token, tab, ghosts
<1>3. \A x \in Threads : x # t => SameThread(x)
  BY <1>0, <1>2, ProceedKeeps DEF SameThread
<1>4. \A x \in Threads : x # t => ThreadInv(x)'
  <2> SUFFICES ASSUME NEW x \in Threads, x # t  PROVE ThreadInv(x)'
    OBVIOUS
  <2>1. Token(x) \in Tokens \cup {None}
    BY <1>0 DEF TypeOK, Call, Token
  <2> QED
    BY <1>0, <1>2, <1>3, <2>1, Bystander, ExpireKeeps, ProceedKeeps DEF Inv, RowsGrow
<1>5. ThreadInv(t)'
  <2>1. CASE pc'[t] = "handler" /\ result' = result /\ faults' = faults
    BY <1>0, <1>1, <1>2, <2>1 DEF ThreadInv, Token, Logging, Drawing, Inside
  <2>2. CASE Throw(t) /\ faults' # 0
    <3>1. pc'[t] = "answering" /\ result'[t] = "error"
      BY <1>0, <2>2 DEF TypeOK, Throw
    <3> QED
      BY <1>0, <1>2, <2>2, <3>1 DEF ThreadInv, Token, Logging, Drawing, Inside
  <2> QED
    BY <1>0, <2>1, <2>2, ProceedKeeps
<1> QED
  BY <1>2, <1>4, <1>5, ExpireKeeps, SameCalls DEF Inv, OneRowEach

LEMMA LogoutKeeps ==
    ASSUME Inv, NEW t \in Threads, Logout(t), TypeOK'
    PROVE  Inv'
<1>0. TypeOK /\ ThreadInv(t) /\ pc[t] = "handler" /\ ReplyAfter(t, "completing", "ok")
  BY DEF Inv, Logout
<1>1. PICK k \in Tokens : k = Token(t)
  BY <1>0 DEF TypeOK, Call, ThreadInv, Token
<1>2. UNCHANGED <<rows, call, who, holder, stored, loaded, given>>
  BY DEF Logout, tab
<1>3. /\ ttl'[k] = NoKey /\ session'[k] = 0 /\ ended' = ended \cup {k}
      /\ \A j \in Tokens \cup {None} : j # k => ttl'[j] = ttl[j] /\ session'[j] = session[j]
  BY <1>0, <1>1 DEF TypeOK, Logout, Token
<1>4. given[k] # None
  BY <1>0, <1>1 DEF ThreadInv, Token
<1>5. \A j \in Tokens : TokenInv(j)'
  <2>1. TokenInv(k)'
    BY <1>2, <1>3, <1>4 DEF Inv, TokenInv
  <2>2. \A j \in Tokens : j # k => TokenInv(j)'
    BY <1>2, <1>3 DEF Inv, TokenInv
  <2> QED
    BY <2>1, <2>2
<1>6. \A j \in Tokens \cup {None} : ttl'[j] = ttl[j] \/ ttl'[j] # Forever
  BY <1>3 DEF NoKey, Forever
<1>7. \A b \in Tabs : TabInv(b)'
  BY <1>0, <1>2, <1>6 DEF Inv, TypeOK, TabInv
<1>8. \A x \in Threads : x # t => SameThread(x)
  BY <1>0, <1>2, ReplyAfterKeeps DEF SameThread
<1>9. \A x \in Threads : x # t => ThreadInv(x)'
  <2> SUFFICES ASSUME NEW x \in Threads, x # t  PROVE ThreadInv(x)'
    OBVIOUS
  <2>1. Token(x) \in Tokens \cup {None}
    BY <1>0 DEF TypeOK, Call, Token
  <2> QED
    BY <1>0, <1>2, <1>6, <1>8, <2>1, Bystander, ReplyAfterKeeps DEF Inv, RowsGrow
<1>10. ThreadInv(t)'
  <2>1. pc'[t] = "completing"
    BY <1>0 DEF TypeOK, ReplyAfter, Reply, Throw
  <2> QED
    BY <1>0, <1>2, <2>1 DEF ThreadInv, Token, Logging, Drawing, Inside
<1> QED
  BY <1>2, <1>5, <1>7, <1>9, <1>10, SameCalls DEF Inv, OneRowEach

LEMMA TabStep ==
    ASSUME Inv, NEW b \in Tabs, NEW token \in Tokens \cup {None}, TypeOK',
           UNCHANGED <<session, ttl, rows, given, ended>>,
           token # None => given[token] # None /\ ttl[token] # Forever,
           loaded' = [loaded EXCEPT ![b] = token],
           stored' = stored \/ stored' = [stored EXCEPT ![b] = token],
           \A t \in Threads : ThreadInv(t)', OneDrawEach'
    PROVE  Inv'
<1>1. \A c \in Tabs : /\ stored'[c] = stored[c] \/ stored'[c] = token
                      /\ loaded'[c] = loaded[c] \/ loaded'[c] = token
  BY DEF Inv, TypeOK
<1>2. \A c \in Tabs : TabInv(c)'
  BY <1>1 DEF Inv, TabInv
<1>3. \A k \in Tokens : TokenInv(k)'
  BY DEF Inv, TokenInv
<1> QED
  BY <1>2, <1>3 DEF Inv, OneRowEach

LEMMA LoadPageKeeps ==
    ASSUME Inv, NEW b \in Tabs, LoadPage(b), TypeOK'
    PROVE  Inv'
<1>1. stored[b] \in Tokens \cup {None}
  BY DEF Inv, TypeOK
<1>2. stored[b] # None => given[stored[b]] # None /\ ttl[stored[b]] # Forever
  BY DEF Inv, TabInv
<1>3. \A t \in Threads : ThreadInv(t)'
  BY DEF Inv, ThreadInv, Token, LoadPage, redis, ghosts
<1>4. OneDrawEach'
  BY SameCalls DEF Inv, LoadPage
<1> QED
  BY <1>1, <1>2, <1>3, <1>4, TabStep DEF LoadPage, Navigate, redis, ghosts

LEMMA AnswerKeeps ==
    ASSUME Inv, NEW t \in Threads, Answer(t), TypeOK'
    PROVE  Inv'
<1>0. /\ TypeOK /\ ThreadInv(t) /\ pc[t] = "answering" /\ Release(t)
      /\ page[t] \in Tabs
      /\ UNCHANGED <<session, ttl, rows, holder, given, ended, faults>>
  BY DEF Inv, TypeOK, Answer, redis, ghosts
<1>1. holder'[t] # 0 => faults' # 0
  BY <1>0 DEF ThreadInv
<1>2. CASE result[t] = "ok" /\ call[t].kind \in {"login", "logout"}
  <2>1. PICK token \in Tokens \cup {None} :
            token = IF call[t].kind = "login" THEN Token(t) ELSE None
    BY <1>0 DEF ThreadInv
  <2>2. token # None => given[token] # None /\ ttl[token] # Forever
    BY <1>0, <1>2, <2>1 DEF ThreadInv
  <2>3. \A x \in Threads : x # t => SameThread(x)
    BY <1>0 DEF TypeOK, Release, SameThread
  <2>4. pc'[t] = "idle" /\ call'[t] = NoCall
    BY <1>0 DEF TypeOK, Release
  <2>5. \A x \in Threads : ThreadInv(x)'
    <3>1. ThreadInv(t)'
      BY <1>1, <2>4 DEF ThreadInv, Token, NoCall, Logging, Drawing, Inside
    <3>2. \A x \in Threads : x # t => ThreadInv(x)'
      BY <1>0, <2>3, OtherThread DEF Inv
    <3> QED
      BY <3>1, <3>2
  <2>6. OneDrawEach'
    BY <2>3, <2>4 DEF Inv, OneDrawEach, Token, SameThread, NoCall
  <2>7. /\ stored' = [stored EXCEPT ![page[t]] = token]
        /\ loaded' = [loaded EXCEPT ![page[t]] = token]
    BY <1>2, <2>1 DEF Answer, Navigate, Token
  <2> QED
    BY <1>0, <2>2, <2>5, <2>6, <2>7, TabStep
<1>3. CASE ~(result[t] = "ok" /\ call[t].kind \in {"login", "logout"})
  BY <1>0, <1>1, <1>3, ReleaseKeeps DEF Answer, tab
<1> QED
  BY <1>2, <1>3

LEMMA TickKeeps ==
    ASSUME Inv, Tick, TypeOK'
    PROVE  Inv'
<1>1. UNCHANGED <<rows, pc, call, who, result, holder, stored, loaded, faults, given, ended>>
  BY DEF Tick, thread, tab, ghosts
<1>2. \A k \in Tokens : /\ session'[k] = IF ttl'[k] = NoKey THEN 0 ELSE session[k]
                        /\ ttl[k] = NoKey => ttl'[k] = NoKey
                        /\ ttl[k] # Forever => ttl'[k] # Forever
  BY TimeAssumption DEF Inv, TypeOK, Tick, Aged, NoKey, Forever
<1>3. \A k \in Tokens : TokenInv(k)'
  BY <1>1, <1>2 DEF Inv, TokenInv
<1>4. \A b \in Tabs : TabInv(b)'
  BY <1>1, <1>2 DEF Inv, TypeOK, TabInv
<1>5. \A t \in Threads : ThreadInv(t)'
  BY <1>1, <1>2 DEF Inv, TypeOK, Call, ThreadInv, Token
<1> QED
  BY <1>1, <1>3, <1>4, <1>5, SameCalls DEF Inv, OneRowEach

-----------------------------------------------------------------------------
(* The theorems. *)

LEMMA InitInv == Init => Inv
<1> SUFFICES ASSUME Init  PROVE Inv
  OBVIOUS
<1>1. TypeOK
  BY InitTyped
<1>2. \A t \in Threads : ThreadInv(t)
  BY DEF Init, ThreadInv, Token, NoCall, Logging, Drawing, Inside
<1>3. \A k \in Tokens : TokenInv(k)
  BY DEF Init, TokenInv
<1>4. \A b \in Tabs : TabInv(b)
  BY DEF Init, TabInv
<1>5. OneDrawEach /\ OneRowEach
  BY DEF Init, OneDrawEach, OneRowEach, Token, NoCall
<1> QED
  BY <1>1, <1>2, <1>3, <1>4, <1>5 DEF Inv

LEMMA StepInv == Inv /\ [Next]_vars => Inv'
<1> SUFFICES ASSUME Inv, [Next]_vars  PROVE Inv'
  OBVIOUS
<1>0. TypeOK
  BY DEF Inv
<1>1. ASSUME NEW b \in Tabs, LoadPage(b)  PROVE Inv'
  BY <1>0, <1>1, LoadPageTyped, LoadPageKeeps
<1>2. ASSUME NEW b \in Tabs, NEW t \in Threads, Browse(b, t)  PROVE Inv'
  BY <1>0, <1>2, BrowseTyped, BrowseKeeps
<1>3. ASSUME NEW t \in Threads, Serve(t) \/ CommandFails(t) \/ Crash(t)  PROVE Inv'
  <2>1. ThreadInv(t)
    BY DEF Inv
  <2>2. /\ pc[t] \in {"create", "save"} => call[t].phone \in Phones
        /\ pc[t] = "handler" => call[t].token \in Tokens
    BY <1>0, <2>1 DEF TypeOK, Call, ThreadInv, Token, Logging, Drawing
  <2>3. CASE SendCode(t)
    BY <1>0, <2>2, <2>3, CommandTyped, SendCodeKeeps
  <2>4. CASE WrongCode(t) \/ CheckCode(t) \/ FindUser(t) \/ FindNobody(t)
    BY <1>0, <2>4, QuietTyped, LoginReadsKeep
  <2>5. CASE CreateUser(t)
    BY <1>0, <2>2, <2>5, CommandTyped, CreateUserKeeps
  <2>6. CASE CreateTwice(t)
    BY <1>0, <2>6, QuietTyped, CreateTwiceKeeps
  <2>7. CASE SaveSession(t)
    BY <1>0, <2>2, <2>7, CommandTyped, SaveSessionKeeps
  <2>8. CASE ExpireSession(t)
    BY <1>0, <2>2, <2>8, CommandTyped, ExpireSessionKeeps
  <2>9. CASE Unauthorized(t) \/ ReadSession(t) \/ Me(t) \/ AfterCompletion(t)
    BY <1>0, <2>9, QuietTyped, InterceptorKeeps
  <2>10. CASE Refresh(t)
    BY <1>0, <2>2, <2>10, CommandTyped, RefreshKeeps
  <2>11. CASE Logout(t)
    BY <1>0, <2>2, <2>11, CommandTyped, LogoutKeeps
  <2>12. CASE Answer(t)
    BY <1>0, <2>12, AnswerTyped, AnswerKeeps
  <2>13. CASE AnswerLost(t) \/ Crash(t)
    BY <1>0, <2>13, AnswerTyped, LeaveKeeps
  <2>14. CASE CommandFails(t)
    BY <1>0, <2>14, QuietTyped, CommandFailsKeeps
  <2> QED
    BY <1>3, <2>3, <2>4, <2>5, <2>6, <2>7, <2>8, <2>9, <2>10, <2>11, <2>12, <2>13,
       <2>14 DEF Serve
<1>4. CASE Tick
  BY <1>0, <1>4, TickTyped, TickKeeps
<1>5. CASE UNCHANGED vars
  BY <1>5 DEF vars, redis, thread, tab, ghosts, Inv, TypeOK, ThreadInv, TokenInv, TabInv,
     OneDrawEach, OneRowEach, Token
<1> QED
  BY <1>1, <1>2, <1>3, <1>4, <1>5 DEF Next

(* The state of Session always has the types of TypeOK. *)
THEOREM TypeCorrect == Spec => []TypeOK
<1>1. Inv => TypeOK
  BY DEF Inv
<1> QED
  BY <1>1, InitInv, StepInv, PTL DEF Spec

(* A pooled thread runs a protected handler as the user its own request's    *)
(* token was given to, also after a preHandle that threw half-way.           *)
THEOREM CallersAreThemselves == Spec => []ActsAsCaller
<1>1. Inv => ActsAsCaller
  <2> SUFFICES ASSUME Inv, NEW t \in Threads, pc[t] = "handler"
               PROVE  /\ call[t].token # None
                      /\ given[call[t].token] # None
                      /\ holder[t] = given[call[t].token].user
                      /\ holder[t] # 0
    BY DEF ActsAsCaller
  <2>1. /\ Token(t) # None /\ given[Token(t)] # None
        /\ holder[t] = given[Token(t)].user
    BY DEF Inv, ThreadInv
  <2>2. Token(t) \in Tokens
    BY <2>1 DEF Inv, TypeOK, Call, Token
  <2>3. given[Token(t)].user \in DOMAIN rows /\ rows \in Seq(Phones)
    BY <2>1, <2>2 DEF Inv, TypeOK, TokenInv
  <2>4. given[Token(t)].user # 0
    BY <2>3
  <2> QED
    BY <2>1, <2>4 DEF Token
<1> QED
  BY <1>1, InitInv, StepInv, PTL DEF Spec

(* No command of any thread brings back the session of a token that logged   *)
(* out.                                                                      *)
THEOREM LogoutHolds == Spec => []LogoutIsFinal
<1>1. Inv => LogoutIsFinal
  BY DEF Inv, TypeOK, TokenInv, LogoutIsFinal
<1> QED
  BY <1>1, InitInv, StepInv, PTL DEF Spec

(* Every token a tab was told expires, though login sets it in two commands. *)
THEOREM KnownSessionsHaveEnd == Spec => []KnownSessionsExpire
<1>1. Inv => KnownSessionsExpire
  BY DEF Inv, TabInv, KnownSessionsExpire
<1> QED
  BY <1>1, InitInv, StepInv, PTL DEF Spec

(* All logins of one phone are logins of one user. *)
THEOREM PhonesAreUsers == Spec => []OnePhoneOneUser
<1>1. Inv => OnePhoneOneUser
  BY DEF Inv, TokenInv, OneRowEach, OnePhoneOneUser
<1> QED
  BY <1>1, InitInv, StepInv, PTL DEF Spec

(* Without a failure no waiting thread remembers a user. *)
THEOREM ThreadsForget == Spec => []LeftoverNeedsFailure
<1>1. Inv => LeftoverNeedsFailure
  BY DEF Inv, TypeOK, ThreadInv, LeftoverNeedsFailure
<1> QED
  BY <1>1, InitInv, StepInv, PTL DEF Spec
=============================================================================
