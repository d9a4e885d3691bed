----------------------------- MODULE ViewsProofs -----------------------------
(***************************************************************************)
(* The endpoints of the API, for any number of requests, commands, users,  *)
(* permissions and names, with commands and administrators at work.        *)
(***************************************************************************)
EXTENDS Views, PermissionsProofs, ZoneFileProofs

(***************************************************************************)
(* How the names of the rows move in a step: a row that gets a name gets   *)
(* one that no row had.  So a name that is there before and after a step   *)
(* is that of the same row, and a grant the same permission.               *)
(***************************************************************************)
NewNames == \A row \in Rows : domain'[row] \in {domain[row], NoRow} \/ RowsOf(domain'[row]) = {}

LEMMA NewNamesAreFree ==
    ASSUME CommandsOK, TablesInv, [PermissionsNext]_<<dbVars, commandVars>>
    PROVE  NewNames
<1>0. domain \in [Rows -> Domains \cup {NoRow}]
  BY DEF TablesInv, TablesOK
<1>1. CASE UNCHANGED domain
  BY <1>1 DEF NewNames
<1>2. ASSUME NEW name, RowsOf(name) = {}, InsertDomain(name) PROVE NewNames
  BY <1>0, <1>2 DEF InsertDomain, NewNames
<1>3. ASSUME NEW c \in Commands, Command(c) PROVE UNCHANGED domain \/ NewNames
  <2>1. CASE AllowSaveDomain(c)
    BY <1>2, <2>1 DEF AllowSaveDomain, Crash, dbVars
  <2>2. CASE ~ AllowSaveDomain(c)
    BY <1>3, <2>2 DEF Command, Start, AllowGetDomain, AllowCleanDomain, AllowGetPerm,
       AllowCleanPerm, AllowSavePerm, RevokeGetDomain, RevokeDelete, Reject, Crash, dbVars
  <2> QED
    BY <2>1, <2>2
<1>4. CASE Rest
  <2>1. ASSUME NEW name \in Domains, RestCreateDomain(name) PROVE NewNames
    BY <1>2, <2>1 DEF RestCreateDomain
  <2>2. ASSUME NEW row \in Rows, NEW name \in Domains, RestRenameDomain(row, name) PROVE NewNames
    BY <1>0, <2>2 DEF RestRenameDomain, NewNames
  <2>3. ASSUME NEW row \in Rows, RestDeleteDomain(row) PROVE NewNames
    BY <1>0, <2>3 DEF RestDeleteDomain, NewNames
  <2> QED
    BY <1>1, <1>4, <2>1, <2>2, <2>3 DEF Rest, RestCreatePermission, RestMovePermission,
       RestDeletePermission, RestDeleteUser
<1> QED
  BY <1>1, <1>3, <1>4 DEF PermissionsNext, dbVars

LEMMA GrantStays ==
    ASSUME TablesInv, TablesInv', NewNames, NEW p \in perms, NEW q \in perms',
           p.user = q.user, p.level = q.level, domain[p.row] = domain'[q.row]
    PROVE  p = q
<1>1. /\ p \in Permission /\ q \in Permission /\ p.row \in Rows /\ q.row \in Rows
      /\ domain[p.row] # NoRow
  BY DEF TablesInv, TablesOK, Permission, ForeignKeys, Exists
<1>2. domain'[q.row] = domain[q.row]
  <2>1. RowsOf(domain'[q.row]) # {}
    BY <1>1 DEF RowsOf
  <2> QED
    BY <1>1, <2>1 DEF NewNames
<1>3. p.row = q.row
  BY <1>1, <1>2 DEF TablesInv, UniqueNames, Exists
<1> QED
  BY <1>1, <1>3 DEF Permission

-----------------------------------------------------------------------------
(***************************************************************************)
(* The invariant of a request.                                             *)
(***************************************************************************)
Open == {"query", "check", "dns"}
Phases == {"new", "done"} \cup Open
Answers == {"None", "204", "400", "401", "403", "500", "ServerError", "Lost"}

\* What it has witnessed includes the tables of now.
OpenOK(r) ==
    phase[r] \in Open =>
        call[r] \in ValidForms /\ perms \subseteq granted[r] /\ NamesNow \subseteq named[r]

RowsOK(r) ==
    phase[r] = "check" =>
        \A p \in rows[r] : p \in granted[r] /\ p.user = call[r].user

UpdateOK(r) ==
    /\ phase[r] \in {"new", "query", "check"} => status[r] = "idle"
    /\ phase[r] = "dns" => status[r] # "idle"
    /\ status[r] # "idle" => call[r] \in ValidForms /\ ask[r] = AskOf(call[r]) /\ Justified(r)

\* A permission that stood all the time and admits the name is still to be looked at.
GrantsOK(r) ==
    phase[r] = "check" =>
        \A g \in always[r] :
            Admits(g[1], g[2], Name(r)) =>
                \E p \in rows[r] : p \in perms /\ domain[p.row] = g[1] /\ p.level = g[2]

AnswersOK(r) ==
    /\ phase[r] = "new" => answer[r] = "None"
    /\ answer[r] = "403" => \A g \in always[r] : ~ Admits(g[1], g[2], Name(r))
    /\ answer[r] = "ServerError" =>
           \E p \in granted[r] : p.user = call[r].user /\ <<p.row, NoRow>> \in named[r]

RequestOK(r) == OpenOK(r) /\ RowsOK(r) /\ UpdateOK(r) /\ GrantsOK(r) /\ AnswersOK(r)

NoAsk == [zone |-> Apex, owner |-> Apex, texts |-> {}]
AsksMade == {AskOf(c) : c \in ValidForms}

HandlersOK ==
    /\ phase \in [Requests -> Phases]
    /\ call \in [Requests -> Calls \cup {NoCall}]
    /\ rows \in [Requests -> SUBSET Permission]
    /\ answer \in [Requests -> Answers]
    /\ status \in [Requests -> {"idle", "pending", "applied", "dropped"}]
    /\ ask \in [Requests -> AsksMade \cup {NoAsk}]
    /\ granted = [r \in Requests |-> granted[r]]
    /\ always = [r \in Requests |-> always[r]]
    /\ named = [r \in Requests |-> named[r]]

RequestsInv == HandlersOK /\ \A r \in Requests : RequestOK(r)

\* What a step adds to what a request has witnessed.
LEMMA WitnessGrows ==
    ASSUME Witness, NEW r \in Requests
    PROVE  /\ granted[r] \subseteq granted'[r] /\ named[r] \subseteq named'[r]
           /\ phase[r] # "new" => always'[r] \subseteq always[r]
           /\ phase[r] \in Open \/ (phase[r] = "new" /\ phase'[r] # "new") =>
                  /\ perms' \subseteq granted'[r] /\ NamesNow' \subseteq named'[r]
                  /\ always'[r] \subseteq GrantsNow'[call'[r].user]
           /\ phase[r] \notin Open /\ (phase[r] # "new" \/ phase'[r] = "new") =>
                  always'[r] = always[r]
BY DEF Witness, Open

LEMMA WitnessesAreFunctions ==
    ASSUME Witness
    PROVE  /\ granted' = [r \in Requests |-> granted'[r]]
           /\ always' = [r \in Requests |-> always'[r]]
           /\ named' = [r \in Requests |-> named'[r]]
BY DEF Witness

LEMMA JustifiedStays ==
    ASSUME NEW r, Justified(r), granted[r] \subseteq granted'[r], named[r] \subseteq named'[r],
           call'[r] = call[r]
    PROVE  Justified(r)'
BY DEF Justified, Name

\* What a user is granted now.
LEMMA GrantedNow ==
    ASSUME NEW user \in Users, NEW g \in GrantsNow[user]
    PROVE  \E p \in perms : p.user = user /\ domain[p.row] = g[1] /\ p.level = g[2]
BY DEF GrantsNow

LEMMA GrantedThen ==
    ASSUME NEW user \in Users, NEW g \in GrantsNow'[user]
    PROVE  \E p \in perms' : p.user = user /\ domain'[p.row] = g[1] /\ p.level = g[2]
BY DEF GrantsNow

LEMMA CallersAreUsers ==
    ASSUME NEW c \in ValidForms
    PROVE  /\ c \in Calls /\ c.user \in Users /\ c.posted \in Seq(Labels) /\ c.value \in Values
           /\ IsFqdnCompliant(StripDots(c.posted))
BY ViewsAssumption DEF ValidForms

\* A permission that is still to be looked at is the one that stands, after a step too.
LEMMA GrantsKept ==
    ASSUME TablesInv, TablesInv', NewNames, Witness, NEW r \in Requests,
           phase[r] = "check", OpenOK(r), RowsOK(r), GrantsOK(r), call'[r] = call[r],
           NEW g \in always'[r], Admits(g[1], g[2], Name(r))
    PROVE  \E p \in rows[r] : p \in perms' /\ domain'[p.row] = g[1] /\ p.level = g[2]
                              /\ p \in perms /\ domain[p.row] = g[1]
<1>1. g \in always[r] /\ g \in GrantsNow'[call[r].user] /\ call[r].user \in Users
  BY WitnessGrows, CallersAreUsers DEF Open, OpenOK
<1>2. PICK p \in rows[r] : p \in perms /\ domain[p.row] = g[1] /\ p.level = g[2]
  BY <1>1 DEF GrantsOK
<1>3. PICK q \in perms' : q.user = call[r].user /\ domain'[q.row] = g[1] /\ q.level = g[2]
  BY <1>1, GrantedThen
<1>4. p = q
  BY <1>2, <1>3, GrantStays DEF RowsOK
<1> QED
  BY <1>2, <1>3, <1>4

\* A request that does nothing in a step.
LEMMA RequestKept ==
    ASSUME TablesInv, TablesInv', NewNames, Witness, NEW r \in Requests, RequestOK(r),
           phase'[r] = phase[r], call'[r] = call[r], rows'[r] = rows[r], answer'[r] = answer[r],
           status'[r] = "idle" <=> status[r] = "idle", ask'[r] = ask[r]
    PROVE  RequestOK(r)'
<1>1. OpenOK(r)' /\ RowsOK(r)'
  BY WitnessGrows DEF RequestOK, OpenOK, RowsOK
<1>2. UpdateOK(r)'
  BY WitnessGrows, JustifiedStays DEF RequestOK, UpdateOK
<1>3. GrantsOK(r)'
  BY GrantsKept DEF RequestOK, GrantsOK, Name
<1>4. AnswersOK(r)'
  BY WitnessGrows DEF RequestOK, AnswersOK, Name, Open
<1> QED
  BY <1>1, <1>2, <1>3, <1>4 DEF RequestOK

-----------------------------------------------------------------------------
(***************************************************************************)
(* The steps of a request.  The tables stay as they are meanwhile.         *)
(***************************************************************************)
LEMMA AnswersKept ==
    ASSUME Witness, NEW r \in Requests, AnswersOK(r), answer'[r] = answer[r], call'[r] = call[r],
           phase[r] # "new", phase'[r] # "new"
    PROVE  AnswersOK(r)'
BY WitnessGrows DEF AnswersOK, Name

LEMMA Finished ==
    ASSUME Witness, NEW r \in Requests, RequestOK(r), phase[r] \in Open, phase'[r] = "done",
           call'[r] = call[r], status'[r] = status[r], ask'[r] = ask[r], AnswersOK(r)'
    PROVE  RequestOK(r)'
<1>1. UpdateOK(r)'
  BY WitnessGrows, JustifiedStays DEF RequestOK, UpdateOK
<1> QED
  BY <1>1 DEF RequestOK, OpenOK, RowsOK, GrantsOK, Open

LEMMA ReceiveOK ==
    ASSUME HandlersOK, Witness, NEW r \in Requests, RequestOK(r), Receive(r)
    PROVE  RequestOK(r)'
<1>1. phase[r] = "new" /\ status[r] = "idle" /\ answer[r] = "None"
  BY DEF Receive, RequestOK, UpdateOK, AnswersOK
<1>2. PICK c \in Calls :
          /\ call' = [call EXCEPT ![r] = c]
          /\ \/ Respond(r, "401")
             \/ Respond(r, "400")
             \/ /\ c \in ValidForms /\ phase' = [phase EXCEPT ![r] = "query"]
                /\ UNCHANGED answer
  BY DEF Receive
<1>3. call'[r] = c /\ UNCHANGED status
  BY <1>2 DEF HandlersOK, Receive, storeVars
<1>4. \/ phase'[r] = "done" /\ answer'[r] \in {"400", "401"}
      \/ phase'[r] = "query" /\ c \in ValidForms /\ answer'[r] = "None"
  BY <1>1, <1>2 DEF HandlersOK, Respond
<1>5. UpdateOK(r)' /\ RowsOK(r)' /\ GrantsOK(r)' /\ AnswersOK(r)'
  BY <1>1, <1>3, <1>4 DEF UpdateOK, RowsOK, GrantsOK, AnswersOK
<1>6. OpenOK(r)'
  BY <1>1, <1>3, <1>4, WitnessGrows DEF OpenOK, Open
<1> QED
  BY <1>5, <1>6 DEF RequestOK

LEMMA ReadPermissionsOK ==
    ASSUME HandlersOK, Witness, NEW r \in Requests, RequestOK(r), UNCHANGED dbVars,
           ReadPermissions(r)
    PROVE  RequestOK(r)'
<1>1. /\ phase[r] = "query" /\ phase'[r] = "check" /\ phase[r] \in Open
      /\ rows'[r] = {p \in perms : p.user = call[r].user}
      /\ UNCHANGED <<call, answer, status, ask, perms, domain>>
  BY DEF ReadPermissions, HandlersOK, Open, storeVars, dbVars
<1>2. call[r] \in ValidForms /\ call[r].user \in Users
  BY <1>1, CallersAreUsers DEF RequestOK, OpenOK
<1>3. OpenOK(r)' /\ RowsOK(r)'
  BY <1>1, <1>2, WitnessGrows DEF OpenOK, RowsOK
<1>4. UpdateOK(r)'
  BY <1>1 DEF RequestOK, UpdateOK
<1>5. GrantsOK(r)'
  <2> SUFFICES ASSUME NEW g \in always'[r]
               PROVE  \E p \in rows'[r] : p \in perms' /\ domain'[p.row] = g[1] /\ p.level = g[2]
    BY DEF GrantsOK
  <2>1. g \in GrantsNow'[call[r].user]
    BY <1>1, WitnessGrows
  <2> QED
    BY <1>1, <1>2, <2>1, GrantedThen
<1>6. AnswersOK(r)'
  BY <1>1, AnswersKept DEF RequestOK
<1> QED
  BY <1>3, <1>4, <1>5, <1>6 DEF RequestOK

LEMMA DomainIsGoneOK ==
    ASSUME HandlersOK, TablesInv, Witness, NEW r \in Requests, RequestOK(r), UNCHANGED dbVars,
           DomainIsGone(r)
    PROVE  RequestOK(r)'
<1>1. /\ phase[r] = "check" /\ phase[r] \in Open /\ phase'[r] = "done"
      /\ answer'[r] = "ServerError" /\ UNCHANGED <<call, status, ask>>
  BY DEF DomainIsGone, Respond, HandlersOK, Open, storeVars
<1>2. PICK p \in rows[r] : domain[p.row] = NoRow
  BY DEF DomainIsGone, Exists
<1>3. p \in Permission /\ p.row \in Rows
  BY DEF HandlersOK, Permission
<1>4. p \in granted'[r] /\ p.user = call[r].user
  BY <1>1, WitnessGrows DEF RequestOK, RowsOK
<1>5. <<p.row, NoRow>> \in named'[r]
  <2>1. <<p.row, NoRow>> \in NamesNow
    BY <1>2, <1>3 DEF NamesNow
  <2> QED
    BY <1>1, <2>1, WitnessGrows DEF RequestOK, OpenOK
<1>6. AnswersOK(r)'
  BY <1>1, <1>4, <1>5 DEF AnswersOK
<1> QED
  BY <1>1, <1>6, Finished

LEMMA SkipPermissionOK ==
    ASSUME HandlersOK, TablesInv, TablesInv', NewNames, Witness, NEW r \in Requests, RequestOK(r),
           SkipPermission(r)
    PROVE  RequestOK(r)'
<1>1. PICK p \in rows[r] : ~ AdmittedBy(r, p) /\ rows' = [rows EXCEPT ![r] = @ \ {p}]
  BY DEF SkipPermission
<1>2. /\ phase[r] = "check" /\ phase[r] \in Open
      /\ rows'[r] = rows[r] \ {p} /\ UNCHANGED <<phase, call, answer, status, ask>>
  BY <1>1 DEF SkipPermission, HandlersOK, Open, storeVars
<1>3. OpenOK(r)' /\ RowsOK(r)'
  BY <1>2, WitnessGrows DEF RequestOK, OpenOK, RowsOK
<1>4. UpdateOK(r)'
  BY <1>2 DEF RequestOK, UpdateOK
<1>5. GrantsOK(r)'
  <2> SUFFICES ASSUME NEW g \in always'[r], Admits(g[1], g[2], Name(r))
               PROVE  \E q \in rows'[r] : q \in perms' /\ domain'[q.row] = g[1] /\ q.level = g[2]
    BY <1>2 DEF GrantsOK, Name
  <2>1. PICK q \in rows[r] : /\ q \in perms' /\ domain'[q.row] = g[1] /\ q.level = g[2]
                             /\ domain[q.row] = g[1]
    BY <1>2, GrantsKept DEF RequestOK
  <2>2. q # p
    BY <1>1, <2>1 DEF AdmittedBy
  <2> QED
    BY <1>2, <2>1, <2>2
<1>6. AnswersOK(r)'
  BY <1>2, AnswersKept DEF RequestOK
<1> QED
  BY <1>3, <1>4, <1>5, <1>6 DEF RequestOK

LEMMA AdmitOK ==
    ASSUME HandlersOK, TablesInv, Witness, NEW r \in Requests, RequestOK(r), UNCHANGED dbVars,
           Admit(r)
    PROVE  RequestOK(r)'
<1>1. /\ phase[r] = "check" /\ phase[r] \in Open /\ phase'[r] = "dns" /\ phase'[r] \in Open
      /\ UNCHANGED <<call, rows, answer>> /\ status'[r] = "pending" /\ ask'[r] = AskOf(call[r])
  BY DEF Admit, HandlersOK, Open, Store!Submit
<1>2. PICK p \in rows[r] : Exists(p.row) /\ AdmittedBy(r, p)
  BY DEF Admit
<1>3. p.row \in Rows /\ domain[p.row] \in Domains
  BY <1>2 DEF HandlersOK, Permission, TablesInv, TablesOK, Exists
<1>4. OpenOK(r)'
  BY <1>1, WitnessGrows DEF RequestOK, OpenOK
<1>5. Justified(r)'
  <2>1. p \in granted'[r] /\ p.user = call'[r].user
    BY <1>1, WitnessGrows DEF RequestOK, RowsOK
  <2>2. <<p.row, domain[p.row]>> \in named'[r]
    <3>1. <<p.row, domain[p.row]>> \in NamesNow
      BY <1>3 DEF NamesNow
    <3> QED
      BY <1>1, <3>1, WitnessGrows DEF RequestOK, OpenOK
  <2>3. Admits(domain[p.row], p.level, Name(r)')
    BY <1>1, <1>2 DEF AdmittedBy, Name
  <2> QED
    BY <1>3, <2>1, <2>2, <2>3 DEF Justified
<1>6. UpdateOK(r)'
  BY <1>1, <1>4, <1>5 DEF UpdateOK, OpenOK
<1>7. RowsOK(r)' /\ GrantsOK(r)'
  BY <1>1 DEF RowsOK, GrantsOK
<1>8. AnswersOK(r)'
  BY <1>1, AnswersKept DEF RequestOK
<1> QED
  BY <1>4, <1>6, <1>7, <1>8 DEF RequestOK

LEMMA RefuseOK ==
    ASSUME HandlersOK, TablesInv, TablesInv', NewNames, Witness, NEW r \in Requests, RequestOK(r),
           Refuse(r)
    PROVE  RequestOK(r)'
<1>1. /\ phase[r] = "check" /\ phase[r] \in Open /\ phase'[r] = "done" /\ rows[r] = {}
      /\ answer'[r] = "403" /\ UNCHANGED <<call, status, ask>>
  BY DEF Refuse, Respond, HandlersOK, Open, storeVars
<1>2. \A g \in always'[r] : ~ Admits(g[1], g[2], Name(r))
  BY <1>1, GrantsKept DEF RequestOK
<1>3. AnswersOK(r)'
  BY <1>1, <1>2 DEF AnswersOK, Name
<1> QED
  BY <1>1, <1>3, Finished

LEMMA AnswerUpdateOK ==
    ASSUME HandlersOK, Witness, NEW r \in Requests, RequestOK(r), AnswerUpdate(r)
    PROVE  RequestOK(r)'
<1>1. /\ phase[r] \in Open /\ phase'[r] = "done"
      /\ answer'[r] \in {"204", "500"} /\ UNCHANGED <<call, status, ask>>
  BY DEF AnswerUpdate, Respond, HandlersOK, Open, storeVars
<1>2. AnswersOK(r)'
  BY <1>1 DEF AnswersOK
<1> QED
  BY <1>1, <1>2, Finished

LEMMA WorkerKilledOK ==
    ASSUME HandlersOK, Witness, NEW r \in Requests, RequestOK(r), WorkerKilled(r)
    PROVE  RequestOK(r)'
<1>1. /\ phase[r] \in Open /\ phase'[r] = "done"
      /\ answer'[r] = "Lost" /\ UNCHANGED <<call, status, ask>>
  BY DEF WorkerKilled, Respond, HandlersOK, Open, storeVars
<1>2. AnswersOK(r)'
  BY <1>1 DEF AnswersOK
<1> QED
  BY <1>1, <1>2, Finished

LEMMA UpdateEndsOK ==
    ASSUME HandlersOK, TablesInv, TablesInv', NewNames, Witness, NEW r \in Requests, RequestOK(r),
           UpdateEnds(r)
    PROVE  RequestOK(r)'
<1>1. UNCHANGED <<phase, call, rows, answer, ask>> /\ status[r] # "idle" /\ status'[r] # "idle"
  BY DEF UpdateEnds, Store!Apply, Store!Drop, handlerVars, HandlersOK
<1> QED
  BY <1>1, RequestKept

-----------------------------------------------------------------------------
(***************************************************************************)
(* All together                                                            *)
(***************************************************************************)
LEMMA HandlersTypesStep ==
    ASSUME HandlersOK, TablesInv, Witness, NEW r \in Requests, Receive(r) \/ Handle(r)
    PROVE  HandlersOK'
<1> /\ {"new", "done", "query", "check", "dns"} \subseteq Phases
    /\ {"None", "204", "400", "401", "403", "500", "ServerError", "Lost"} \subseteq Answers
  BY DEF Phases, Open, Answers
<1>1. /\ granted' = [q \in Requests |-> granted'[q]]
      /\ always' = [q \in Requests |-> always'[q]]
      /\ named' = [q \in Requests |-> named'[q]]
  BY WitnessesAreFunctions
<1>2. phase' \in [Requests -> Phases] /\ answer' \in [Requests -> Answers]
  <2>1. CASE Receive(r)
    BY <2>1 DEF Receive, Respond, HandlersOK
  <2>2. CASE Handle(r)
    BY <2>2 DEF Handle, ReadPermissions, DomainIsGone, SkipPermission, Admit, Refuse, UpdateEnds,
       AnswerUpdate, WorkerKilled, Respond, HandlersOK, handlerVars
  <2> QED
    BY <2>1, <2>2
<1>3. call' \in [Requests -> Calls \cup {NoCall}]
  BY DEF Receive, Handle, ReadPermissions, DomainIsGone, SkipPermission, Admit, Refuse, UpdateEnds,
     AnswerUpdate, WorkerKilled, HandlersOK, handlerVars
<1>4. rows' \in [Requests -> SUBSET Permission]
  <2>1. CASE ReadPermissions(r)
    <3>1. {p \in perms : p.user = call[r].user} \in SUBSET Permission
      BY DEF TablesInv, TablesOK
    <3> QED
      BY <2>1, <3>1 DEF ReadPermissions, HandlersOK
  <2>2. CASE SkipPermission(r)
    <3>1. PICK p \in rows[r] : rows' = [rows EXCEPT ![r] = @ \ {p}]
      BY <2>2 DEF SkipPermission
    <3>2. rows[r] \ {p} \in SUBSET Permission
      BY DEF HandlersOK
    <3> QED
      BY <3>1, <3>2 DEF HandlersOK
  <2>3. CASE ~ ReadPermissions(r) /\ ~ SkipPermission(r)
    BY <2>3 DEF Receive, Handle, DomainIsGone, Admit, Refuse, UpdateEnds,
       AnswerUpdate, WorkerKilled, HandlersOK, handlerVars
  <2> QED
    BY <2>1, <2>2, <2>3
<1>5. /\ status' \in [Requests -> {"idle", "pending", "applied", "dropped"}]
      /\ ask' \in [Requests -> AsksMade \cup {NoAsk}]
  <2>1. CASE Admit(r)
    BY <2>1 DEF Admit, Store!Submit, HandlersOK, AsksMade
  <2>2. CASE UpdateEnds(r)
    BY <2>2 DEF UpdateEnds, Store!Apply, Store!Drop, HandlersOK
  <2>3. CASE ~ Admit(r) /\ ~ UpdateEnds(r)
    BY <2>3 DEF Receive, Handle, ReadPermissions, DomainIsGone, SkipPermission, Refuse,
       AnswerUpdate, WorkerKilled, HandlersOK, storeVars
  <2> QED
    BY <2>1, <2>2, <2>3
<1> QED
  BY <1>1, <1>2, <1>3, <1>4, <1>5 DEF HandlersOK

LEMMA OthersUntouched ==
    ASSUME HandlersOK, NEW r \in Requests, Receive(r) \/ Handle(r), NEW q \in Requests \ {r}
    PROVE  /\ phase'[q] = phase[q] /\ call'[q] = call[q] /\ rows'[q] = rows[q]
           /\ answer'[q] = answer[q] /\ status'[q] = status[q] /\ ask'[q] = ask[q]
<1>1. CASE Receive(r)
  BY <1>1 DEF Receive, Respond, HandlersOK, storeVars
<1>2. CASE Handle(r)
  BY <1>2 DEF Handle, ReadPermissions, DomainIsGone, SkipPermission, Admit, Refuse, UpdateEnds,
     AnswerUpdate, WorkerKilled, Respond, Store!Submit, Store!Apply, Store!Drop,
     HandlersOK, handlerVars, storeVars
<1> QED
  BY <1>1, <1>2

ViewsInv == CommandsOK /\ TablesInv /\ RequestsInv

LEMMA ViewsInvInit == ViewsInit => ViewsInv
<1> SUFFICES ASSUME ViewsInit PROVE RequestsInv
  BY InvInit DEF ViewsInit, ViewsInv
<1>1. HandlersOK
  BY DEF ViewsInit, HandlersInit, WitnessesInit, HandlersOK, Store!Init, Store!Idle, Phases, Answers,
     NoAsk
<1>2. ASSUME NEW r \in Requests PROVE RequestOK(r)
  BY DEF ViewsInit, HandlersInit, WitnessesInit, Store!Init, Store!Idle, RequestOK, OpenOK, RowsOK,
     UpdateOK, GrantsOK, AnswersOK, Open
<1> QED
  BY <1>1, <1>2 DEF RequestsInv

LEMMA ViewsInvStep == ViewsInv /\ [ViewsNext]_viewsVars => ViewsInv'
<1> SUFFICES ASSUME ViewsInv, [ViewsNext]_viewsVars PROVE ViewsInv'
  OBVIOUS
<1>1. CommandsOK /\ TablesInv /\ HandlersOK /\ \A r \in Requests : RequestOK(r)
  BY DEF ViewsInv, RequestsInv
<1>2. [PermissionsNext]_<<dbVars, commandVars>>
  BY DEF ViewsNext, viewsVars, permissionsVars
<1>3. CommandsOK' /\ TablesInv' /\ NewNames
  BY <1>1, <1>2, InvStep, NewNamesAreFree
<1>4. ASSUME Witness, UNCHANGED <<dbVars, commandVars>>,
             NEW r \in Requests, Receive(r) \/ Handle(r)
      PROVE  RequestsInv'
  <2>1. HandlersOK'
    BY <1>1, <1>4, HandlersTypesStep
  <2>2. RequestOK(r)'
    BY <1>1, <1>3, <1>4, ReceiveOK, ReadPermissionsOK, DomainIsGoneOK, SkipPermissionOK, AdmitOK,
       RefuseOK, UpdateEndsOK, AnswerUpdateOK, WorkerKilledOK DEF Handle
  <2>3. ASSUME NEW q \in Requests \ {r} PROVE RequestOK(q)'
    BY <1>1, <1>3, <1>4, <2>3, OthersUntouched, RequestKept
  <2> QED
    BY <2>1, <2>2, <2>3 DEF RequestsInv
<1>5. ASSUME Witness, UNCHANGED <<handlerVars, storeVars>>
      PROVE  RequestsInv'
  <2>1. HandlersOK'
    BY <1>1, <1>5, WitnessesAreFunctions DEF HandlersOK, handlerVars, storeVars
  <2>2. ASSUME NEW r \in Requests PROVE RequestOK(r)'
    BY <1>1, <1>3, <1>5, RequestKept DEF handlerVars, storeVars
  <2> QED
    BY <2>1, <2>2 DEF RequestsInv
<1>6. ASSUME UNCHANGED viewsVars PROVE RequestsInv'
  <2>1. UNCHANGED <<domain, dbVars, handlerVars, storeVars, witnesses>>
    BY <1>6 DEF viewsVars, permissionsVars, dbVars
  <2>2. HandlersOK'
    BY <1>1, <2>1 DEF HandlersOK, handlerVars, storeVars, witnesses
  <2>3. ASSUME NEW r \in Requests PROVE RequestOK(r)'
    <3>1. OpenOK(r) /\ RowsOK(r) /\ UpdateOK(r) /\ GrantsOK(r) /\ AnswersOK(r)
      BY <1>1 DEF RequestOK
    <3>2. OpenOK(r)' /\ RowsOK(r)' /\ AnswersOK(r)'
      BY <2>1, <3>1 DEF OpenOK, RowsOK, AnswersOK, NamesNow, Name, dbVars, handlerVars, storeVars,
         witnesses
    <3>3. UpdateOK(r)' /\ GrantsOK(r)'
      BY <2>1, <3>1 DEF UpdateOK, GrantsOK, Justified, NamesNow, Name, dbVars, handlerVars, storeVars,
         witnesses
    <3> QED
      BY <3>2, <3>3 DEF RequestOK
  <2> QED
    BY <2>2, <2>3 DEF RequestsInv
<1> QED
  BY <1>3, <1>4, <1>5, <1>6 DEF ViewsNext, ViewsInv, permissionsVars

\* The handlers have their types, and no update runs without its handler.
THEOREM HandlersTypeCorrect == ViewsSpec => []ViewsTypeOK
<1>1. ViewsInv => ViewsTypeOK
  BY DEF ViewsInv, RequestsInv, HandlersOK, RequestOK, UpdateOK, ViewsTypeOK, Phases, Open, Answers
<1> QED
  BY ViewsInvInit, ViewsInvStep, <1>1, PTL DEF ViewsSpec

\* An update is started only on a permission its user held while the request ran, on a domain
\* that admits the name, whatever was granted, revoked, renamed or deleted in between
\* (views.py:47-58).
THEOREM GrantsBehindUpdates == ViewsSpec => []UpdatesAreGranted
<1>1. ViewsInv => UpdatesAreGranted
  BY DEF ViewsInv, RequestsInv, RequestOK, UpdateOK, UpdatesAreGranted
<1> QED
  BY ViewsInvInit, ViewsInvStep, <1>1, PTL DEF ViewsSpec

\* 403 is never the answer to a user who held a permission for the name all the time
\* (views.py:64, 104).
THEOREM RefusalsAreRight == ViewsSpec => []RefusalsAreDue
<1>1. ViewsInv => RefusalsAreDue
  BY DEF ViewsInv, RequestsInv, RequestOK, AnswersOK, RefusalsAreDue
<1> QED
  BY ViewsInvInit, ViewsInvStep, <1>1, PTL DEF ViewsSpec

\* A request breaks on a domain that is not there only when it was deleted while the request
\* ran (views.py:50).
THEOREM OnlyDeletionBreaks == ViewsSpec => []BreaksOnDeletionOnly
<1>1. ViewsInv => BreaksOnDeletionOnly
  BY DEF ViewsInv, RequestsInv, RequestOK, AnswersOK, BreaksOnDeletionOnly
<1> QED
  BY ViewsInvInit, ViewsInvStep, <1>1, PTL DEF ViewsSpec

-----------------------------------------------------------------------------
(***************************************************************************)
(* Who may change which record, end to end.                                *)
(***************************************************************************)
StoreOK == store \in [ZonesAsked -> [OwnersAsked -> SUBSET Values]]

LEMMA AsksFit ==
    ASSUME NEW c \in ValidForms
    PROVE  /\ AskOf(c).zone \in ZonesAsked /\ AskOf(c).owner \in OwnersAsked
           /\ AskOf(c).texts \in SUBSET Values
           /\ AskOf(c).texts = IF c.verb = "present" THEN {c.value} ELSE {}
           /\ AskOf(c).owner \o AskOf(c).zone = StripDots(c.posted)
           /\ AskOf(c).zone = ZoneOf(StripDots(c.posted))
<1>1. /\ c.posted \in Seq(Labels) /\ c.value \in Values
      /\ IsFqdnCompliant(StripDots(c.posted))
  BY CallersAreUsers
<1>2. OwnerOf(StripDots(c.posted)) \o ZoneOf(StripDots(c.posted)) = StripDots(c.posted)
  BY <1>1, RecordIsWhereLookedFor DEF RecordNamesTheRequest
<1> QED
  BY <1>1, <1>2 DEF AskOf, ZonesAsked, OwnersAsked

\* Records change by one update that lands.
LEMMA OneUpdateLands ==
    ASSUME ViewsInv, [ViewsNext]_viewsVars, store' # store
    PROVE  \E r \in Requests : Store!Apply(r)
<1>1. PICK r \in Requests : Receive(r) \/ Handle(r)
  BY DEF ViewsNext, viewsVars, storeVars
<1> QED
  BY <1>1 DEF Receive, Handle, ReadPermissions, DomainIsGone, SkipPermission, Admit, Refuse,
     UpdateEnds, AnswerUpdate, WorkerKilled, Store!Submit, Store!Drop, storeVars

LEMMA StoreStep == ViewsInv /\ StoreOK /\ [ViewsNext]_viewsVars => StoreOK'
<1> SUFFICES ASSUME ViewsInv, StoreOK, [ViewsNext]_viewsVars, store' # store PROVE StoreOK'
  BY DEF StoreOK
<1>1. PICK r \in Requests : Store!Apply(r)
  BY OneUpdateLands
<1>2. /\ status[r] = "pending"
      /\ store' = [store EXCEPT ![ask[r].zone][ask[r].owner] = ask[r].texts]
  BY <1>1 DEF Store!Apply
<1>3. /\ ask[r].zone \in ZonesAsked /\ ask[r].owner \in OwnersAsked
      /\ ask[r].texts \in SUBSET Values
  BY <1>2, AsksFit DEF ViewsInv, RequestsInv, RequestOK, UpdateOK
<1> QED
  BY <1>2, <1>3 DEF StoreOK

LEMMA StoreInit == ViewsInit => StoreOK
BY DEF ViewsInit, HandlersInit, StoreOK

\* A record changes only for a name at or beneath a domain that was granted to the user of a
\* request which asked for it, in the zone file of that domain, and to what was asked for:
\* from the form to the zone file, whatever commands and administrators do meanwhile.
THEOREM OnlyGrantsChangeRecords == ViewsSpec => RecordsChangeOnGrants
<1>1. ASSUME ViewsInv, StoreOK, [ViewsNext]_viewsVars
      PROVE  [\A z \in ZonesAsked, o \in OwnersAsked :
                  store'[z][o] # store[z][o] =>
                      \E r \in Requests :
                          /\ status[r] = "pending" /\ status'[r] = "applied"
                          /\ o \o z = Name(r)
                          /\ store'[z][o] = IF call[r].verb = "present" THEN {call[r].value} ELSE {}
                          /\ \E p \in granted[r], d \in Domains :
                                /\ p.user = call[r].user
                                /\ <<p.row, d>> \in named[r]
                                /\ ZoneOf(d) = z]_viewsVars
  <2> SUFFICES ASSUME NEW z \in ZonesAsked, NEW o \in OwnersAsked, store'[z][o] # store[z][o]
               PROVE  \E r \in Requests :
                          /\ status[r] = "pending" /\ status'[r] = "applied"
                          /\ o \o z = Name(r)
                          /\ store'[z][o] = IF call[r].verb = "present" THEN {call[r].value} ELSE {}
                          /\ \E p \in granted[r], d \in Domains :
                                /\ p.user = call[r].user
                                /\ <<p.row, d>> \in named[r]
                                /\ ZoneOf(d) = z
    OBVIOUS
  <2>1. PICK r \in Requests : Store!Apply(r)
    BY <1>1, OneUpdateLands
  <2>2. /\ status[r] = "pending" /\ status'[r] = "applied"
        /\ store' = [store EXCEPT ![ask[r].zone][ask[r].owner] = ask[r].texts]
    BY <1>1, <2>1 DEF Store!Apply, ViewsInv, RequestsInv, HandlersOK
  <2>3. call[r] \in ValidForms /\ ask[r] = AskOf(call[r]) /\ Justified(r)
    BY <1>1, <2>2 DEF ViewsInv, RequestsInv, RequestOK, UpdateOK
  <2>4. /\ ask[r].zone \in ZonesAsked /\ ask[r].owner \in OwnersAsked
        /\ ask[r].texts = IF call[r].verb = "present" THEN {call[r].value} ELSE {}
        /\ ask[r].owner \o ask[r].zone = Name(r)
        /\ ask[r].zone = ZoneOf(Name(r))
    BY <2>3, AsksFit DEF Name
  <2>5. z = ask[r].zone /\ o = ask[r].owner /\ store'[z][o] = ask[r].texts
    BY <1>1, <2>2, <2>4 DEF StoreOK
  <2>6. PICK p \in granted[r], d \in Domains :
            p.user = call[r].user /\ <<p.row, d>> \in named[r] /\ Admits(d, p.level, Name(r))
    BY <2>3 DEF Justified
  <2>7. ZoneOf(d) = z
    <3>1. /\ call[r].posted \in Seq(Labels) /\ IsFqdnCompliant(Name(r))
          /\ d \in Seq(Labels) /\ IsDomain(d)
      BY <2>3, CallersAreUsers, ViewsAssumption DEF Name
    <3>2. p.level \in Levels
      BY <2>6 DEF Admits, Levels
    <3>3. GrantStaysInItsZone(d, p.level, call[r].posted)
      BY <3>1, <3>2, GrantsKeepToTheirZone
    <3> QED
      BY <2>4, <2>5, <2>6, <3>1, <3>3 DEF GrantStaysInItsZone, Name
  <2> QED
    BY <2>2, <2>4, <2>5, <2>6, <2>7
<1> QED
  BY ViewsInvInit, ViewsInvStep, StoreInit, StoreStep, <1>1, PTL
     DEF ViewsSpec, RecordsChangeOnGrants

=============================================================================
