-------------------------------- MODULE Views --------------------------------
(***************************************************************************)
(* The two endpoints of the API, handle_present and handle_cleanup, at     *)
(* work while permissions are granted, revoked and deleted.                *)
(*                                                                         *)
(* A handler reads the permissions of its user in one query, then goes     *)
(* through them and fetches the domain of each by a query of its own, in   *)
(* whatever order the database gave them.  The first that admits the name  *)
(* starts the update of the DNS record; nothing looks at the permissions   *)
(* again.                                                                  *)
(*                                                                         *)
(* Of the update only what RecordStore says of it is used: DnsUpdate       *)
(* implements RecordStore (UpdatesImplementStore, DnsUpdateProofs).        *)
(***************************************************************************)
EXTENDS Permissions, Names

CONSTANTS
    Requests,       \* the calls of the endpoints
    Calls,          \* their arguments: [verb, user, posted, value]
    Values,         \* the texts of the records
    Blank           \* the value of a form that has none

ASSUME ViewsAssumption ==
    /\ \A d \in Domains : d \in Seq(Labels) /\ IsDomain(d)
    /\ Blank \notin Values
    /\ \A c \in Calls : /\ c.verb \in {"present", "cleanup"}
                        /\ c.user \in Users
                        /\ c.posted \in Seq(Labels)
                        /\ c.value \in Values \cup {Blank}

VARIABLES
    phase,      \* phase[r], what the handler does next
    call,       \* call[r], the request it handles
    rows,       \* rows[r], the permissions it read and did not look at yet
    answer,     \* answer[r]
    store,      \* the DNS records, as RecordStore has them
    ask,
    status

handlerVars == <<phase, call, rows, answer>>
storeVars == <<store, ask, status>>

ValidForms == {c \in Calls : c.value # Blank /\ IsFqdnCompliant(StripDots(c.posted))}
Name(r) == StripDots(call[r].posted)

\* A faulty variant: the name is written without its prefix.
AskWithoutPrefix(c) ==
    LET name == WithoutPrefix(StripDots(c.posted))
    IN  [zone |-> ZoneOf(name), owner |-> OwnerOf(name),
         texts |-> IF c.verb = "present" THEN {c.value} ELSE {}]

\* cleanup asks for no text at all, whatever value came with it.
AskOf(c) ==
    LET name == StripDots(c.posted)
    IN  [zone |-> ZoneOf(name), owner |-> OwnerOf(name),
         texts |-> IF c.verb = "present" THEN {c.value} ELSE {}]

ZonesAsked == {AskOf(c).zone : c \in ValidForms}
OwnersAsked == {AskOf(c).owner : c \in ValidForms}

Store == INSTANCE RecordStore WITH
    Asks <- {AskOf(c) : c \in ValidForms},
    Zones <- ZonesAsked

NoCall == [verb |-> "none", user |-> "none", posted |-> << >>, value |-> Blank]

\* The names have records at the start, left by earlier requests.
HandlersInit ==
    /\ phase = [r \in Requests |-> "new"]
    /\ call = [r \in Requests |-> NoCall]
    /\ rows = [r \in Requests |-> {}]
    /\ answer = [r \in Requests |-> "None"]
    /\ store = [z \in ZonesAsked |-> [o \in OwnersAsked |-> Values]]
    /\ ask = [r \in Requests |-> [zone |-> Apex, owner |-> Apex, texts |-> {}]]
    /\ Store!Init

Respond(r, what) ==
    /\ phase' = [phase EXCEPT ![r] = "done"]
    /\ answer' = [answer EXCEPT ![r] = what]

(***************************************************************************)
(* A request comes in.  Who has no account gets 401 before the handler     *)
(* runs, and who posts an invalid form gets 400.                           *)
(***************************************************************************)
Receive(r) ==
    /\ phase[r] = "new"
    /\ \E c \in Calls :
        /\ call' = [call EXCEPT ![r] = c]
        /\ \/ c.user \notin users /\ Respond(r, "401")
           \/ c.user \in users /\ c \notin ValidForms /\ Respond(r, "400")
           \/ /\ c.user \in users /\ c \in ValidForms
              /\ phase' = [phase EXCEPT ![r] = "query"]
              /\ UNCHANGED answer
    /\ UNCHANGED <<rows, storeVars>>

ReadPermissions(r) ==
    /\ phase[r] = "query"
    /\ rows' = [rows EXCEPT ![r] = {p \in perms : p.user = call[r].user}]
    /\ phase' = [phase EXCEPT ![r] = "check"]
    /\ UNCHANGED <<call, answer, storeVars>>

(***************************************************************************)
(* One round of the loop over the permissions.                             *)
(***************************************************************************)
\* A faulty variant: the level is not looked at.
AdmittedAtAnyLevel(r, p) == \E level \in Levels : Admits(domain[p.row], level, Name(r))

AdmittedBy(r, p) == Admits(domain[p.row], p.level, Name(r))

\* Faulty variants: a user without permissions is an error too, or the error is
\* turned into an answer of its own.
NothingIsGone(r) ==
    /\ phase[r] = "check"
    /\ rows[r] = {} \/ \E p \in rows[r] : ~ Exists(p.row)
    /\ Respond(r, "ServerError")
    /\ UNCHANGED <<call, rows, storeVars>>

DomainNotFound(r) ==
    /\ phase[r] = "check"
    /\ \E p \in rows[r] : ~ Exists(p.row)
    /\ Respond(r, "404")
    /\ UNCHANGED <<call, rows, storeVars>>

\* Domain.DoesNotExist: nothing catches it.
DomainIsGone(r) ==
    /\ phase[r] = "check"
    /\ \E p \in rows[r] : ~ Exists(p.row)
    /\ Respond(r, "ServerError")
    /\ UNCHANGED <<call, rows, storeVars>>

\* A faulty variant: the first permission decides.
SkipAllPermissions(r) ==
    /\ phase[r] = "check"
    /\ \E p \in rows[r] : Exists(p.row) /\ ~ AdmittedBy(r, p)
    /\ rows' = [rows EXCEPT ![r] = {}]
    /\ UNCHANGED <<phase, call, answer, storeVars>>

SkipPermission(r) ==
    /\ phase[r] = "check"
    /\ \E p \in rows[r] :
        /\ Exists(p.row) /\ ~ AdmittedBy(r, p)
        /\ rows' = [rows EXCEPT ![r] = @ \ {p}]
    /\ UNCHANGED <<phase, call, answer, storeVars>>

Admit(r) ==
    /\ phase[r] = "check"
    /\ \E p \in rows[r] : Exists(p.row) /\ AdmittedBy(r, p)
    /\ phase' = [phase EXCEPT ![r] = "dns"]
    /\ Store!Submit(r) /\ ask'[r] = AskOf(call[r])
    /\ UNCHANGED <<call, rows, answer>>

Refuse(r) ==
    /\ phase[r] = "check"
    /\ rows[r] = {}
    /\ Respond(r, "403")
    /\ UNCHANGED <<call, rows, storeVars>>

(***************************************************************************)
(* The update lands or does not, and the handler answers 204 or 500; which *)
(* of the two says less than one would think (AckImpliesLanded).           *)
(***************************************************************************)
UpdateEnds(r) ==
    /\ Store!Apply(r) \/ Store!Drop(r)
    /\ UNCHANGED handlerVars

AnswerUpdate(r) ==
    /\ phase[r] = "dns"
    /\ status[r] \in {"applied", "dropped"}
    /\ \E code \in {"204", "500"} : Respond(r, code)
    /\ UNCHANGED <<call, rows, storeVars>>

\* The worker is killed; a push under way may still land.
WorkerKilled(r) ==
    /\ phase[r] \in {"query", "check", "dns"}
    /\ Respond(r, "Lost")
    /\ UNCHANGED <<call, rows, storeVars>>

Handle(r) ==
    \/ ReadPermissions(r)
    \/ DomainIsGone(r)
    \/ SkipPermission(r)
    \/ Admit(r)
    \/ Refuse(r)
    \/ UpdateEnds(r)
    \/ AnswerUpdate(r)
    \/ WorkerKilled(r)

(***************************************************************************)
(* What was there while a request was handled, for the properties alone.   *)
(***************************************************************************)
VARIABLES
    granted,    \* granted[r], the permissions there were at some time since
    always,     \* always[r], the grants (domain, level) there were all the time
    named       \* named[r], <<row, name>> of the domains at some time since

witnesses == <<granted, always, named>>

NamesNow == {<<row, domain[row]>> : row \in Rows}
GrantsNow ==
    [user \in Users |-> {<<domain[p.row], p.level>> : p \in {q \in perms : q.user = user}}]

WitnessesInit ==
    /\ granted = [r \in Requests |-> {}]
    /\ always = [r \in Requests |-> {}]
    /\ named = [r \in Requests |-> {}]

\* They start with the request and end with it.
Witness ==
    LET open(r) == phase[r] \in {"query", "check", "dns"}
        opens(r) == phase[r] = "new" /\ phase'[r] # "new"
    IN  /\ granted' = [r \in Requests |->
                IF open(r) \/ opens(r) THEN granted[r] \cup perms' ELSE granted[r]]
        /\ named' = [r \in Requests |->
                IF open(r) \/ opens(r) THEN named[r] \cup NamesNow' ELSE named[r]]
        /\ always' = [r \in Requests |->
                IF opens(r) THEN GrantsNow'[call'[r].user]
                ELSE IF open(r) THEN always[r] \cap GrantsNow'[call'[r].user]
                ELSE always[r]]

ViewsInit == PermissionsInit /\ ~ calm /\ HandlersInit /\ WitnessesInit

ViewsNext ==
    /\ \/ /\ \E r \in Requests : Receive(r) \/ Handle(r)
          /\ UNCHANGED permissionsVars
       \/ PermissionsNext /\ UNCHANGED <<handlerVars, storeVars>>
    /\ Witness

viewsVars == <<permissionsVars, handlerVars, storeVars, witnesses>>

ViewsSpec == ViewsInit /\ [][ViewsNext]_viewsVars

(***************************************************************************)
(* INVARIANTS                                                              *)
(***************************************************************************)

\* The handlers have their types, and no update starts without its handler.
ViewsTypeOK ==
    /\ phase \in [Requests -> {"new", "query", "check", "dns", "done"}]
    /\ call \in [Requests -> Calls \cup {NoCall}]
    /\ rows \in [Requests -> SUBSET Permission]
    /\ answer \in [Requests -> {"None", "204", "400", "401", "403", "500", "ServerError", "Lost"}]
    /\ \A r \in Requests : phase[r] = "dns" => status[r] # "idle"

\* An update is started only on a permission of the request's own user, held
\* since the request came in, on a domain that admits the name (views.py:47-58):
\* once revoke_domains is through, no later request can make use of the
\* permission, however the handlers and the commands interleave.
Justified(r) ==
    \E p \in granted[r] :
        /\ p.user = call[r].user
        /\ \E d \in Domains : <<p.row, d>> \in named[r] /\ Admits(d, p.level, Name(r))

UpdatesAreGranted == \A r \in Requests : status[r] # "idle" => Justified(r)

\* 403 is never said to a user whose permission for the name stood all the
\* time, whatever else was granted, revoked or deleted (views.py:64, 104).
RefusalsAreDue ==
    \A r \in Requests :
        answer[r] = "403" => \A g \in always[r] : ~ Admits(g[1], g[2], Name(r))

\* A request breaks on a missing domain only when the domain of one of its
\* user's permissions was deleted while it ran (views.py:50): the commands,
\* which never delete a domain, cannot do that.
BreaksOnDeletionOnly ==
    \A r \in Requests :
        answer[r] = "ServerError" =>
            \E p \in granted[r] : p.user = call[r].user /\ <<p.row, NoRow>> \in named[r]

(***************************************************************************)
(* ACTION PROPERTIES                                                       *)
(***************************************************************************)

\* Who may change which record, end to end: a record changes only for one name
\* beneath or at a domain granted to the user of a request that asked for
\* it, in the zone file of that domain, and to what was asked for.
RecordsChangeOnGrants ==
    [][\A z \in ZonesAsked, o \in OwnersAsked :
          store'[z][o] # store[z][o] =>
              \E r \in Requests :
                  /\ status[r] = "pending" /\ status'[r] = "applied"
                  /\ o \o z = Name(r)
                  /\ store'[z][o] = IF call[r].verb = "present" THEN {call[r].value} ELSE {}
                  /\ \E p \in granted[r], d \in Domains :
                        /\ p.user = call[r].user
                        /\ <<p.row, d>> \in named[r]
                        /\ ZoneOf(d) = z
      ]_viewsVars

=============================================================================
