------------------------- MODULE ActivityAuthoring --------------------------
(***************************************************************************)
(* One activity as its instructors write it: created, edited, given test    *)
(* cases, published, closed, reopened, archived and restored by calls that  *)
(* overlap (src/server/src/modules/activities/activity.service.ts,          *)
(* activity.repository.ts, topic.service.ts,                                *)
(* src/server/src/modules/test-cases/test-case.service.ts and               *)
(* test-case.repository.ts).                                                *)
(*                                                                         *)
(* A call carries the version its page was made from.  The service reads    *)
(* the row and checks the call, then a READ COMMITTED transaction reads the *)
(* row, the test cases, and updates the row only if version and status are  *)
(* what was expected and the class is active.  Test cases have no version   *)
(* of their own.                                                            *)
(*                                                                         *)
(* Names, texts and code are left out.  Fields of an edit are the domain of *)
(* a function, so a field that is not given is not in it.                   *)
(***************************************************************************)
EXTENDS ActivityPromises

CONSTANTS
    Authors,      \* calls of instructors that may overlap
    Drafts,       \* definitions a client may create
    Edits,        \* what an update may carry
    TestLists,    \* test cases a client may send
    MaxVersion    \* bound on the changes made

VARIABLES
    class,        \* status of the class
    topic,        \* is the topic of the class there?
    call,         \* of each call: operation, progress, version and status expected
    input,        \* the fields it carries (create, update)
    seen,         \* the row as the call's transaction read it
    cases         \* the test cases it read (update) or sends (replace)

activity == <<status, version, published, definition, tests>>
calls == <<call, input, seen, cases>>
vars == <<class, topic, activity, calls>>

Fields == Frozen \union {"topic", "due", "limit"}
Statuses == {"NONE", "DRAFT", "PUBLISHED", "CLOSED", "ARCHIVED"}
Operations == {"create", "update", "publish", "close", "reopen", "archive", "restore", "replace"}

NoDefinition == [f \in Fields |-> Null]
Idle == [op |-> "none", pc |-> "idle", expected |-> 0, current |-> "NONE", published |-> FALSE]

(* What the schemas let through (topics, texts and code besides): createActivity,
   updateActivity, replaceTestCases. *)
ValidField(x, v) ==
    CASE x = "mode" -> v \in {"GRADED", "COMPLETION"}
      [] x = "total" -> v \in (Nat \ {0}) \union {Null}
      [] x = "config" -> v = Null \/ v \in Configurations
      [] x \in {"due", "limit"} -> v \in Nat
      [] OTHER -> TRUE
ASSUME InputAssumption ==
    /\ \A d \in Drafts : /\ DOMAIN d = Fields
                         /\ (d["mode"] = "COMPLETION") = (d["total"] = Null)
    /\ \A f \in Edits : DOMAIN f \subseteq Fields
    /\ \A f \in Drafts \union Edits : \A x \in DOMAIN f : ValidField(x, f[x])
    /\ TestLists \subseteq Seq(TestCase)
    /\ Null \notin Nat \union Importances

Call == [op : Operations \union {"none"}, pc : {"idle", "read", "tests", "write"},
         expected : Nat, current : Statuses, published : BOOLEAN]
RowTypes ==
    /\ class \in {"ACTIVE", "ARCHIVED"} /\ topic \in BOOLEAN
    /\ status \in Statuses /\ version \in Nat /\ published \in BOOLEAN
    /\ DOMAIN definition = Fields
    /\ status # "NONE" => definition["due"] \in Nat /\ definition["limit"] \in Nat
CallTypes ==
    /\ call \in [Authors -> Call]
    /\ DOMAIN input = Authors /\ DOMAIN seen = Authors /\ DOMAIN cases = Authors
    /\ \A a \in Authors : /\ call[a].op = "create" => input[a] \in Drafts
                          /\ call[a].op = "update" => input[a] \in Edits
TypeOK == RowTypes /\ CallTypes

Init ==
    /\ class = "ACTIVE" /\ topic = TRUE
    /\ status = "NONE" /\ version = 0 /\ published = FALSE
    /\ definition = NoDefinition /\ tests = <<>>
    /\ call = [a \in Authors |-> Idle]
    /\ input = [a \in Authors |-> Null]
    /\ seen = [a \in Authors |-> NoDefinition]
    /\ cases = [a \in Authors |-> <<>>]

At(a, op, pc) == call[a].op = op /\ call[a].pc = pc
Given(f, field) == field \in DOMAIN f

(* The definition d with the fields of f in place of its own. *)
Merge(f, d) == [x \in DOMAIN d |-> IF x \in DOMAIN f THEN f[x] ELSE d[x]]

(* Mutant: two writes within a millisecond get the same version. *)
NextUpdatedAtSame(expected) == expected
NextUpdatedAt(expected) == expected + 1

-----------------------------------------------------------------------------
(* The service: it reads the row and refuses what it can see is wrong.  A call
   that is refused here changes nothing and is left out, and so is one whose
   page is out of date when it arrives: the row never returns to its version. *)

(* A bound of the model: a reopening may come after the last change. *)
InBound(op) == version < MaxVersion \/ (op = "reopen" /\ version = MaxVersion)

Ask(a, op, pc, current, fields, list) ==
    /\ call[a].pc = "idle"
    /\ class = "ACTIVE"
    /\ InBound(op)
    /\ call' = [call EXCEPT ![a] = [op |-> op, pc |-> pc, expected |-> version,
                                   current |-> current, published |-> FALSE]]
    /\ input' = [input EXCEPT ![a] = fields]
    /\ cases' = [cases EXCEPT ![a] = list]
    /\ UNCHANGED <<class, topic, activity, seen>>

(* publishedFieldViolation and what else update refuses by the row it read. *)
MayUpdate(f) ==
    /\ status \notin {"NONE", "ARCHIVED"}
    /\ status = "CLOSED" => DOMAIN f \subseteq {"topic"}
    /\ status = "PUBLISHED" =>
         /\ DOMAIN f \intersect Frozen = {}
         /\ Given(f, "due") => f["due"] >= definition["due"]
         /\ Given(f, "limit") => f["limit"] >= definition["limit"]
    /\ Given(f, "config") => (f["config"] = Null) = (definition["config"] = Null)
    /\ Given(f, "rubric") => definition["config"] = Null
    /\ (Merge(f, definition)["mode"] = "COMPLETION") = (Merge(f, definition)["total"] = Null)

AskCreate(a) == status = "NONE" /\ \E d \in Drafts : Ask(a, "create", "read", "NONE", d, <<>>)
AskUpdate(a) == \E f \in Edits : MayUpdate(f) /\ Ask(a, "update", "read", status, f, <<>>)
AskReplace(a) == status = "DRAFT" /\ \E t \in TestLists : Ask(a, "replace", "read", "DRAFT", Null, t)
AskPublish(a) == status # "NONE" /\ Ask(a, "publish", "read", "DRAFT", Null, <<>>)
AskClose(a) == status # "NONE" /\ Ask(a, "close", "write", "PUBLISHED", Null, <<>>)
AskReopen(a) == status # "NONE" /\ Ask(a, "reopen", "write", "CLOSED", Null, <<>>)
AskArchive(a) == status \notin {"NONE", "ARCHIVED"} /\ Ask(a, "archive", "write", status, Null, <<>>)
AskRestore(a) == status # "NONE" /\ Ask(a, "restore", "read", "ARCHIVED", Null, <<>>)

Over(a) ==
    /\ call' = [call EXCEPT ![a] = Idle]
    /\ input' = [input EXCEPT ![a] = Null]
    /\ seen' = [seen EXCEPT ![a] = NoDefinition]
    /\ cases' = [cases EXCEPT ![a] = <<>>]

(* A check fails, no row matches the update, or the transaction is rolled back:
   nothing is changed.  What the model does not follow is here too: that a due
   date has passed, that submissions are unfinished (SubmissionAttempts). *)
Refuse(a) ==
    /\ call[a].pc # "idle"
    /\ Over(a)
    /\ UNCHANGED <<class, topic, activity>>

-----------------------------------------------------------------------------
(* The transaction: reads, in statements of their own, then the update. *)

Read(a, op, next) ==
    /\ At(a, op, "read")
    /\ call' = [call EXCEPT ![a].pc = next, ![a].published = published]
    /\ seen' = [seen EXCEPT ![a] = definition]
    /\ UNCHANGED <<class, topic, activity, input, cases>>

(* publish, restore and replace compare what they read at once. *)
AsExpected(a) ==
    /\ class = "ACTIVE"
    /\ status = call[a].current
    /\ version = call[a].expected

ReadToUpdate(a) == Read(a, "update", "tests")
ReadToPublish(a) == Read(a, "publish", "tests") /\ AsExpected(a)
ReadToRestore(a) == Read(a, "restore", "write") /\ AsExpected(a)

(* What replace asks of the tests it was sent. *)
Replaceable(d, t) ==
    IF d["config"] # Null
    THEN /\ \A i \in DOMAIN t : t[i].points = Null
         /\ d["mode"] # "COMPLETION" => Configurable(d["total"], d["config"], t)
    ELSE /\ \A i \in DOMAIN t : t[i].importance = Null
         /\ d["mode"] # "COMPLETION" =>
              /\ \A i \in DOMAIN t : t[i].points # Null
              /\ TestTotal(t) <= d["total"]
ReadToReplace(a) ==
    /\ Read(a, "replace", "write")
    /\ AsExpected(a)
    /\ Replaceable(definition, cases[a])

ReadTestsToPublish(a) ==
    /\ At(a, "publish", "tests")
    /\ Publishable(seen[a], tests)
    /\ call' = [call EXCEPT ![a].pc = "write"]
    /\ seen' = [seen EXCEPT ![a] = NoDefinition]
    /\ UNCHANGED <<class, topic, activity, input, cases>>

(* An update by a call computes points anew in a weighted draft whose total,
   mode or configuration is given. *)
Merged(a) == Merge(input[a], seen[a])
Regrades(a) ==
    /\ Merged(a)["config"] # Null
    /\ call[a].current = "DRAFT"
    /\ DOMAIN input[a] \intersect {"config", "total", "mode"} # {}
Derives(a) == Regrades(a) /\ Merged(a)["mode"] # "COMPLETION"

TopicThere(f) == Given(f, "topic") /\ f["topic"] => topic

ReadTestsToUpdate(a) ==
    /\ At(a, "update", "tests")
    /\ TopicThere(input[a])
    /\ seen[a]["config"] = Null /\ Given(input[a], "total") /\ input[a]["total"] # Null =>
          TestTotal(tests) <= input[a]["total"]
    /\ Derives(a) => Configurable(Merged(a)["total"], Merged(a)["config"], tests)
    /\ call' = [call EXCEPT ![a].pc = "write"]
    /\ cases' = [cases EXCEPT ![a] = tests]
    /\ UNCHANGED <<class, topic, activity, input, seen>>

(* updateMany: the row is still what the call expects. *)
Cas(a) ==
    /\ class = "ACTIVE"
    /\ status = call[a].current
    /\ version = call[a].expected

Write(a, op) ==
    /\ At(a, op, "write")
    /\ Cas(a)
    /\ version' = NextUpdatedAt(version)
    /\ Over(a)
    /\ UNCHANGED <<class, topic>>

(* The fields, the rubric that goes with them, and points for the tests that
   were read.  The key of a topic is checked when the row is written. *)
UpdatedDefinition(a) ==
    LET d == Merge(input[a], definition)
    IN [d EXCEPT !["rubric"] =
          IF Merged(a)["mode"] = "COMPLETION" THEN Null
          ELSE IF Derives(a) THEN DerivedRubric(Merged(a)["total"], Merged(a)["config"])
          ELSE @]
UpdatedPoints(a, i) ==
    IF Derives(a)
    THEN TestPoints(Merged(a)["total"], Merged(a)["config"], cases[a])[i]
    ELSE IF Regrades(a) \/ Merged(a)["mode"] = "COMPLETION" THEN Null ELSE 0
UpdatedTests(a) ==
    IF Regrades(a) \/ Merged(a)["mode"] # seen[a]["mode"]
    THEN [i \in DOMAIN tests |-> [tests[i] EXCEPT !.points = UpdatedPoints(a, i)]]
    ELSE tests

WriteUpdate(a) ==
    /\ Write(a, "update")
    /\ TopicThere(input[a])
    /\ definition' = UpdatedDefinition(a)
    /\ tests' = UpdatedTests(a)
    /\ UNCHANGED <<status, published>>

(* replace deletes the test cases and creates those it was sent. *)
ReplacedTests(d, t) ==
    [i \in DOMAIN t |->
       [t[i] EXCEPT !.importance = IF d["config"] # Null /\ @ = Null THEN "NORMAL" ELSE @,
                    !.points = IF d["mode"] = "COMPLETION" THEN Null
                               ELSE IF d["config"] # Null THEN TestPoints(d["total"], d["config"], t)[i]
                               ELSE @]]
WriteTests(a) ==
    /\ Write(a, "replace")
    /\ tests' = ReplacedTests(seen[a], cases[a])
    /\ UNCHANGED <<status, published, definition>>

WritePublish(a) ==
    /\ Write(a, "publish")
    /\ status' = "PUBLISHED"
    /\ published' = TRUE
    /\ UNCHANGED <<definition, tests>>
WriteClose(a) ==
    /\ Write(a, "close")
    /\ status' = "CLOSED"
    /\ UNCHANGED <<published, definition, tests>>
WriteReopen(a) ==
    /\ Write(a, "reopen")
    /\ status' = "PUBLISHED"
    /\ UNCHANGED <<published, definition, tests>>
WriteArchive(a) ==
    /\ Write(a, "archive")
    /\ status' = "ARCHIVED"
    /\ UNCHANGED <<published, definition, tests>>
WriteRestore(a) ==
    /\ Write(a, "restore")
    /\ status' = IF call[a].published THEN "CLOSED" ELSE "DRAFT"
    /\ UNCHANGED <<published, definition, tests>>

(* create reads the class in its transaction.  The insert waits for a class
   that is being archived but does not look at its status again; a second
   insert under the same key is answered with the first and ends in Refuse. *)
CreateRead(a) ==
    /\ At(a, "create", "read")
    /\ status = "NONE"
    /\ class = "ACTIVE"
    /\ TopicThere(input[a])
    /\ input[a]["config"] # Null /\ input[a]["mode"] # "COMPLETION" =>
          Distributable(input[a]["total"], input[a]["config"])
    /\ call' = [call EXCEPT ![a].pc = "write"]
    /\ UNCHANGED <<class, topic, activity, input, seen, cases>>
CreatedDefinition(d) ==
    [d EXCEPT !["rubric"] = IF d["mode"] = "COMPLETION" THEN Null
                            ELSE IF d["config"] # Null THEN DerivedRubric(d["total"], d["config"])
                            ELSE @]
CreateInsert(a) ==
    /\ At(a, "create", "write")
    /\ status = "NONE"
    /\ TopicThere(input[a])
    /\ status' = "DRAFT"
    /\ version' = NextUpdatedAt(version)
    /\ definition' = CreatedDefinition(input[a])
    /\ Over(a)
    /\ UNCHANGED <<class, topic, published, tests>>

-----------------------------------------------------------------------------
TopicGone(next) ==
    /\ topic
    /\ class = "ACTIVE"
    /\ topic' = FALSE
    /\ IF definition["topic"] = TRUE
       THEN /\ version < MaxVersion
            /\ version' = next
            /\ definition' = [definition EXCEPT !["topic"] = FALSE]
       ELSE UNCHANGED <<version, definition>>
    /\ UNCHANGED <<class, status, published, tests, calls>>
(* Mutant: open forms of the activities are not invalidated. *)
RemoveTopicUnnoticed == TopicGone(version)
(* change, action remove, under the lock of the class: activities lose the
   topic and get a new version, then the topic goes. *)
RemoveTopic == TopicGone(NextUpdatedAt(version))

ArchiveClass == class' = "ARCHIVED" /\ UNCHANGED <<topic, activity, calls>>
RestoreClass == class' = "ACTIVE" /\ UNCHANGED <<topic, activity, calls>>

Asks(a) ==
    \/ AskCreate(a) \/ AskUpdate(a) \/ AskReplace(a) \/ AskPublish(a)
    \/ AskClose(a) \/ AskReopen(a) \/ AskArchive(a) \/ AskRestore(a)
Reads(a) ==
    \/ ReadToUpdate(a) \/ ReadToPublish(a) \/ ReadToRestore(a) \/ ReadToReplace(a)
    \/ ReadTestsToPublish(a) \/ ReadTestsToUpdate(a) \/ CreateRead(a)
Writes(a) ==
    \/ WriteUpdate(a) \/ WriteTests(a) \/ WritePublish(a) \/ WriteClose(a)
    \/ WriteReopen(a) \/ WriteArchive(a) \/ WriteRestore(a) \/ CreateInsert(a)

Next ==
    \/ \E a \in Authors : Asks(a) \/ Reads(a) \/ Writes(a) \/ Refuse(a)
    \/ RemoveTopic \/ ArchiveClass \/ RestoreClass

Spec == Init /\ [][Next]_vars
-----------------------------------------------------------------------------
=============================================================================
