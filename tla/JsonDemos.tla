------------------------------- MODULE JsonDemos -------------------------------
(***************************************************************************)
(* cJSON/comment_test.c/comment_test.c and cJSON/demo1/demo1.c: a struct   *)
(* and a document that go through a file.  readJsonFile puts no zero       *)
(* behind what it has read, so that cJSON_Parse also gets what lies in     *)
(* memory behind it.  fopen with "w+" empties the file first: a kill       *)
(* leaves it empty.  A comment has a number, a string and a time for all   *)
(* its fields of these kinds; demo1 needs a member that holds a string and *)
(* one that holds an object.                                               *)
(***************************************************************************)
EXTENDS CJsonText

CONSTANTS JsonPrograms,   \* a subset of {"comment", "demo1"}
          Comments,       \* comments: records user, text, time
          Garbage,        \* what may lie behind the data
          ValueMax,       \* INT_MAX, as the limit of valueint
          MaxJsonRuns     \* bound on the runs

VARIABLES jsonProgram,    \* the program that is run
          disk,           \* what is in its file; << >> for no file
          jsonStep,       \* its next step
          comment,        \* the comment that comment_test writes
          got,            \* what was read, in a sequence of at most one
          edited,         \* the document of demo1's test3
          jsonNull,       \* this run has used a null pointer
          torn,           \* a kill has left the file empty
          denied,         \* fopen has failed in this run
          jsonRuns        \* number of runs so far

jsonDemoVars == <<jsonProgram, disk, jsonStep, comment, got, edited, jsonNull, torn, denied, jsonRuns>>

UserKey == <<117>>
TextKey == <<99>>
TimeKey == <<116>>
HobbyKey == <<104>>

Item(k, v) == [k |-> k, v |-> v]

\* createJson of demo1, and the file that comes with it.
CreateJson == JObj(<<Item(TextKey, JStr(<<109>>)), Item(UserKey, JObj(<<Item(TimeKey, JNum(4))>>))>>)

FirstStep(p) == IF p = "comment" THEN "write" ELSE "read"

JsonDemoInit ==
  /\ jsonProgram \in JsonPrograms /\ comment \in Comments
  /\ disk = IF jsonProgram = "demo1" THEN <<FullText(CreateJson, TRUE)>> ELSE << >>
  /\ jsonStep = FirstStep(jsonProgram)
  /\ got = << >> /\ edited = CreateJson /\ jsonNull = FALSE /\ torn = FALSE /\ denied = FALSE /\ jsonRuns = 1

\* The step that is done; a null pointer ends the program.
JsonDoes(at, null, next) ==
  jsonStep = at /\ ~jsonNull /\ jsonNull' = null /\ jsonStep' = IF null THEN "done" ELSE next

----------------------------------------------------------------------------
(* comment_test.c *)

\* convertToJson
ConvertToJson(c) == JObj(<<Item(UserKey, JNum(c.user)), Item(TextKey, JStr(c.text)), Item(TimeKey, JNum(c.time))>>)

\* valueint of a number
ValueInt(v) == IF v.n >= ValueMax THEN ValueMax ELSE v.n

\* convertToComment, for an object with all members: the time is taken from
\* valuedouble.
ConvertToComment(v) ==
  [user |-> ValueInt(Member(v, UserKey, FALSE)[1]), text |-> Member(v, TextKey, FALSE)[1].s,
   time |-> Member(v, TimeKey, FALSE)[1].n]

Whole(v, keys) == v.t = "obj" /\ \A k \in keys : Member(v, k, FALSE) # << >>

\* test1 and writeJsonFile: the file is emptied, then written, or not opened.
WriteComment ==
  /\ jsonProgram = "comment"
  /\ \/ JsonDoes("write", FALSE, "writing") /\ disk' = <<<< >>>> /\ UNCHANGED denied
     \/ JsonDoes("write", FALSE, "read") /\ denied' = TRUE /\ UNCHANGED disk
     \/ JsonDoes("writing", FALSE, "read") /\ disk' = <<FullText(ConvertToJson(comment), TRUE)>> /\ UNCHANGED denied
  /\ UNCHANGED <<jsonProgram, comment, got, edited, torn, jsonRuns>>

\* test2: readJsonFile and readJsonFromData.  A text that is no JSON is
\* passed over; a value without the members leads to a null pointer.
ReadComment ==
  \E g \in Garbage :
    LET r    == Parse(disk[1] \o g, FALSE)
        null == r.ok /\ ~Whole(r.v, {UserKey, TextKey, TimeKey})
    IN  /\ jsonProgram = "comment" /\ disk # << >> /\ JsonDoes("read", null, "done")
        /\ got' = IF r.ok /\ ~null THEN <<ConvertToComment(r.v)>> ELSE << >>
        /\ UNCHANGED <<jsonProgram, disk, comment, edited, torn, denied, jsonRuns>>

\* fopen in readJsonFile fails, certainly without a file: fseek gets a null pointer.
ReadCommentFails ==
  /\ jsonProgram = "comment" /\ JsonDoes("read", TRUE, "done")
  /\ denied' = TRUE /\ got' = << >>
  /\ UNCHANGED <<jsonProgram, disk, comment, edited, torn, jsonRuns>>

----------------------------------------------------------------------------
(* demo1.c *)

\* test2: readJsonFile, analysisJsonObj and analysisJsonPrint.
ReadDemo ==
  \E g \in Garbage :
    LET r    == Parse(disk[1] \o g, FALSE)
        null == r.ok /\ ~Whole(r.v, {UserKey, TextKey})
    IN  /\ jsonProgram = "demo1" /\ JsonDoes("read", null, "write")
        /\ got' = IF r.ok /\ ~null THEN <<r.v>> ELSE << >>
        /\ UNCHANGED <<jsonProgram, disk, comment, edited, torn, denied, jsonRuns>>

\* fopen fails: cJSON_Parse gets a null pointer and returns one.
ReadDemoFails ==
  /\ jsonProgram = "demo1" /\ JsonDoes("read", FALSE, "write")
  /\ denied' = TRUE /\ got' = << >>
  /\ UNCHANGED <<jsonProgram, disk, comment, edited, torn, jsonRuns>>

\* writeJsonFile: nothing for a text that was not parsed, or without a file.
WriteDemo ==
  /\ jsonProgram = "demo1"
  /\ \/ got # << >> /\ JsonDoes("write", FALSE, "writing") /\ disk' = <<<< >>>> /\ UNCHANGED denied
     \/ got # << >> /\ JsonDoes("write", FALSE, "add") /\ denied' = TRUE /\ UNCHANGED disk
     \/ got = << >> /\ JsonDoes("write", FALSE, "add") /\ UNCHANGED <<disk, denied>>
     \/ JsonDoes("writing", FALSE, "add") /\ disk' = <<FullText(got[1], TRUE)>> /\ UNCHANGED denied
  /\ UNCHANGED <<jsonProgram, comment, got, edited, torn, jsonRuns>>

\* cJSON_ReplaceItemInObject and cJSON_DetachItemFromObject in a document
\* where the name comes at most once.
ReplaceMember(o, k, v) == JObj([i \in DOMAIN o.e |-> IF SameName(o.e[i].k, k, FALSE) THEN Item(k, v) ELSE o.e[i]])
DetachMember(o, k) ==
  LET at == {i \in DOMAIN o.e : SameName(o.e[i].k, k, FALSE)}
  IN  IF at = {} THEN o ELSE JObj(RemoveAt(o.e, CHOOSE i \in at : \A j \in at : i =< j))

\* test3: addDataToJson, updateDataToJson and deleteDataToJson.
EditDemo ==
  /\ jsonProgram = "demo1"
  /\ \/ JsonDoes("add", FALSE, "update") /\ edited' = JObj(Append(edited.e, Item(HobbyKey, JArr(<<JNum(1)>>))))
     \/ JsonDoes("update", FALSE, "delete") /\ edited' = ReplaceMember(edited, HobbyKey, JArr(<<JNum(2)>>))
     \/ JsonDoes("delete", FALSE, "done") /\ edited' = DetachMember(edited, HobbyKey)
  /\ UNCHANGED <<jsonProgram, disk, comment, got, torn, denied, jsonRuns>>

\* A kill, or a run after the end.
NewJsonRun ==
  /\ jsonRuns < MaxJsonRuns /\ jsonRuns' = jsonRuns + 1
  /\ jsonStep' = FirstStep(jsonProgram) /\ got' = << >> /\ edited' = CreateJson /\ jsonNull' = FALSE /\ denied' = FALSE
  /\ torn' = (torn \/ (jsonProgram = "demo1" /\ jsonStep = "writing"))
  /\ UNCHANGED <<jsonProgram, disk, comment>>

JsonDemoNext ==
  \/ WriteComment \/ ReadComment \/ ReadCommentFails \/ ReadDemo \/ ReadDemoFails
  \/ WriteDemo \/ EditDemo \/ NewJsonRun

----------------------------------------------------------------------------
(* Properties *)

(* Where its file can be opened, a comment comes back as it was written,   *)
(* whatever lies in memory behind the text that was read without a zero    *)
(* (comment_test.c:77-130, 179-205).                                       *)
CommentKept == jsonProgram = "comment" /\ jsonStep = "done" /\ ~denied => got = <<comment>>

(* The document of demo1.json is the same after any number of runs, or     *)
(* lost to a kill between emptying and writing; the members that are used  *)
(* without a test are missing only then (demo1.c:153-231, 327-383).        *)
DocumentKept ==
  jsonProgram = "demo1" =>
    /\ jsonNull => torn
    /\ jsonStep = "write" /\ ~torn /\ ~denied => got = <<CreateJson>>

(* What test3 adds and replaces it takes away again (demo1.c:414-424).     *)
EditsUndone == jsonProgram = "demo1" /\ jsonStep = "done" /\ ~jsonNull => edited = CreateJson
=============================================================================
