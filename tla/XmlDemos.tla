------------------------------- MODULE XmlDemos --------------------------------
(***************************************************************************)
(* tinyxml2/demo03.cpp, demo04.cpp and demo05.cpp: programs that keep a    *)
(* document in a file and work on it in steps, each of which loads it,     *)
(* changes it and saves it.  SaveFile empties the file before it writes,   *)
(* so that a kill leaves an empty one, which LoadFile takes for an error;  *)
(* or it cannot open the file, which is then as before.  A kill is         *)
(* followed by a new run, which finds the file.                            *)
(***************************************************************************)
EXTENDS Integers, Sequences, SequencesExt, FiniteSets

CONSTANTS Programs,     \* a subset of {"demo03", "demo04", "demo05"}
          CameraIds,    \* ids that demo05 may be asked to modify
          MaxRuns,      \* bound on the runs of a program
          MayFail       \* whether SaveFile may fail to open the file

VARIABLES program,      \* the program that is run
          file,         \* its file: none, torn, or the document in it
          step,         \* its next step
          asked,        \* the id that demo05 is asked for
          saving,       \* what is being saved, between emptying and writing
          lost,         \* a save has failed
          nullUsed,     \* this run has used a null pointer
          runs          \* number of runs so far

demoVars == <<program, file, step, asked, saving, lost, nullUsed, runs>>

NoFile == [state |-> "none", doc |-> << >>]
Torn == [state |-> "torn", doc |-> << >>]
Loaded(doc) == [state |-> "loaded", doc |-> doc]
IsLoaded == file.state = "loaded"

\* The functions that main calls, in order.
StepsOf(p) ==
  IF p = "demo03" THEN <<"create", "add1", "add2", "delete", "update", "select", "done">>
  ELSE <<"write", "read", "modify", "again", "done">>
NextStep == LET s == StepsOf(program) IN s[(CHOOSE i \in DOMAIN s : s[i] = step) + 1]

DemoInit ==
  /\ program \in Programs /\ asked \in CameraIds
  /\ file = NoFile /\ step = StepsOf(program)[1]
  /\ saving = << >> /\ lost = FALSE /\ nullUsed = FALSE /\ runs = 1

\* FirstChildElement(tag): the position, or 0.
FirstChild(kids, tag) ==
  LET at == {i \in DOMAIN kids : kids[i].tag = tag}
  IN  IF at = {} THEN 0 ELSE CHOOSE i \in at : \A j \in at : i =< j

Leaf(tag, text) == [tag |-> tag, text |-> text, attr |-> "none"]

\* The function of a step, which saves the document, or returns early; a
\* null pointer ends the program.  SaveFile may fail to open the file.
Does(at, null, saves, doc) ==
  /\ step = at /\ saving = << >> /\ ~nullUsed
  /\ nullUsed' = null /\ step' = IF null THEN "done" ELSE NextStep
  /\ IF null \/ ~saves THEN UNCHANGED <<saving, lost>>
     ELSE \/ saving' = <<doc>> /\ UNCHANGED lost
          \/ MayFail /\ lost' = TRUE /\ UNCHANGED saving
  /\ UNCHANGED <<program, file, asked, runs>>

----------------------------------------------------------------------------
(* demo03 *)

\* createXML: only a file that is not there is made.
CreateUsers ==
  program = "demo03" /\ Does("create", FALSE, file.state = "none", <<[name |-> "dongshao", kids |-> << >>]>>)

\* addXML1
AddUser ==
  LET one == [file.doc EXCEPT ![1].kids = <<Leaf("Gender", "man")>> \o @ \o <<Leaf("Mobile", "3143"), Leaf("Email", "qq")>>]
  IN  Does("add1", FALSE, IsLoaded, Append(one, [name |-> "Tom", kids |-> <<Leaf("Mobile", "3143")>>]))

\* addXML2: an age behind the gender, a second mobile behind the first.
AddedAge(kids) ==
  LET aged == InsertAt(kids, FirstChild(kids, "Gender") + 1, Leaf("Age", "18"))
      m    == FirstChild(aged, "Mobile")
  IN  InsertAt([aged EXCEPT ![m].attr = "home"], m + 1, [Leaf("Mobile", "3143") EXCEPT !.attr = "company"])

AddAge ==
  LET kids == file.doc[1].kids
  IN  Does("add2", IsLoaded /\ (FirstChild(kids, "Gender") = 0 \/ FirstChild(kids, "Mobile") = 0),
           IsLoaded, [file.doc EXCEPT ![1].kids = AddedAge(kids)])

\* deleteXML: the first mobile goes, the next one loses its attribute.
DeleteMobile ==
  LET kids == file.doc[1].kids
      m    == FirstChild(kids, "Mobile")
      rest == RemoveAt(kids, m)
  IN  Does("delete", IsLoaded /\ (m = 0 \/ FirstChild(rest, "Mobile") = 0),
           IsLoaded, [file.doc EXCEPT ![1].kids = [rest EXCEPT ![FirstChild(rest, "Mobile")].attr = "none"]])

TagOf(i) == IF i = 1 THEN "Age" ELSE "Mobile"
TextOf(i) == IF i = 1 THEN "10000" ELSE "8888"

\* updateXML: dongshao is the first user, all others are called Tom.
UpdatedUsers(doc) ==
  [i \in DOMAIN doc |-> [doc[i] EXCEPT !.kids[FirstChild(doc[i].kids, TagOf(i))].text = TextOf(i)]]

UpdateUsers ==
  Does("update", IsLoaded /\ \E i \in DOMAIN file.doc : FirstChild(file.doc[i].kids, TagOf(i)) = 0,
       IsLoaded, UpdatedUsers(file.doc))

\* selectXML reads four children of dongshao.
SelectUser ==
  Does("select", IsLoaded /\ \E tag \in {"Age", "Gender", "Mobile", "Email"} : FirstChild(file.doc[1].kids, tag) = 0,
       FALSE, << >>)

----------------------------------------------------------------------------
(* demo05: two cameras with an attribute id, two with a child DevID *)

Camera(id, dev, type, price) == [id |-> id, dev |-> dev, type |-> type, price |-> price, texts |-> "old"]

\* WriteCameraI and WriteCameraII
CamerasI == <<Camera(5, 0, "home", TRUE), Camera(6, 0, "company", FALSE)>>
CamerasII == <<Camera(0, 7, "none", TRUE), Camera(0, 8, "none", FALSE)>>

\* WriteXML
WriteCameras == program = "demo05" /\ Does("write", FALSE, TRUE, CamerasI \o CamerasII)

\* ParseXML and ReadOneCameraXML: what they read is in all cameras.
ReadCameras == program = "demo05" /\ \E at \in {"read", "again"} : Does(at, FALSE, FALSE, << >>)

\* The end of ModifyOneCameraById: texts, type, and a price where none was.
ModifiedCamera(doc, i) == [doc EXCEPT ![i].type = "hotel", ![i].price = TRUE, ![i].texts = "new"]

\* Its search: by the attribute id; for a camera with a DevID the pointer to
\* the attribute is used, which then is null.
ModifyCamera ==
  LET doc  == file.doc
      hits == {i \in DOMAIN doc : doc[i].id = asked \/ doc[i].dev # 0}
      hit  == CHOOSE i \in hits : \A j \in hits : i =< j
  IN  /\ program = "demo05"
      /\ Does("modify", hits # {} /\ doc[hit].id = 0, IsLoaded, IF hits = {} THEN doc ELSE ModifiedCamera(doc, hit))

----------------------------------------------------------------------------
(* demo04: three cameras, all modified *)

\* Mutant: a file that is there is kept.
WriteInfosOnce == program = "demo04" /\ Does("write", FALSE, file.state = "none", <<"old", "old", "old">>)

\* WriteParam with WriteOneCameraAttibute
WriteInfos == program = "demo04" /\ Does("write", FALSE, TRUE, <<"old", "old", "old">>)

\* ReadParam with ReadOneCameraAttribute
ReadInfos == program = "demo04" /\ \E at \in {"read", "again"} : Does(at, FALSE, FALSE, << >>)

\* ModifyParam with ModifyOneCamera
ModifyInfos == program = "demo04" /\ Does("modify", FALSE, IsLoaded, <<"new", "new", "new">>)

----------------------------------------------------------------------------
(* The file, kills and new runs *)

\* SaveFile prints the document into the file that it has emptied.
WriteFile ==
  /\ saving # << >> /\ saving' = << >> /\ file' = Loaded(saving[1])
  /\ UNCHANGED <<program, step, asked, lost, nullUsed, runs>>

\* A kill, also while the file is being saved, or a run after the end.
NewRun ==
  /\ runs < MaxRuns /\ runs' = runs + 1
  /\ file' = IF saving # << >> THEN Torn ELSE file
  /\ step' = StepsOf(program)[1] /\ saving' = << >> /\ nullUsed' = FALSE
  /\ UNCHANGED <<program, asked, lost>>

DemoNext ==
  \/ CreateUsers \/ AddUser \/ AddAge \/ DeleteMobile \/ UpdateUsers \/ SelectUser
  \/ WriteCameras \/ ReadCameras \/ ModifyCamera
  \/ WriteInfos \/ ReadInfos \/ ModifyInfos
  \/ WriteFile \/ NewRun

----------------------------------------------------------------------------
(* Properties *)

(* However often the programs were killed and run again, no step meets a   *)
(* document without the elements that it uses; only a save that failed,    *)
(* whose result main ignores, leads to a null pointer (demo03.cpp:109-209, *)
(* 211-247).                                                               *)
NoNullPointer == nullUsed => lost

(* What updateXML has set is what selectXML finds, also in a document that *)
(* has grown with every run: the first age of dongshao and the mobile of   *)
(* every Tom (demo03.cpp:157-209).                                         *)
UpdateSticks ==
  step = "select" /\ saving = << >> /\ IsLoaded /\ ~lost =>
    \A i \in DOMAIN file.doc :
      LET kids == file.doc[i].kids
      IN  FirstChild(kids, TagOf(i)) # 0 /\ kids[FirstChild(kids, TagOf(i))].text = TextOf(i)

(* Modifying by id changes that camera and no other, and afterwards it has *)
(* a price (demo05.cpp:320-392).                                           *)
OnlyAskedModified ==
  program = "demo05" /\ step = "again" /\ saving = << >> /\ ~lost =>
    \A i \in DOMAIN file.doc :
      IF file.doc[i].id = asked THEN file.doc[i].texts = "new" /\ file.doc[i].price
      ELSE file.doc[i] = (CamerasI \o CamerasII)[i]

(* Once a kill has left demo03.xml empty, no run makes it whole again:     *)
(* createXML only makes a file that is not there (demo03.cpp:41).          *)
TornForGood == [][program = "demo03" /\ file = Torn => file' = Torn]_demoVars

(* demo04 and demo05 write their file anew, so that what they read and     *)
(* modify is whole after any kill (demo04.cpp:198-212, demo05.cpp:417).    *)
RewrittenWhole ==
  program # "demo03" /\ step # "write" /\ saving = << >> /\ ~lost => IsLoaded
=============================================================================
