------------------------------- MODULE TxMenu -------------------------------
(***************************************************************************)
(* The transmitter's settings: what the menu on the handset shows, the     *)
(* copy in RAM, the copy in flash, and the way of an edit from one to the  *)
(* other. A request of the handset waits in one place until the menu       *)
(* device's next turn, and a later one takes that place. An edit changes   *)
(* RAM at once; it is written to flash when the SYNC packets that announce *)
(* it are out and the transmitter is not binding, by erasing the page and  *)
(* writing it again. The handset may choose another model's settings.      *)
(***************************************************************************)
EXTENDS Naturals

CONSTANTS
  Fields,    \* settings that can be edited
  Refreshed, \* those whose edit redraws the whole menu, or their own line
  Values,    \* of a setting
  Standard,  \* the default
  Erased,    \* what a cell of the erased page reads as
  Clamped,   \* settings whose getter replaces a value out of range
  Models, FirstModel,
  Blank, Old, \* flash without settings, and with those of an older version
  MaxMenuEdits, MaxMenuStarts \* bounds on the writes and on the power cycles

ASSUME TxMenuAssumption ==
  /\ Standard \in Values /\ Erased \notin Values /\ FirstModel \in Models
  /\ Refreshed \subseteq Fields /\ Clamped \subseteq Fields
  /\ MaxMenuEdits \in Nat /\ MaxMenuStarts \in Nat

VARIABLES
  request,   \* parameterType, parameterIndex and parameterArg, or NoRequest
  ram,       \* the settings of every model, whose turn it is, and whether they differ
             \* from flash (m_config, m_modelId, m_modified)
  flash,
  shown,     \* the value the menu shows for each field
  due,       \* what waits: announcement, model update, device event, binding
  menuUsed   \* how much of the bounds is used up

menuVars == <<request, ram, flash, shown, due, menuUsed>>

NoRequest == [type |-> "none"]
Writes == [type : {"write"}, field : Fields, arg : Values \cup {Erased}]
MenuRequests == Writes \cup [type : {"read", "ping", "status", "bind"}]
Configs == [Models -> [Fields -> Values \cup {Erased}]]
Defaults == [m \in Models |-> [f \in Fields |-> Standard]]

\* The version in a page tells these two from settings that can be used.
ASSUME PagesAssumption == Blank \notin Configs /\ Old \notin Configs

\* The getters: the air rate is brought back into range, the other settings are not.
Getter(f, v) == IF f \in Clamped /\ v = Erased THEN Standard ELSE v
Drawn(r) == [f \in Fields |-> Getter(f, r.config[r.model][f])]
-----------------------------------------------------------------------------
\* TxConfigLoad: settings of this version are taken as they are, of any other the
\* defaults.
Loaded(page) == IF page \in {Blank, Old} THEN Defaults ELSE page

\* setup and the menu's start with what the page holds: the defaults that stand for a
\* page without settings are written to it, those for an older page are not.
StartFrom(page) ==
  /\ ram' = [config |-> Loaded(page), model |-> FirstModel, modified |-> FALSE]
  /\ flash' = IF page = Blank THEN Defaults ELSE page
  /\ shown' = Drawn(ram')
  /\ due' = [spam |-> FALSE, model |-> FALSE, event |-> FALSE, binding |-> FALSE]
  /\ request' = NoRequest
  /\ menuUsed.starts < MaxMenuStarts
  /\ menuUsed' = [menuUsed EXCEPT !.starts = @ + 1]

TxMenuPowerCycle == StartFrom(flash)

\* luaParamUpdateReq: the place is taken, whatever waited in it.
ParamUpdateReq ==
  \E r \in MenuRequests :
    /\ r.type = "write" => menuUsed.edits < MaxMenuEdits
    /\ request' = r
    /\ menuUsed' = [menuUsed EXCEPT !.edits = IF r.type = "write" THEN @ + 1 ELSE @]
    /\ UNCHANGED <<ram, flash, shown, due>>

\* Mutant of Edited: a setting whose edit does not redraw the menu is not marked.
EditedUnmarked(f, v) ==
  [ram EXCEPT !.config[ram.model][f] = v,
              !.modified = @ \/ (f \in Refreshed /\ ram.config[ram.model][f] # v)]

\* A setter of config.c: an unchanged value marks nothing.
Edited(f, v) ==
  [ram EXCEPT !.config[ram.model][f] = v,
              !.modified = @ \/ ram.config[ram.model][f] # v]

\* What the menu's callback makes of an argument out of range: it is refused, or the
\* standard value taken.
Allowed(f, arg) == IF arg = Erased THEN {Standard, ram.config[ram.model][f]} ELSE {arg}

\* The callback of a field and, if it changed the settings, SetSyncSpam.
WriteField(f, arg) ==
  \E v \in Allowed(f, arg) :
    /\ ram' = Edited(f, v)
    /\ shown' = IF f \in Refreshed THEN Drawn(ram') ELSE shown
    /\ due' = [due EXCEPT !.spam = @ \/ (ram'.config # ram.config /\ ram'.modified)]

\* luaHandleUpdateParameter, from the menu device's timeout. Reading a field, a ping
\* and the status answer and change no setting; the Bind command enters binding mode,
\* which drops an announcement and raises a device event.
HandleUpdateParameter ==
  /\ request # NoRequest /\ request' = NoRequest
  /\ CASE request.type = "write" -> WriteField(request.field, request.arg)
       [] request.type = "bind" ->
            /\ due' = IF due.binding THEN due
                      ELSE [due EXCEPT !.binding = TRUE, !.event = TRUE, !.spam = FALSE]
            /\ UNCHANGED <<ram, shown>>
       [] OTHER -> UNCHANGED <<ram, shown, due>>
  /\ UNCHANGED <<flash, menuUsed>>

\* event of the menu device.
MenuEvent ==
  /\ due.event
  /\ shown' = Drawn(ram) /\ due' = [due EXCEPT !.event = FALSE]
  /\ UNCHANGED <<request, ram, flash, menuUsed>>

\* A model select command: ModelUpdateReq announces the other model's settings.
ModelSelect(m) ==
  LET other == m # ram.model
  IN /\ ram' = [ram EXCEPT !.model = m]
     /\ due' = [due EXCEPT !.event = TRUE, !.spam = @ \/ other, !.model = @ \/ other]
     /\ UNCHANGED <<request, flash, shown, menuUsed>>

\* The radio has sent what announces the change.
Announced ==
  /\ due.spam /\ due' = [due EXCEPT !.spam = FALSE]
  /\ UNCHANGED <<request, ram, flash, shown, menuUsed>>

LeaveBinding ==
  /\ due.binding /\ due' = [due EXCEPT !.binding = FALSE, !.event = TRUE]
  /\ UNCHANGED <<request, ram, flash, shown, menuUsed>>

CommitDue == (ram.modified \/ due.model) /\ ~due.binding /\ ~due.spam

\* Mutant of AfterCommit: no device hears of it.
AfterCommitQuiet == [due EXCEPT !.model = FALSE]

\* ChangeRadioParams: the model update is over and the devices are told.
AfterCommit == [due EXCEPT !.model = FALSE, !.event = TRUE]

\* ConfigChangeCommit
ConfigChangeCommit ==
  /\ CommitDue
  /\ flash' = IF ram.modified THEN ram.config ELSE flash
  /\ ram' = [ram EXCEPT !.modified = FALSE]
  /\ due' = AfterCommit
  /\ UNCHANGED <<request, shown, menuUsed>>

\* The power fails between the erasure of the page and the last word written.
ConfigCommitCutOff ==
  /\ CommitDue /\ ram.modified
  /\ \/ StartFrom(Blank)
     \/ \E written \in SUBSET Models :
          StartFrom([m \in Models |-> IF m \in written THEN ram.config[m]
                                      ELSE [f \in Fields |-> Erased]])

MenuInit ==
  /\ \E page \in {Blank, Old} :
       /\ ram = [config |-> Loaded(page), model |-> FirstModel, modified |-> FALSE]
       /\ flash = IF page = Blank THEN Defaults ELSE page
  /\ shown = Drawn(ram)
  /\ due = [spam |-> FALSE, model |-> FALSE, event |-> FALSE, binding |-> FALSE]
  /\ request = NoRequest /\ menuUsed = [edits |-> 0, starts |-> 0]

MenuNext ==
  \/ TxMenuPowerCycle \/ ParamUpdateReq \/ HandleUpdateParameter \/ MenuEvent
  \/ \E m \in Models : ModelSelect(m)
  \/ Announced \/ LeaveBinding \/ ConfigChangeCommit \/ ConfigCommitCutOff

MenuSpec == MenuInit /\ [][MenuNext]_menuVars
-----------------------------------------------------------------------------
\* The variables hold values of their types.
MenuTypeOK ==
  /\ request \in MenuRequests \cup {NoRequest}
  /\ ram \in [config : Configs, model : Models, modified : BOOLEAN]
  /\ flash \in Configs \cup {Old}
  /\ shown \in [Fields -> Values \cup {Erased}]
  /\ due \in [spam : BOOLEAN, model : BOOLEAN, event : BOOLEAN, binding : BOOLEAN]
  /\ menuUsed \in [edits : 0 .. MaxMenuEdits, starts : 0 .. MaxMenuStarts]

\* When nothing is marked as modified, a restart would come up with the settings the
\* transmitter runs with, however the page came to be what it is: defaults that were
\* not stored, a commit, or a commit cut off.
RestartKeepsSettings == ~ram.modified => Loaded(flash) = ram.config

\* When every edit is stored and no event waits, the menu shows the settings of the
\* model that is selected: some edits redraw the menu themselves, others rely on the
\* event of the commit, a change of model on its own.
MenuShowsSettings == ~ram.modified /\ ~due.event => shown = Drawn(ram)
=============================================================================
