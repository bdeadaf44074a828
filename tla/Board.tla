------------------------------- MODULE Board -------------------------------
(***************************************************************************)
(* lib/board.c over ConfFile: libsoc_board_init loads the configuration    *)
(* that LIBSOC_CONF names, or else each .conf file of a directory in the   *)
(* order readdir gives until one names the model of this board;            *)
(* libsoc_board_free gives it back.                                        *)
(*                                                                         *)
(* The variables of ConfFile are those of the load under way or, if there  *)
(* is none, of the latest one.                                             *)
(***************************************************************************)
EXTENDS ConfFile

CONSTANTS BoardName, ModelKey, \* "board" and "model"
          MaxFiles,            \* bound on the .conf files of the directory
          BoardFaults          \* what may fail: "opendir", "calloc"

ASSUME BoardAssumption ==
  BoardName \in Names /\ ModelKey \in Keys /\ MaxFiles \in Nat

VARIABLES phase,    \* of libsoc_board_init, or "out" of it, or "crashed"
          tried,    \* how many files of the directory this call loaded
          bc,       \* the program holds a board_config, with the latest conffile
          probed,   \* what file_read_contents gave for the latest file
          lists     \* how many conffiles loaded have their list of sections,
                    \* which may be empty, and settings not freed

boardVars == <<vars, phase, tried, bc, probed, lists>>

BoardTypeOK ==
  /\ TypeOK
  /\ phase \in {"out", "named", "probe", "file", "crashed"}
  /\ tried \in 0..MaxFiles
  /\ bc \in BOOLEAN
  /\ probed \in Values \cup {NULL}
  /\ lists \in 0..1

-----------------------------------------------------------------------------
(* The definitions named Bug... are faulty versions of the code that the   *)
(* properties below reject; nothing else uses them.                        *)

(* conffile_load: a file that cannot be opened loads like an empty one.    *)
BeginLoad ==
  /\ Restart
  /\ lists' = lists + 1

LoadStep ==
  /\ phase \in {"named", "file"}
  /\ Next
  /\ lists' = IF status' = "failed" THEN lists - 1 ELSE lists
  /\ phase' = IF status' = "crashed" THEN "crashed" ELSE phase
  /\ UNCHANGED <<tried, bc, probed>>

(* conffile_free: the settings and sections are freed, and the conffile    *)
(* that had them stays allocated for ever, as it does when a load fails.   *)
FreeLists == Discard /\ lists' = lists - 1
BugKeepLists == Discard /\ UNCHANGED lists
MismatchFrees == FreeLists

-----------------------------------------------------------------------------
(* libsoc_board_init: access finds the named file.  The board_config is    *)
(* allocated before the load and without a test.                           *)
InitNamed ==
  /\ phase = "out" /\ ~bc
  /\ tried' = 0
  /\ \/ phase' = "named" /\ BeginLoad
     \/ /\ "calloc" \in BoardFaults
        /\ phase' = "crashed"
        /\ UNCHANGED <<vars, lists>>
  /\ UNCHANGED <<bc, probed>>

NamedLoaded ==
  /\ phase = "named"
  /\ status \in {"loaded", "failed"}
  /\ bc' = (status = "loaded")
  /\ phase' = "out"
  /\ UNCHANGED <<vars, tried, probed, lists>>

(* There is no such file: _probe, which opens the directory. *)
InitProbe ==
  /\ phase = "out" /\ ~bc
  /\ tried' = 0
  /\ \/ phase' = "probe"
     \/ "opendir" \in BoardFaults /\ UNCHANGED phase
  /\ UNCHANGED <<vars, bc, probed, lists>>

ProbeFile ==
  /\ phase = "probe"
  /\ tried < MaxFiles
  /\ tried' = tried + 1
  /\ phase' = "file"
  /\ BeginLoad
  /\ UNCHANGED <<bc, probed>>

EndOfDirectory ==
  /\ phase = "probe"
  /\ phase' = "out"
  /\ UNCHANGED <<vars, tried, bc, probed, lists>>

FileFailed ==
  /\ phase = "file" /\ status = "failed"
  /\ phase' = "probe"
  /\ UNCHANGED <<vars, tried, bc, probed, lists>>

(* _probe_config, which reads the file that dtfile names only if there is  *)
(* a model to compare; what is in it, if it can be read, may be any value. *)
BugMatches(model, contents) == contents # NULL
Matches(model, contents) == model # NULL /\ contents = model

ProbeConfig ==
  LET model == ConffileGet(BoardName, ModelKey, NULL) IN
  /\ phase = "file" /\ status = "loaded"
  /\ probed' \in IF model = NULL THEN {NULL} ELSE Values \cup {NULL}
  /\ \/ /\ Matches(model, probed')
        /\ \/ bc' = TRUE /\ phase' = "out"
           \/ "calloc" \in BoardFaults /\ phase' = "crashed" /\ UNCHANGED bc
        /\ UNCHANGED <<vars, lists>>
     \/ /\ ~Matches(model, probed')
        /\ MismatchFrees
        /\ phase' = "probe"
        /\ UNCHANGED bc
  /\ UNCHANGED tried

(* libsoc_board_free *)
BoardFree ==
  /\ phase = "out" /\ bc
  /\ FreeLists
  /\ bc' = FALSE
  /\ UNCHANGED <<phase, tried, probed>>

BoardInit ==
  /\ Init
  /\ phase = "out"
  /\ tried = 0
  /\ bc = FALSE
  /\ probed = NULL
  /\ lists = 0

BoardNext ==
  \/ LoadStep
  \/ InitNamed \/ NamedLoaded
  \/ InitProbe \/ ProbeFile \/ FileFailed \/ ProbeConfig \/ EndOfDirectory
  \/ BoardFree

BoardSpec == BoardInit /\ [][BoardNext]_boardVars

-----------------------------------------------------------------------------
(* Memory (board.c:70-77, 99-105, conffile.c:105-136): out of              *)
(* libsoc_board_init the only sections and settings that are allocated are *)
(* those of the board_config's conffile, whatever failed and however many  *)
(* files were tried.  Of the conffile structs themselves, which nothing    *)
(* frees, it says nothing: each load leaves one behind.                    *)
ListsAccounted == phase = "out" => lists = IF bc THEN 1 ELSE 0

(* Probing (board.c:24-43, 63-82): a configuration that was found in the   *)
(* directory is for this board, as its text has it: the last model of its  *)
(* last [board] section is what the device tree says.                      *)
ProbedBoardIsOurs ==
  bc /\ tried > 0 =>
    /\ HeadersOf(BoardName) # {}
    /\ LET models == SettingsAfter(Max(HeadersOf(BoardName)), ModelKey) IN
       /\ models # {}
       /\ file[Max(models)].val = probed
=============================================================================
