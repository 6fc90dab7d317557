--------------------------- MODULE SocPerfExecutor ---------------------------
(***************************************************************************)
(* The executor's SocPerf plugin: SocPerfConfig loads the resource nodes   *)
(* from the configuration files, SocPerfExecutorWirteNode writes their     *)
(* defaults and then what the service asks for.                            *)
(*                                                                         *)
(* A node has an id, a default, the values it takes (levels, for a         *)
(* governor, which has a string for each) and a pair it needs; a report    *)
(* node is not written.  A declaration whose attributes (tag) or           *)
(* contents are wrong fails the load.                                      *)
(***************************************************************************)
EXTENDS Integers, FiniteSets, SequencesExt

CONSTANTS
  NodeIds,       \* ids of resource nodes, and of none
  ConfigFiles,   \* configurations: sequences of files, a file a sequence of
                 \* groups [gov, decls], decls a sequence of declarations
  AskedValues    \* values the service asks for

NODE_DEFAULT_VALUE == -1
Unwritten == -2
INVALID_VALUE == -3      \* no pair

ResourceNodes == [id : NodeIds, gov : BOOLEAN, report : BOOLEAN, def : Int,
                  levels : SUBSET Int, pair : Int]
Declarations == [id : NodeIds, gov : BOOLEAN, report : BOOLEAN, def : Int, levels : SUBSET Int,
                 pair : Int, tag : BOOLEAN, contents : BOOLEAN]
ResourceGroups == [gov : BOOLEAN, decls : Seq(Declarations)]
ASSUME SocExeAssumption == ConfigFiles \subseteq Seq(Seq(ResourceGroups)) /\ AskedValues \subseteq Int

VARIABLES
  socFiles,        \* the configuration files
  subscribedNode,  \* functionMap_ holds the handler
  resourceNodeInfo, loadOk,
  nullNodes,       \* ids that operator[] entered with a null node
  fdInfo,          \* ids whose file is open
  nodeFile,        \* what was last written to a node
  undefinedRead,   \* an undefined value was read: nothing is known after
  strangeId        \* history: an id without a node was asked for

socExeVars == <<socFiles, subscribedNode, resourceNodeInfo, loadOk, nullNodes, fdInfo,
                nodeFile, undefinedRead, strangeId>>

Defaults == {n.def : n \in resourceNodeInfo}
SocExeTypeOK ==
  /\ socFiles \in ConfigFiles /\ subscribedNode \in BOOLEAN /\ loadOk \in BOOLEAN
  /\ \A n \in resourceNodeInfo : n.id \in NodeIds
  /\ \A m, n \in resourceNodeInfo : m.id = n.id => m = n
  /\ nullNodes \subseteq NodeIds /\ fdInfo \subseteq NodeIds
  /\ nodeFile \in [NodeIds -> AskedValues \cup Defaults \cup {Unwritten}]
  /\ undefinedRead \in BOOLEAN /\ strangeId \in BOOLEAN

SocExeInit ==
  /\ socFiles \in ConfigFiles /\ subscribedNode = FALSE
  /\ resourceNodeInfo = {} /\ loadOk = TRUE /\ nullNodes = {} /\ fdInfo = {}
  /\ nodeFile = [i \in NodeIds |-> Unwritten]
  /\ undefinedRead = FALSE /\ strangeId = FALSE

-----------------------------------------------------------------------------
(* SocPerfConfig.  A load is [nodes, ok]; it stops where it fails and      *)
(* keeps the nodes it has.  An id that is known is skipped: the first file *)
(* that declares it wins, and a second load of the plugin goes on past a   *)
(* governor that stopped the first.                                        *)
Fails(r) == [r EXCEPT !.ok = FALSE]
Insert(r, d) ==
  [r EXCEPT !.nodes = @ \cup {[id |-> d.id, gov |-> d.gov, report |-> d.report,
                               def |-> d.def, levels |-> d.levels, pair |-> d.pair]}]
KnownId(nodes, i) == \E n \in nodes : n.id = i
NodeOf(nodes, i) == CHOOSE n \in nodes : n.id = i

CheckResourceTag(d) == d.tag
LoadFreqResourceContent(r, d) == IF d.contents THEN Insert(r, d) ELSE Fails(r)
TraversalFreqResource(r, d) ==
  IF ~CheckResourceTag(d) THEN Fails(r)
  ELSE IF KnownId(r.nodes, d.id) THEN r ELSE LoadFreqResourceContent(r, d)

(* A governor is entered before its contents are read.                     *)
CheckGovResourceTag(d) == d.tag
TraversalGovResource(r, d) ==
  IF d.contents THEN Insert(r, d) ELSE Fails(Insert(r, [d EXCEPT !.levels = {}]))
GovResource(r, d) ==
  IF ~CheckGovResourceTag(d) THEN Fails(r)
  ELSE IF KnownId(r.nodes, d.id) THEN r ELSE TraversalGovResource(r, d)

CheckPairResIdValid(nodes) ==
  \A n \in nodes : ~n.gov /\ n.pair # INVALID_VALUE => KnownId(nodes, n.pair)
(* Mutant: the default of a governor is not looked at.                     *)
CheckDefValidNoGov(nodes) == \A n \in nodes : ~n.gov /\ n.levels # {} => n.def \in n.levels
CheckDefValid(nodes) == \A n \in nodes : n.levels # {} => n.def \in n.levels

LoadResource(r, group) ==
  LET load == FoldLeft(LAMBDA q, d : IF q.ok THEN TraversalFreqResource(q, d) ELSE q,
                       r, group.decls)
  IN  [load EXCEPT !.ok = @ /\ CheckPairResIdValid(load.nodes) /\ CheckDefValid(load.nodes)]
LoadGovResource(r, group) ==
  LET load == FoldLeft(LAMBDA q, d : IF q.ok THEN GovResource(q, d) ELSE q,
                       r, group.decls)
  IN  [load EXCEPT !.ok = @ /\ CheckDefValid(load.nodes)]
ParseResourceXmlFile(r, file) ==
  FoldLeft(LAMBDA q, g : IF ~q.ok THEN q
                         ELSE IF g.gov THEN LoadGovResource(q, g) ELSE LoadResource(q, g),
           r, file)
LoadAllConfigXmlFile(nodes, files) ==
  FoldLeft(LAMBDA q, f : IF q.ok THEN ParseResourceXmlFile(q, f) ELSE q,
           [nodes |-> nodes, ok |-> TRUE], files)

-----------------------------------------------------------------------------
(* SocPerfExecutorWirteNode: a file is opened at its first write and kept  *)
(* open; one that cannot be opened is not written.                         *)
GetFdForFilePath(i, opens) == i \in fdInfo \/ i \in opens

(* InitThreadWraps, whatever Init answered: the defaults.  The string of a *)
(* governor's default is read from levelToStr without a look.              *)
InitResourceNodeInfo(nodes, opens) ==
  LET written == {n \in nodes : ~n.report /\ GetFdForFilePath(n.id, opens)}
  IN  /\ nodeFile' = [i \in NodeIds |-> IF KnownId(written, i) THEN NodeOf(written, i).def
                                                              ELSE nodeFile[i]]
      /\ fdInfo' = fdInfo \cup {n.id : n \in written}
      /\ undefinedRead' = \/ \E n \in nodes : n.gov /\ ~n.report /\ n.def \notin n.levels
                          \/ nullNodes # {}   \* the checks of the load met a null node

SocPerfPluginInit ==
  /\ ~subscribedNode /\ subscribedNode' = TRUE /\ ~undefinedRead
  /\ LET load == LoadAllConfigXmlFile(resourceNodeInfo, socFiles)
     IN  /\ resourceNodeInfo' = load.nodes /\ loadOk' = load.ok
         /\ \E opens \in SUBSET NodeIds : InitResourceNodeInfo(load.nodes, opens)
  /\ UNCHANGED <<socFiles, nullNodes, strangeId>>
SocPerfPluginDisable ==
  /\ subscribedNode /\ subscribedNode' = FALSE
  /\ UNCHANGED <<socFiles, resourceNodeInfo, loadOk, nullNodes, fdInfo, nodeFile,
                 undefinedRead, strangeId>>

IsGovResId(i) == KnownId(resourceNodeInfo, i) /\ NodeOf(resourceNodeInfo, i).gov
WriteNode(i, v) ==
  IF NodeOf(resourceNodeInfo, i).report THEN UNCHANGED <<nodeFile, fdInfo>>
  ELSE \/ /\ nodeFile' = [nodeFile EXCEPT ![i] = v] /\ fdInfo' = fdInfo \cup {i}
       \/ i \notin fdInfo /\ UNCHANGED <<nodeFile, fdInfo>>
(* An id without a node has a null one.                                    *)
UpdateCurrentValue(i, v) ==
  /\ undefinedRead' = ~KnownId(resourceNodeInfo, i)
  /\ IF undefinedRead' \/ (IsGovResId(i) /\ v \notin NodeOf(resourceNodeInfo, i).levels)
       THEN UNCHANGED <<nodeFile, fdInfo>>
       ELSE WriteNode(i, v)
UpdateResIdCurrentValue(i, v) ==
  IF v # NODE_DEFAULT_VALUE THEN UpdateCurrentValue(i, v) /\ UNCHANGED nullNodes
  ELSE IF KnownId(resourceNodeInfo, i)
    THEN UpdateCurrentValue(i, NodeOf(resourceNodeInfo, i).def) /\ UNCHANGED nullNodes
    ELSE nullNodes' = nullNodes \cup {i} /\ UNCHANGED <<nodeFile, fdInfo, undefinedRead>>

(* A request for several ids is one of these after the other; one whose    *)
(* lists differ in length is dropped.                                      *)
SocPerfWirteNode(i, v, sameLength) ==
  /\ subscribedNode /\ ~undefinedRead
  /\ IF sameLength
       THEN /\ UpdateResIdCurrentValue(i, v)
            /\ strangeId' = (strangeId \/ ~KnownId(resourceNodeInfo, i))
       ELSE UNCHANGED <<nodeFile, fdInfo, undefinedRead, nullNodes, strangeId>>
  /\ UNCHANGED <<socFiles, subscribedNode, resourceNodeInfo, loadOk>>

SocExeNext ==
  \/ SocPerfPluginInit \/ SocPerfPluginDisable
  \/ \E i \in NodeIds, v \in AskedValues \cup {NODE_DEFAULT_VALUE}, sameLength \in BOOLEAN :
       SocPerfWirteNode(i, v, sameLength)

SocExeSpec == SocExeInit /\ [][SocExeNext]_socExeVars

-----------------------------------------------------------------------------
(* The checks of the load are enough for the writes: after a load that     *)
(* succeeded, in whatever order the files declare the nodes, no write      *)
(* reads an undefined value, unless a governor has paths and no levels or  *)
(* an id without a node is asked for; and a governor's file only ever      *)
(* holds a level of its configuration.                                     *)
NodeWritesDefined ==
  /\ undefinedRead => \/ ~loadOk \/ strangeId
                      \/ \E n \in resourceNodeInfo : n.gov /\ n.levels = {}
  /\ loadOk => \A n \in resourceNodeInfo :
       n.gov /\ n.levels # {} => nodeFile[n.id] \in n.levels \cup {Unwritten}
=============================================================================
