------------------------------- MODULE Editor ------------------------------
(***************************************************************************)
(* The configuration editor (core/rcamcfg.cpp, class StrmMap of            *)
(* core/rcamcfg.hpp): what its menus make of the cameras, the streams of   *)
(* the raw output and the layers of the composite one, and where it saves  *)
(* the file the capture will load.                                         *)
(*                                                                         *)
(* A source is the number of a camera in the order of the object /Cameras, *)
(* doubled, plus the number of one of its streams; the capture resolves it *)
(* by the same order.  One action is one choice in a menu with all it asks *)
(* for.  Crops, scales, codecs, controls and sizes are left out, and with  *)
(* them what displayLayer shows of a layer: it takes the source's camera   *)
(* by libcamera's order, which need not be that of /Cameras, so it may     *)
(* show the size of another camera, or throw, which Exit stands for.       *)
(***************************************************************************)
EXTENDS Naturals, FiniteSets, SequencesExt, JsonFiles

CONSTANTS Locations,  \* where cameras may be plugged in
          TwoStream,  \* the locations whose cameras may give two streams (CSI)
          Installed,  \* the sets of directories an installation may begin with
          MaxLayers   \* bound, per container: how many layers are configured

Container == {"Raw", "Comp"}

ASSUME EditorAssumption ==
  /\ IsFiniteSet(Locations)
  /\ TwoStream \subseteq Locations
  /\ Installed \subseteq SUBSET {"path", "home", "etc"}
  /\ MaxLayers \in [Container -> Nat]

Layer == [source : Nat, overlay : BOOLEAN, camera : Locations]
CameraMember == [loc : Locations, streams : 0..2]
Places == {"path", "home", "etc"}

VARIABLES cameras,     \* the members of /Cameras, in order
          dest,        \* per container, its /Destination
          layers,      \* /Outputs/Raw/Streams and /Outputs/Composite/Layers;
                       \* camera: history, the location chosen for the source
          editor,      \* the editor's process
          dirty,       \* there are changes that are not saved
          saved,       \* history: something was saved
          path,        \* the command line names a directory
          dirs,        \* the directories that exist
          files,       \* per place, what the configuration file is
          disabled,    \* history: a camera was disabled
          reduced      \* history: a camera lost its second stream

configVars == <<cameras, dest, layers>>
fileVars == <<path, dirs, files>>
vars == <<configVars, fileVars, editor, dirty, saved, disabled, reduced>>

TypeOK ==
  /\ cameras \in Seq(CameraMember)
  /\ Len(cameras) <= Cardinality(Locations)
  /\ dest \in [Container -> {"none", "file", "youtube"}]
  /\ layers \in [Container -> Seq(Layer)]
  /\ {dirty, saved, path, disabled, reduced} \subseteq BOOLEAN
  /\ editor \in {"closed", "open", "dead"}
  /\ dirs \subseteq Places
  /\ files \in [Places -> {"absent", "old", "current"}]

(* Whatever directories and files there are; the file that is read first,  *)
(* if there is one, configures nothing.                                    *)
Init ==
  /\ cameras = <<>>
  /\ dest = [t \in Container |-> "none"]
  /\ layers = [t \in Container |-> <<>>]
  /\ editor = "closed"
  /\ dirty = FALSE
  /\ saved = FALSE
  /\ path \in BOOLEAN
  /\ dirs \in Installed
  /\ "path" \in dirs => path
  /\ files \in [Places -> {"absent", "old"}]
  /\ \A p \in Places : files[p] = "old" => p \in dirs
  /\ disabled = FALSE
  /\ reduced = FALSE

-----------------------------------------------------------------------------
(* StrmMap. *)

CamStrm(c, s) == 2 * (c - 1) + s
CameraOf(source) == (source \div 2) + 1

CamStrms ==
  UNION {{CamStrm(c, s) : s \in {n \in 0..1 : n < cameras[c].streams}}
           : c \in DOMAIN cameras}

Sources(t) == {layers[t][i].source : i \in DOMAIN layers[t]}
FreeStrms_OtherContainer(t) == CamStrms \ Sources(CHOOSE u \in Container : u # t)
FreeStrms(t) == CamStrms \ Sources(t)

(* Unsigned: fewer streams than layers is a large number, not zero.        *)
HasFree(t) == Cardinality(CamStrms) # Len(layers[t])

-----------------------------------------------------------------------------
Edits ==
  /\ editor = "open"
  /\ dirty' = TRUE
  /\ UNCHANGED <<fileVars, editor, saved>>

(* A new member goes to the end of a JSON object ...                       *)
Enabled_Front(member) == <<member>> \o cameras
Enabled(member) == Append(cameras, member)

(* ... and erase() moves the last member into the place of the erased one. *)
EraseMember(s, i) == SubSeq(ReplaceAt(s, i, s[Len(s)]), 1, Len(s) - 1)

(* The menu of a location is that of its camera only if it is configured.  *)
IsConfigured_ByIndex(loc) == \E c \in DOMAIN cameras : c > 1 /\ cameras[c].loc = loc
IsConfigured(loc) == \E c \in DOMAIN cameras : cameras[c].loc = loc

EnableCamera(loc) ==
  /\ ~IsConfigured(loc)
  /\ cameras' = Enabled([loc |-> loc, streams |-> 0])
  /\ Edits
  /\ UNCHANGED <<dest, layers, disabled, reduced>>

DisableCamera(c) ==
  /\ cameras' = EraseMember(cameras, c)
  /\ disabled' = TRUE
  /\ Edits
  /\ UNCHANGED <<dest, layers, reduced>>

(* cfgSensor replaces the array of the camera's streams.                   *)
ConfigureSensor(c, n) ==
  /\ n = 1 \/ cameras[c].loc \in TwoStream
  /\ cameras' = [cameras EXCEPT ![c].streams = n]
  /\ reduced' = (reduced \/ n < cameras[c].streams)
  /\ Edits
  /\ UNCHANGED <<dest, layers, disabled>>

(* The controls of a camera, and /Audio, are set or dropped, and read      *)
(* nowhere else in the editor.                                             *)
ConfigureControls(c) ==
  /\ cameras[c].streams # 0
  /\ Edits
  /\ UNCHANGED <<configVars, disabled, reduced>>

ConfigureAudio == Edits /\ UNCHANGED <<configVars, disabled, reduced>>

SetDestination(t, d) ==
  /\ dest' = [dest EXCEPT ![t] = d]
  /\ Edits
  /\ UNCHANGED <<cameras, layers, disabled, reduced>>

SetRawDestination == SetDestination("Raw", "file")

(* The composite menu throws as long as there has been no camera.          *)
SetCompositeDestination(d) ==
  /\ cameras # <<>> \/ disabled
  /\ SetDestination("Comp", d)

DropOutput(t) ==
  /\ dest[t] # "none"
  /\ dest' = [dest EXCEPT ![t] = "none"]
  /\ layers' = [layers EXCEPT ![t] = <<>>]
  /\ Edits
  /\ UNCHANGED <<cameras, disabled, reduced>>

-----------------------------------------------------------------------------
(* cfgLayer. *)

(* Without its main layer a composite output has none.                     *)
DropLayer(t, i) ==
  /\ dest[t] # "none"
  /\ layers' = [layers EXCEPT ![t] =
                  IF t = "Comp" /\ i = 1 THEN <<>> ELSE RemoveAt(@, i)]
  /\ Edits
  /\ UNCHANGED <<cameras, dest, disabled, reduced>>

(* The place of an overlay depends on the sizes of the main layer and its  *)
(* own; without them the function throws.                                  *)
OverlaysOf_OffByOne(t, i, source) == {i > 2}
OverlaysOf(t, i, source) ==
  CASE ~(t = "Comp" /\ i > 1) -> {FALSE}
    [] t = "Comp" /\ i > 1 /\ {layers[t][1].source, source} \subseteq CamStrms -> {TRUE}
    [] OTHER -> IF i \in DOMAIN layers[t] /\ layers[t][i].overlay THEN {TRUE} ELSE {}

SetLayer(t, i, layer) ==
  /\ layers' = [layers EXCEPT ![t] =
                  IF i \in DOMAIN @ THEN ReplaceAt(@, i, layer)
                                    ELSE Append(@, layer)]
  /\ Edits
  /\ UNCHANGED <<cameras, dest, disabled, reduced>>

(* A camera is chosen among the free ones, for a new layer or an old one.  *)
ChooseSource(t, i) ==
  /\ dest[t] # "none"
  /\ HasFree(t)
  /\ \E source \in FreeStrms(t), overlay \in BOOLEAN :
       /\ overlay \in OverlaysOf(t, i, source)
       /\ SetLayer(t, i, [source |-> source, overlay |-> overlay,
                          camera |-> cameras[CameraOf(source)].loc])

(* The camera is kept, the rest of the layer asked for again.              *)
KeepSource(t, i) ==
  /\ dest[t] # "none"
  /\ HasFree(t)
  /\ \E overlay \in OverlaysOf(t, i, layers[t][i].source) :
       SetLayer(t, i, [layers[t][i] EXCEPT !.overlay = overlay])

-----------------------------------------------------------------------------
(* The constructor, the main menu and the end. *)

HasFile == {p \in Places : files[p] # "absent"}

(* The file that is read is the one last saved, or configures nothing.     *)
Load ==
  /\ editor = "closed"
  /\ editor' = "open"
  /\ UNCHANGED <<configVars, fileVars, dirty, saved, disabled, reduced>>

(* Nowhere to write is an exception.                                       *)
Save ==
  /\ editor = "open"
  /\ LET place == JsonWritePlace(dirs, path) IN
       IF place = "none"
         THEN editor' = "dead" /\ UNCHANGED <<dirty, saved, files>>
         ELSE /\ files' = [p \in Places |->
                             CASE p = place -> "current"
                               [] p # place /\ files[p] = "current" -> "old"
                               [] OTHER -> files[p]]
              /\ dirty' = FALSE
              /\ saved' = TRUE
              /\ UNCHANGED editor
  /\ dirs' = DirsAfterWrite(dirs, path)
  /\ UNCHANGED <<configVars, path, disabled, reduced>>

(* What is not saved is lost, and the behaviour is not followed further:   *)
(* at the user's wish, or by an exception (an empty answer where one is    *)
(* needed, a menu without an entry, a failed YouTube authorisation).       *)
Exit ==
  /\ editor = "open"
  /\ editor' = IF dirty THEN "dead" ELSE "closed"
  /\ UNCHANGED <<configVars, fileVars, dirty, saved, disabled, reduced>>

CamerasMenu ==
  \/ \E loc \in Locations : EnableCamera(loc)
  \/ \E c \in DOMAIN cameras :
       \/ DisableCamera(c)
       \/ \E n \in 1..2 : ConfigureSensor(c, n)
       \/ ConfigureControls(c)

LayersMenu ==
  \E t \in Container :
    \/ \E i \in DOMAIN layers[t] : DropLayer(t, i) \/ KeepSource(t, i)
    \/ \E i \in 1..(Len(layers[t]) + 1) :
         i <= MaxLayers[t] /\ ChooseSource(t, i)

OutputsMenu ==
  \/ \E t \in Container : DropOutput(t)
  \/ SetRawDestination
  \/ \E d \in {"file", "youtube"} : SetCompositeDestination(d)

-----------------------------------------------------------------------------
(* What initVideoStream of core/rcam.cpp builds of a list of layers.       *)

Filters(list) ==
  ((1..Len(list)) \X {"buffer"})
    \cup ({i \in DOMAIN list : i > 1 /\ list[i].overlay} \X {"overlay"})

(* fgctxSrc at the end of a layer, which the next one finds in fgctxTmp.   *)
EndOf(list, i) == <<i, IF i > 1 /\ list[i].overlay THEN "overlay" ELSE "buffer">>

Links(list) ==
  (UNION {{EndOf(list, i - 1), <<i, "buffer">>} \X {<<i, "overlay">>}
            : i \in {n \in 2..Len(list) : list[n].overlay}})
    \cup {<<EndOf(list, Len(list)), "sink">>}

-----------------------------------------------------------------------------
Next ==
  \/ CamerasMenu \/ LayersMenu \/ OutputsMenu \/ ConfigureAudio
  \/ Load \/ Save \/ Exit

Spec == Init /\ [][Next]_vars

-----------------------------------------------------------------------------
(* StrmMap: while every camera and stream that was used is still there, no *)
(* camera stream is in a container twice, so free() is the number of       *)
(* labels, and "Add layer" never opens an empty menu, which would end the  *)
(* editor.                                                                 *)
StrmMapAgrees ==
  ~disabled /\ ~reduced =>
    \A t \in Container : Cardinality(FreeStrms(t)) + Len(layers[t]) = Cardinality(CamStrms)

(* cfgCamera, cfgLayer: a source is the position of its camera, not its    *)
(* name, and yet, as long as no camera is disabled, it names the camera it *)
(* was chosen for, whatever is enabled, reconfigured or dropped meanwhile. *)
SourcesFollowCameras ==
  ~disabled =>
    \A t \in Container : \A i \in DOMAIN layers[t] :
      LET l == layers[t][i] IN
        /\ CameraOf(l.source) \in DOMAIN cameras
        /\ cameras[CameraOf(l.source)].loc = l.camera
        /\ reduced \/ l.source \in CamStrms

(* cfgLayer, initVideoStream: of the layers the menus leave behind, in      *)
(* whatever order they were made, changed and dropped, the capture builds  *)
(* a graph that libavfilter accepts: every filter feeds exactly one other, *)
(* and the main layer has no overlay, which it would report as an error.   *)
GraphConnects ==
  LET list == layers["Comp"] IN
    list # <<>> =>
      /\ \A f \in Filters(list) :
           Cardinality({link \in Links(list) : link[1] = f}) = 1
      /\ ~list[1].overlay

(* jsonWrite, jsonRead: what was saved is what the capture or the editor,  *)
(* started with the same command line, will read: the two look for their   *)
(* file by different rules, and a save may create the directory that the   *)
(* next one prefers.                                                       *)
SavedIsWhatLoads ==
  saved => LET place == JsonReadPlace(HasFile, path) IN
             place # "none" /\ files[place] = "current"
=============================================================================
