---------------------------- MODULE Editor_proofs ----------------------------
(***************************************************************************)
(* Proofs about Editor: its type invariant, that what is saved is what     *)
(* loads, that sources follow their cameras, that the graph of a composite *)
(* output connects and that the counts of StrmMap agree with its labels,   *)
(* for any cameras, any layers and any directories.                        *)
(***************************************************************************)
EXTENDS Editor, SequenceTheorems, FiniteSetTheorems, TLAPS

-----------------------------------------------------------------------------
(* The files. *)

(* A file lies in a directory that exists, the directory of the command    *)
(* line is one only if the command line names it.                          *)
FilesInv ==
  /\ path \in BOOLEAN
  /\ dirs \subseteq Places
  /\ "path" \in dirs => path
  /\ files \in [Places -> {"absent", "old", "current"}]
  /\ \A p \in Places : files[p] # "absent" => p \in dirs
  /\ SavedIsWhatLoads

(* Nothing but Save touches the files. *)
LEMMA OnlySaveWrites == [Next]_vars => Save \/ UNCHANGED <<fileVars, saved>>
<1> SUFFICES ASSUME [Next]_vars, ~Save
             PROVE  UNCHANGED <<fileVars, saved>>
  OBVIOUS
<1>1. CASE CamerasMenu
  BY <1>1 DEF CamerasMenu, EnableCamera, DisableCamera, ConfigureSensor,
              ConfigureControls, Edits
<1>2. CASE LayersMenu
  BY <1>2 DEF LayersMenu, DropLayer, KeepSource, ChooseSource, SetLayer, Edits
<1>3. CASE OutputsMenu
  BY <1>3 DEF OutputsMenu, DropOutput, SetRawDestination, SetCompositeDestination,
              SetDestination, Edits
<1>4. CASE ConfigureAudio \/ Load \/ Exit
  BY <1>4 DEF ConfigureAudio, Load, Exit, Edits
<1>5. CASE UNCHANGED vars
  BY <1>5 DEF vars
<1>6. QED
  BY <1>1, <1>2, <1>3, <1>4, <1>5 DEF Next

(* Every step keeps what is known of the files. *)
LEMMA FilesStep == FilesInv /\ [Next]_vars => FilesInv'
<1> SUFFICES ASSUME FilesInv, [Next]_vars
             PROVE  FilesInv'
  OBVIOUS
<1> USE DEF FilesInv, SavedIsWhatLoads, HasFile, Places
<1>1. CASE Save
  <2> DEFINE place == JsonWritePlace(dirs, path)
  <2>1. UNCHANGED path /\ dirs' = DirsAfterWrite(dirs, path)
    BY <1>1 DEF Save
  <2>2. dirs \subseteq dirs' /\ dirs' \subseteq Places /\ ("path" \in dirs' => path)
    BY <2>1 DEF DirsAfterWrite
  <2>3. CASE place = "none"
    <3>1. UNCHANGED <<files, saved>>
      BY <1>1, <2>3 DEF Save
    <3>2. QED
      BY <2>1, <2>2, <3>1
  <2>4. CASE place # "none"
    <3>1. place \in dirs
      BY <2>4 DEF JsonWritePlace
    <3>2. /\ \A p \in Places : p # place =>
               /\ files'[p] # "current"
               /\ files'[p] = "absent" <=> files[p] = "absent"
          /\ files'[place] = "current"
          /\ files' \in [Places -> {"absent", "old", "current"}]
      BY <1>1, <2>4, <3>1 DEF Save
    <3>3. \A p \in Places : files'[p] # "absent" => p \in dirs'
      BY <2>2, <3>1, <3>2
    <3>4. JsonReadPlace(HasFile, path)' = place
      BY <2>1, <3>1, <3>2 DEF JsonReadPlace, JsonWritePlace
    <3>5. QED
      BY <2>1, <2>2, <3>1, <3>2, <3>3, <3>4
  <2>5. QED
    BY <2>3, <2>4
<1>2. CASE UNCHANGED <<fileVars, saved>>
  BY <1>2 DEF fileVars
<1>3. QED
  BY <1>1, <1>2, OnlySaveWrites

(* What was saved is what is read next, although reader and writer choose  *)
(* by different rules and a save may create a directory.                   *)
THEOREM SavedIsWhatLoadsHolds == Spec => []SavedIsWhatLoads
<1>1. Init => FilesInv
  BY EditorAssumption DEF Init, FilesInv, SavedIsWhatLoads, Places
<1>2. FilesInv => SavedIsWhatLoads
  BY DEF FilesInv
<1>3. QED
  BY <1>1, <1>2, FilesStep, PTL DEF Spec

-----------------------------------------------------------------------------
(* Cameras and layers. *)

LayersTypeOK ==
  /\ cameras \in Seq(CameraMember)
  /\ layers \in [Container -> Seq(Layer)]

SourceFollows(l) ==
  /\ CameraOf(l.source) \in DOMAIN cameras
  /\ cameras[CameraOf(l.source)].loc = l.camera
  /\ reduced \/ l.source \in CamStrms

Sourced == ~disabled => \A t \in Container : \A i \in DOMAIN layers[t] : SourceFollows(layers[t][i])

(* Every layer of the composite output but the first is an overlay.        *)
Overlaid ==
  \A i \in DOMAIN layers["Comp"] : layers["Comp"][i].overlay <=> i > 1

(* The number of a stream leads back to a camera of the configuration. *)
LEMMA SourceOfCamera ==
  ASSUME cameras \in Seq(CameraMember), NEW source \in CamStrms
  PROVE  /\ source \in Nat
         /\ CameraOf(source) \in DOMAIN cameras
         /\ cameras[CameraOf(source)].loc \in Locations
<1>1. PICK c \in DOMAIN cameras : \E s \in 0..1 : s < cameras[c].streams /\ source = CamStrm(c, s)
  BY DEF CamStrms
<1>2. c \in Nat \ {0} /\ cameras[c].loc \in Locations
  <2>1. DOMAIN cameras = 1..Len(cameras) /\ Len(cameras) \in Nat
    BY LenProperties
  <2>2. cameras[c] \in CameraMember
    BY <2>1, ElementOfSeq
  <2>3. QED
    BY <2>1, <2>2 DEF CameraMember
<1>3. \A n \in Nat \ {0}, s \in 0..1 : CamStrm(n, s) \in Nat /\ CameraOf(CamStrm(n, s)) = n
  BY DEF CameraOf, CamStrm
<1>4. QED
  BY <1>1, <1>2, <1>3

(* What erase leaves of a vector. *)
LEMMA Removed ==
  ASSUME NEW S, NEW s \in Seq(S), NEW i \in 1..Len(s)
  PROVE  /\ RemoveAt(s, i) \in Seq(S)
         /\ Len(RemoveAt(s, i)) = Len(s) - 1
         /\ \A k \in 1..(Len(s) - 1) :
              RemoveAt(s, i)[k] = IF k < i THEN s[k] ELSE s[k + 1]
<1> DEFINE a == SubSeq(s, 1, i - 1)
           b == SubSeq(s, i + 1, Len(s))
<1>1. Len(s) \in Nat /\ i \in Nat /\ \A k \in 1..Len(s) : s[k] \in S
  BY LenProperties, ElementOfSeq
<1>2. /\ a \in Seq(S) /\ Len(a) = i - 1
      /\ \A k \in 1..(i - 1) : a[k] = s[k]
  BY <1>1, SubSeqProperties
<1>3. /\ b \in Seq(S) /\ Len(b) = Len(s) - i
      /\ \A k \in 1..(Len(s) - i) : b[k] = s[i + k]
  BY <1>1, SubSeqProperties
<1> HIDE DEF a, b
<1>4. /\ a \o b \in Seq(S) /\ Len(a \o b) = Len(s) - 1
      /\ \A k \in 1..(Len(s) - 1) :
           (a \o b)[k] = IF k <= i - 1 THEN a[k] ELSE b[k - (i - 1)]
  BY <1>1, <1>2, <1>3, ConcatProperties
<1>5. \A k \in 1..(Len(s) - 1) : (a \o b)[k] = IF k < i THEN s[k] ELSE s[k + 1]
  <2> TAKE k \in 1..(Len(s) - 1)
  <2>1. CASE k < i
    BY <1>1, <1>2, <1>4, <2>1
  <2>2. CASE ~(k < i)
    <3>1. k - (i - 1) \in 1..(Len(s) - i) /\ i + (k - (i - 1)) = k + 1
      BY <1>1, <2>2
    <3>2. QED
      BY <1>1, <1>3, <1>4, <2>2, <3>1
  <2>3. QED
    BY <2>1, <2>2
<1>6. QED
  BY <1>4, <1>5 DEF RemoveAt, a, b

(* What one choice in the menu of the layers makes of the lists.           *)
LEMMA LayersStep ==
  ASSUME LayersTypeOK, Sourced, Overlaid, LayersMenu \/ \E t \in Container : DropOutput(t)
  PROVE  LayersTypeOK' /\ Sourced' /\ Overlaid'
<1>1. UNCHANGED <<cameras, disabled, reduced>>
  BY DEF LayersMenu, DropLayer, KeepSource, ChooseSource, SetLayer, DropOutput
<1>2. \A t \in Container : /\ layers[t] \in Seq(Layer)
                         /\ DOMAIN layers[t] = 1..Len(layers[t])
                         /\ Len(layers[t]) \in Nat
                         /\ \A i \in DOMAIN layers[t] : layers[t][i] \in Layer
  BY LenProperties, ElementOfSeq DEF LayersTypeOK
<1>3. \A l : SourceFollows(l)' <=> SourceFollows(l)
  BY <1>1 DEF SourceFollows, CamStrms
(* It is enough to look at the list that changes. *)
<1>4. ASSUME NEW t \in Container, NEW list \in Seq(Layer),
             layers' = [layers EXCEPT ![t] = list],
             \A i \in 1..Len(list) :
               /\ ~disabled => SourceFollows(list[i])
               /\ t = "Comp" => (list[i].overlay <=> i > 1)
      PROVE  LayersTypeOK' /\ Sourced' /\ Overlaid'
  <2>1. DOMAIN list = 1..Len(list)
    BY LenProperties
  <2>2. LayersTypeOK'
    BY <1>1, <1>4 DEF LayersTypeOK
  <2>3. layers'[t] = list /\ \A u \in Container \ {t} : layers'[u] = layers[u]
    BY <1>4 DEF LayersTypeOK
  <2>4. Sourced'
    BY <1>1, <1>3, <1>4, <2>1, <2>3 DEF Sourced
  <2>5. Overlaid'
    BY <1>4, <2>1, <2>3 DEF Overlaid, Container
  <2>6. QED
    BY <2>2, <2>4, <2>5
<1>e. ASSUME NEW t \in Container, layers' = [layers EXCEPT ![t] = <<>>]
      PROVE  LayersTypeOK' /\ Sourced' /\ Overlaid'
  <2> DEFINE list == <<>>
  <2>1. list \in Seq(Layer) /\ 1..Len(list) = {}
    BY EmptySeq
  <2>2. layers' = [layers EXCEPT ![t] = list]
    BY <1>e
  <2> HIDE DEF list
  <2>3. QED
    BY <1>4, <2>1, <2>2
<1>5. ASSUME NEW t \in Container, DropOutput(t)
      PROVE  LayersTypeOK' /\ Sourced' /\ Overlaid'
  BY <1>5, <1>e DEF DropOutput
<1>6. ASSUME NEW t \in Container, NEW i \in DOMAIN layers[t], DropLayer(t, i)
      PROVE  LayersTypeOK' /\ Sourced' /\ Overlaid'
  <2>1. CASE t = "Comp" /\ i = 1
    BY <1>6, <1>e, <2>1 DEF DropLayer, LayersTypeOK
  <2>2. CASE ~(t = "Comp" /\ i = 1)
    <3> DEFINE list == RemoveAt(layers[t], i)
    <3>1. layers' = [layers EXCEPT ![t] = list]
      BY <1>6, <2>2 DEF DropLayer, LayersTypeOK
    <3>2. /\ list \in Seq(Layer) /\ Len(list) = Len(layers[t]) - 1
          /\ \A k \in 1..(Len(layers[t]) - 1) :
               list[k] = IF k < i THEN layers[t][k] ELSE layers[t][k + 1]
      <4>1. layers[t] \in Seq(Layer) /\ i \in 1..Len(layers[t])
        BY <1>2
      <4>2. QED
        BY <4>1, Removed
    <3> HIDE DEF list
    <3>3. ASSUME NEW k \in 1..Len(list)
          PROVE  /\ ~disabled => SourceFollows(list[k])
                 /\ t = "Comp" => (list[k].overlay <=> k > 1)
      <4>1. k \in 1..Len(layers[t]) /\ k + 1 \in 1..Len(layers[t])
            /\ k \in 1..(Len(layers[t]) - 1) /\ i \in 1..Len(layers[t])
        BY <1>2, <3>2
      <4>2. list[k] \in {layers[t][k], layers[t][k + 1]}
        BY <3>2, <4>1
      <4>3. ~disabled => SourceFollows(list[k])
        BY <1>2, <4>1, <4>2 DEF Sourced
      <4>4. t = "Comp" => (list[k].overlay <=> k > 1)
        <5>1. t = "Comp" => /\ layers[t][k].overlay <=> k > 1
                            /\ layers[t][k + 1].overlay <=> k + 1 > 1
          BY <1>2, <4>1 DEF Overlaid
        <5>2. list[k] = IF k < i THEN layers[t][k] ELSE layers[t][k + 1]
          BY <3>2, <4>1
        <5>3. t = "Comp" => i > 1
          BY <2>2, <4>1
        <5>4. k \in Nat /\ k >= 1 /\ i \in Nat
          BY <4>1
        <5>5. QED
          BY <5>1, <5>2, <5>3, <5>4
      <4>5. QED
        BY <4>3, <4>4
    <3>4. QED
      BY <1>4, <3>1, <3>2, <3>3
  <2>3. QED
    BY <2>1, <2>2
(* A layer is set, new or old. *)
<1>7. ASSUME NEW t \in Container, NEW i \in 1..(Len(layers[t]) + 1), NEW layer \in Layer,
             SetLayer(t, i, layer),
             ~disabled => SourceFollows(layer),
             t = "Comp" => (layer.overlay <=> i > 1)
      PROVE  LayersTypeOK' /\ Sourced' /\ Overlaid'
  <2>1. CASE i \in DOMAIN layers[t]
    <3> DEFINE list == [layers[t] EXCEPT ![i] = layer]
    <3>1. layers' = [layers EXCEPT ![t] = list]
      BY <1>7, <2>1 DEF SetLayer, ReplaceAt, LayersTypeOK
    <3>2. /\ list \in Seq(Layer) /\ Len(list) = Len(layers[t])
          /\ list[i] = layer /\ \A k \in 1..Len(list) : k # i => list[k] = layers[t][k]
      BY <1>2, <2>1, ExceptSeq
    <3> HIDE DEF list
    <3>3. ASSUME NEW k \in 1..Len(list)
          PROVE  /\ ~disabled => SourceFollows(list[k])
                 /\ t = "Comp" => (list[k].overlay <=> k > 1)
      <4>1. CASE k = i
        BY <1>7, <3>2, <4>1
      <4>2. CASE k # i
        <5>1. k \in DOMAIN layers[t] /\ list[k] = layers[t][k]
          BY <1>2, <3>2, <4>2
        <5>2. ~disabled => SourceFollows(list[k])
          BY <5>1 DEF Sourced
        <5>3. t = "Comp" => (list[k].overlay <=> k > 1)
          BY <5>1 DEF Overlaid
        <5>4. QED
          BY <5>2, <5>3
      <4>3. QED
        BY <4>1, <4>2
    <3>4. QED
      BY <1>4, <3>1, <3>2, <3>3
  <2>2. CASE i \notin DOMAIN layers[t]
    <3> DEFINE list == Append(layers[t], layer)
    <3>1. layers' = [layers EXCEPT ![t] = list]
      BY <1>7, <2>2 DEF SetLayer, LayersTypeOK
    <3>2. /\ list \in Seq(Layer) /\ Len(list) = i /\ list[i] = layer
          /\ \A k \in 1..Len(list) : k # i => k \in DOMAIN layers[t] /\ list[k] = layers[t][k]
      BY <1>2, <2>2, AppendProperties
    <3> HIDE DEF list
    <3>3. ASSUME NEW k \in 1..Len(list)
          PROVE  /\ ~disabled => SourceFollows(list[k])
                 /\ t = "Comp" => (list[k].overlay <=> k > 1)
      <4>1. CASE k = i
        BY <1>7, <3>2, <4>1
      <4>2. CASE k # i
        <5>1. k \in DOMAIN layers[t] /\ list[k] = layers[t][k]
          BY <1>2, <3>2, <4>2
        <5>2. ~disabled => SourceFollows(list[k])
          BY <5>1 DEF Sourced
        <5>3. t = "Comp" => (list[k].overlay <=> k > 1)
          BY <5>1 DEF Overlaid
        <5>4. QED
          BY <5>2, <5>3
      <4>3. QED
        BY <4>1, <4>2
    <3>4. QED
      BY <1>4, <3>1, <3>2, <3>3
  <2>3. QED
    BY <2>1, <2>2
(* The place of an overlay is asked for from the second layer on. *)
<1>8. ASSUME NEW t \in Container, NEW i \in 1..(Len(layers[t]) + 1), NEW source,
             NEW overlay \in OverlaysOf(t, i, source)
      PROVE  overlay \in BOOLEAN /\ (t = "Comp" => (overlay <=> i > 1))
  <2>1. i \in Nat /\ i >= 1
    BY <1>2
  <2>2. QED
    BY <2>1 DEF OverlaysOf
<1>9. ASSUME NEW t \in Container, NEW i \in 1..(Len(layers[t]) + 1), ChooseSource(t, i)
      PROVE  LayersTypeOK' /\ Sourced' /\ Overlaid'
  <2>1. PICK source \in FreeStrms(t), overlay \in BOOLEAN :
          /\ overlay \in OverlaysOf(t, i, source)
          /\ SetLayer(t, i, [source |-> source, overlay |-> overlay,
                             camera |-> cameras[CameraOf(source)].loc])
    BY <1>9 DEF ChooseSource
  <2>2. source \in CamStrms
    BY DEF FreeStrms
  <2>3. /\ source \in Nat /\ CameraOf(source) \in DOMAIN cameras
        /\ cameras[CameraOf(source)].loc \in Locations
    BY <2>2, SourceOfCamera DEF LayersTypeOK
  <2> DEFINE layer == [source |-> source, overlay |-> overlay,
                       camera |-> cameras[CameraOf(source)].loc]
  <2>4. layer \in Layer /\ layer.source = source /\ layer.overlay = overlay
        /\ layer.camera = cameras[CameraOf(source)].loc
    BY <2>3 DEF Layer
  <2>5. SetLayer(t, i, layer)
    BY <2>1
  <2> HIDE DEF layer
  <2>6. SourceFollows(layer)
    BY <2>2, <2>3, <2>4 DEF SourceFollows
  <2>7. t = "Comp" => (layer.overlay <=> i > 1)
    BY <1>8, <2>1, <2>4
  <2>8. QED
    BY <1>7, <2>4, <2>5, <2>6, <2>7
<1>10. ASSUME NEW t \in Container, NEW i \in DOMAIN layers[t], KeepSource(t, i)
       PROVE  LayersTypeOK' /\ Sourced' /\ Overlaid'
  <2>1. PICK overlay \in OverlaysOf(t, i, layers[t][i].source) :
          SetLayer(t, i, [layers[t][i] EXCEPT !.overlay = overlay])
    BY <1>10 DEF KeepSource
  <2>2. i \in 1..(Len(layers[t]) + 1) /\ layers[t][i] \in Layer
    BY <1>2
  <2>3. overlay \in BOOLEAN /\ (t = "Comp" => (overlay <=> i > 1))
    BY <1>8, <2>2
  <2> DEFINE layer == [layers[t][i] EXCEPT !.overlay = overlay]
  <2>4. layer \in Layer /\ layer.source = layers[t][i].source /\ layer.overlay = overlay
        /\ layer.camera = layers[t][i].camera
    BY <2>2, <2>3 DEF Layer
  <2>5. SetLayer(t, i, layer)
    BY <2>1
  <2> HIDE DEF layer
  <2>6. ~disabled => SourceFollows(layer)
    BY <2>4 DEF Sourced, SourceFollows
  <2>7. QED
    BY <1>7, <2>2, <2>3, <2>4, <2>5, <2>6
<1>11. QED
  BY <1>5, <1>6, <1>9, <1>10 DEF LayersMenu

(* What one choice in the menu of the cameras makes of the sources.        *)
LEMMA CamerasStep ==
  ASSUME LayersTypeOK, Sourced, Overlaid, CamerasMenu
  PROVE  LayersTypeOK' /\ Sourced' /\ Overlaid'
<1>1. UNCHANGED layers
  BY DEF CamerasMenu, EnableCamera, DisableCamera, ConfigureSensor, ConfigureControls,
         configVars
<1>2. Overlaid'
  BY <1>1 DEF Overlaid
<1>3. /\ DOMAIN cameras = 1..Len(cameras) /\ Len(cameras) \in Nat
      /\ \A c \in DOMAIN cameras : /\ cameras[c] \in CameraMember
                                  /\ cameras[c].loc \in Locations
                                  /\ cameras[c].streams \in 0..2
  <2>1. DOMAIN cameras = 1..Len(cameras) /\ Len(cameras) \in Nat
    BY LenProperties DEF LayersTypeOK
  <2>2. \A c \in DOMAIN cameras : cameras[c] \in CameraMember
    BY <2>1, ElementOfSeq DEF LayersTypeOK
  <2>3. QED
    BY <2>1, <2>2 DEF CameraMember
(* It is enough that the members and their streams are still there. *)
<1>4. ASSUME cameras' \in Seq(CameraMember), UNCHANGED disabled,
             DOMAIN cameras \subseteq DOMAIN cameras',
             \A c \in DOMAIN cameras :
               /\ cameras'[c].loc = cameras[c].loc
               /\ cameras'[c].streams >= cameras[c].streams \/ reduced',
             reduced => reduced'
      PROVE  LayersTypeOK' /\ Sourced'
  <2>1. LayersTypeOK'
    BY <1>1, <1>4 DEF LayersTypeOK
  <2>2. ~reduced' => CamStrms \subseteq CamStrms'
    <3> SUFFICES ASSUME ~reduced', NEW source \in CamStrms
                 PROVE  source \in CamStrms'
      OBVIOUS
    <3>1. PICK c \in DOMAIN cameras :
            \E s \in 0..1 : s < cameras[c].streams /\ source = CamStrm(c, s)
      BY DEF CamStrms
    <3>2. PICK s \in 0..1 : s < cameras[c].streams /\ source = CamStrm(c, s)
      BY <3>1
    <3>3. cameras'[c].streams \in 0..2
      <4>1. cameras'[c] \in CameraMember
        BY <1>4, ElementOfSeq, LenProperties
      <4>2. QED
        BY <4>1 DEF CameraMember
    <3>4. s < cameras'[c].streams /\ c \in DOMAIN cameras'
      BY <1>3, <1>4, <3>2, <3>3
    <3>5. QED
      BY <3>2, <3>4 DEF CamStrms, CamStrm
  <2>3. ASSUME NEW l, SourceFollows(l)
        PROVE  SourceFollows(l)'
    BY <1>4, <2>2, <2>3 DEF SourceFollows, CameraOf
  <2>4. Sourced'
    BY <1>1, <1>4, <2>3 DEF Sourced
  <2>5. QED
    BY <2>1, <2>4
<1>5. ASSUME NEW loc \in Locations, EnableCamera(loc)
      PROVE  LayersTypeOK' /\ Sourced'
  <2> DEFINE member == [loc |-> loc, streams |-> 0]
  <2>1. member \in CameraMember
    BY DEF CameraMember
  <2>2. cameras' = Append(cameras, member) /\ UNCHANGED <<disabled, reduced>>
    BY <1>5 DEF EnableCamera, Enabled
  <2> HIDE DEF member
  <2>3. /\ cameras' \in Seq(CameraMember) /\ DOMAIN cameras \subseteq DOMAIN cameras'
        /\ \A c \in DOMAIN cameras : cameras'[c] = cameras[c]
    BY <1>3, <2>1, <2>2, AppendProperties, LenProperties DEF LayersTypeOK
  <2>4. QED
    BY <1>3, <1>4, <2>2, <2>3
<1>6. ASSUME NEW c \in DOMAIN cameras, DisableCamera(c)
      PROVE  LayersTypeOK' /\ Sourced'
  <2>1. disabled' /\ cameras' = EraseMember(cameras, c)
    BY <1>6 DEF DisableCamera
  <2>2. cameras' \in Seq(CameraMember)
    <3> DEFINE moved == ReplaceAt(cameras, c, cameras[Len(cameras)])
    <3>1. moved \in Seq(CameraMember) /\ Len(moved) = Len(cameras)
      BY <1>3, ExceptSeq DEF ReplaceAt, LayersTypeOK
    <3> HIDE DEF moved
    <3>2. \A i \in 1..Len(moved) : moved[i] \in CameraMember
      BY <3>1, ElementOfSeq
    <3>3. SubSeq(moved, 1, Len(cameras) - 1) \in Seq(CameraMember)
      BY <1>3, <3>1, <3>2, SubSeqProperties
    <3>4. QED
      BY <2>1, <3>3 DEF EraseMember, moved
  <2>3. QED
    BY <1>1, <2>1, <2>2 DEF LayersTypeOK, Sourced
<1>7. ASSUME NEW c \in DOMAIN cameras, NEW n \in 1..2, ConfigureSensor(c, n)
      PROVE  LayersTypeOK' /\ Sourced'
  <2>1. /\ cameras' = [cameras EXCEPT ![c] = [cameras[c] EXCEPT !.streams = n]]
        /\ UNCHANGED disabled
        /\ reduced' = (reduced \/ n < cameras[c].streams)
    BY <1>7 DEF ConfigureSensor
  <2> DEFINE member == [cameras[c] EXCEPT !.streams = n]
  <2>2. member \in CameraMember /\ member.loc = cameras[c].loc /\ member.streams = n
    BY <1>3 DEF CameraMember
  <2>3. cameras' = [cameras EXCEPT ![c] = member]
    BY <2>1
  <2> HIDE DEF member
  <2>4. /\ cameras' \in Seq(CameraMember) /\ DOMAIN cameras' = DOMAIN cameras
        /\ cameras'[c] = member
        /\ \A d \in DOMAIN cameras : d # c => cameras'[d] = cameras[d]
    BY <1>3, <2>2, <2>3, ExceptSeq, LenProperties DEF LayersTypeOK
  <2>5. reduced => reduced'
    BY <2>1
  <2>6. cameras'[c].streams >= cameras[c].streams \/ reduced'
    <3>1. ~(n < cameras[c].streams) => n >= cameras[c].streams
      BY <1>3
    <3>2. QED
      BY <2>1, <2>2, <2>4, <3>1
  <2>7. \A d \in DOMAIN cameras : cameras[d].streams >= cameras[d].streams
    BY <1>3
  <2>8. QED
    BY <1>4, <2>1, <2>2, <2>4, <2>5, <2>6, <2>7
<1>8. ASSUME NEW c \in DOMAIN cameras, ConfigureControls(c)
      PROVE  LayersTypeOK' /\ Sourced'
  BY <1>8 DEF ConfigureControls, configVars, LayersTypeOK, Sourced, SourceFollows, CamStrms
<1>9. QED
  BY <1>2, <1>5, <1>6, <1>7, <1>8 DEF CamerasMenu

(* The layers are typed, have a source, and overlay all but the first, in  *)
(* every reachable state.                                                  *)
LEMMA LayersInvHolds == Spec => [](LayersTypeOK /\ Sourced /\ Overlaid)
<1>1. Init => LayersTypeOK /\ Sourced /\ Overlaid
  BY EmptySeq DEF Init, LayersTypeOK, Sourced, Overlaid, Container
<1>2. LayersTypeOK /\ Sourced /\ Overlaid /\ [Next]_vars
        => (LayersTypeOK /\ Sourced /\ Overlaid)'
  <2> SUFFICES ASSUME LayersTypeOK, Sourced, Overlaid, [Next]_vars
               PROVE  (LayersTypeOK /\ Sourced /\ Overlaid)'
    OBVIOUS
  <2>1. CASE UNCHANGED <<cameras, layers, disabled, reduced>>
    BY <2>1 DEF LayersTypeOK, Sourced, Overlaid, SourceFollows, CamStrms
  <2>2. CASE CamerasMenu
    BY <2>2, CamerasStep
  <2>3. CASE LayersMenu \/ \E t \in Container : DropOutput(t)
    BY <2>3, LayersStep
  <2>4. QED
    BY <2>1, <2>2, <2>3
       DEF Next, OutputsMenu, SetRawDestination, SetCompositeDestination,
           SetDestination, ConfigureAudio, Load, Save, Exit, configVars, vars
<1>3. QED
  BY <1>1, <1>2, PTL DEF Spec

(* As long as no camera is disabled a source, which is only a position,    *)
(* names the camera it was chosen for.                                     *)
THEOREM SourcesFollowCamerasHolds == Spec => []SourcesFollowCameras
<1>1. Sourced => SourcesFollowCameras
  BY DEF Sourced, SourceFollows, SourcesFollowCameras
<1>2. QED
  BY <1>1, LayersInvHolds, PTL

-----------------------------------------------------------------------------
(* The graph of a composite output. *)

(* Where a filter's output goes when every layer but the first overlays:   *)
(* a layer into its overlay, the main layer and each overlay into the next,*)
(* the last into the sink.                                                 *)
Feeds(list, f) ==
  CASE f[2] = "buffer" /\ f[1] > 1 -> <<f[1], "overlay">>
    [] ~(f[2] = "buffer" /\ f[1] > 1) /\ f[1] < Len(list) -> <<f[1] + 1, "overlay">>
    [] OTHER -> "sink"

(* In the graph of an output every filter has exactly one link out. *)
LEMMA OverlaysConnect ==
  ASSUME NEW list \in Seq(Layer), list # <<>>,
         \A i \in DOMAIN list : list[i].overlay <=> i > 1,
         NEW f \in Filters(list)
  PROVE  Cardinality({link \in Links(list) : link[1] = f}) = 1
<1> DEFINE N == Len(list)
           end(i) == <<i, IF i > 1 THEN "overlay" ELSE "buffer">>
<1>1. N \in Nat \ {0} /\ DOMAIN list = 1..N
  BY EmptySeq, LenProperties
<1>2. \A i \in 1..N : EndOf(list, i) = end(i)
  BY <1>1 DEF EndOf
<1>3. Links(list) =
        (UNION {{end(i - 1), <<i, "buffer">>} \X {<<i, "overlay">>} : i \in 2..N})
          \cup {<<end(N), "sink">>}
  <2>1. {n \in 2..N : list[n].overlay} = 2..N
    BY <1>1
  <2>2. \A i \in 2..N : i - 1 \in 1..N /\ EndOf(list, i - 1) = end(i - 1)
    BY <1>1, <1>2
  <2>3. N \in 1..N
    BY <1>1
  <2> HIDE DEF end
  <2>4. UNION {{EndOf(list, i - 1), <<i, "buffer">>} \X {<<i, "overlay">>} : i \in 2..N}
          = UNION {{end(i - 1), <<i, "buffer">>} \X {<<i, "overlay">>} : i \in 2..N}
    BY <2>2
  <2>5. QED
    BY <1>2, <2>1, <2>3, <2>4 DEF Links
<1>4. \A link :
        link \in Links(list) <=>
          \/ \E i \in 2..N : link = <<<<i, "buffer">>, <<i, "overlay">>>>
          \/ \E i \in 2..N : link = <<end(i - 1), <<i, "overlay">>>>
          \/ link = <<end(N), "sink">>
  <2>1. \A a, b, c, link :
          link \in {a, b} \X {c} <=> link = <<a, c>> \/ link = <<b, c>>
    OBVIOUS
  <2>2. \A link : link \in Links(list) <=>
          \/ \E i \in 2..N : link \in {end(i - 1), <<i, "buffer">>} \X {<<i, "overlay">>}
          \/ link = <<end(N), "sink">>
    <3> DEFINE pairs == UNION {{end(i - 1), <<i, "buffer">>} \X {<<i, "overlay">>} : i \in 2..N}
               last == <<end(N), "sink">>
    <3>1. \A link : link \in pairs <=>
            \E i \in 2..N : link \in {end(i - 1), <<i, "buffer">>} \X {<<i, "overlay">>}
      BY Zenon
    <3>2. Links(list) = pairs \cup {last}
      BY <1>3, Zenon
    <3> HIDE DEF pairs, last
    <3>3. \A link : link \in Links(list) <=> link \in pairs \/ link = last
      BY <3>2
    <3>4. QED
      BY <3>1, <3>3 DEF last
  <2> HIDE DEF end
  <2>3. QED
    BY <2>1, <2>2
<1>5. \/ \E i \in 1..N : f = <<i, "buffer">>
      \/ \E i \in 2..N : f = <<i, "overlay">>
  BY <1>1 DEF Filters
<1>6. <<f, Feeds(list, f)>> \in Links(list)
  <2>1. ASSUME NEW i \in 2..N, f = <<i, "buffer">>
        PROVE  <<f, Feeds(list, f)>> \in Links(list)
    BY <1>1, <1>4, <2>1 DEF Feeds
  <2>2. ASSUME NEW i \in 1..N, f = end(i), i < N
        PROVE  <<f, Feeds(list, f)>> \in Links(list)
    <3>1. i + 1 \in 2..N /\ (i + 1) - 1 = i
      BY <1>1, <2>2
    <3>2. Feeds(list, f) = <<i + 1, "overlay">>
      BY <1>1, <2>2 DEF Feeds
    <3>3. QED
      BY <1>4, <2>2, <3>1, <3>2
  <2>3. CASE f = end(N)
    <3>1. Feeds(list, f) = "sink"
      BY <1>1, <2>3 DEF Feeds
    <3>2. QED
      BY <1>4, <2>3, <3>1
  <2>4. (\E i \in 2..N : f = <<i, "buffer">>) \/ (\E i \in 1..N : f = end(i))
    BY <1>1, <1>5
  <2>5. QED
    BY <1>1, <2>1, <2>2, <2>3, <2>4, SMTT(30)
<1>7. ASSUME NEW link \in Links(list), link[1] = f
      PROVE  link = <<f, Feeds(list, f)>>
  <2>1. ASSUME NEW i \in 2..N, link = <<<<i, "buffer">>, <<i, "overlay">>>>
        PROVE  link = <<f, Feeds(list, f)>>
    BY <1>1, <1>7, <2>1 DEF Feeds
  <2>2. ASSUME NEW i \in 2..N, link = <<end(i - 1), <<i, "overlay">>>>
        PROVE  link = <<f, Feeds(list, f)>>
    <3>1. f = end(i - 1) /\ i - 1 \in Nat /\ i - 1 < N /\ (i - 1) + 1 = i
      BY <1>1, <1>7, <2>2
    <3>2. Feeds(list, f) = <<i, "overlay">>
      BY <1>1, <3>1 DEF Feeds
    <3>3. QED
      BY <2>2, <3>1, <3>2
  <2>3. CASE link = <<end(N), "sink">>
    <3>1. f = end(N)
      BY <1>7, <2>3
    <3>2. Feeds(list, f) = "sink"
      BY <1>1, <3>1 DEF Feeds
    <3>3. QED
      BY <2>3, <3>1, <3>2
  <2>4. QED
    BY <1>4, <2>1, <2>2, <2>3
<1>8. {link \in Links(list) : link[1] = f} = {<<f, Feeds(list, f)>>}
  BY <1>6, <1>7
<1>9. QED
  BY <1>8, FS_Singleton

(* Whatever was added, changed and dropped, the graph connects: every      *)
(* filter feeds exactly one other or the sink.                             *)
THEOREM GraphConnectsHolds == Spec => []GraphConnects
<1>1. LayersTypeOK /\ Overlaid => GraphConnects
  <2> SUFFICES ASSUME LayersTypeOK, Overlaid, layers["Comp"] # <<>>
               PROVE  /\ \A f \in Filters(layers["Comp"]) :
                           Cardinality({link \in Links(layers["Comp"]) : link[1] = f}) = 1
                      /\ ~layers["Comp"][1].overlay
    BY DEF GraphConnects
  <2> DEFINE list == layers["Comp"]
  <2>1. list \in Seq(Layer) /\ list # <<>> /\ \A i \in DOMAIN list : list[i].overlay <=> i > 1
    BY DEF LayersTypeOK, Overlaid, Container
  <2>2. 1 \in DOMAIN list
    BY <2>1, EmptySeq, LenProperties
  <2> HIDE DEF list
  <2>3. \A f \in Filters(list) : Cardinality({link \in Links(list) : link[1] = f}) = 1
    BY <2>1, OverlaysConnect
  <2>4. ~list[1].overlay
    BY <2>1, <2>2
  <2>5. QED
    BY <2>3, <2>4 DEF list
<1>2. QED
  BY <1>1, LayersInvHolds, PTL

-----------------------------------------------------------------------------
(* The counts of StrmMap. *)

DistinctSources ==
  \A t \in Container : \A i, j \in DOMAIN layers[t] :
    layers[t][i].source = layers[t][j].source => i = j

(* Every step keeps the sources of an output distinct. *)
LEMMA DistinctSourcesStep ==
  LayersTypeOK /\ DistinctSources /\ [Next]_vars => DistinctSources'
<1> SUFFICES ASSUME LayersTypeOK, DistinctSources, [Next]_vars
             PROVE  DistinctSources'
  OBVIOUS
<1>1. \A t \in Container : /\ layers[t] \in Seq(Layer)
                         /\ DOMAIN layers[t] = 1..Len(layers[t])
                         /\ Len(layers[t]) \in Nat
  BY LenProperties DEF LayersTypeOK
<1>2. ASSUME NEW t \in Container, NEW list, layers' = [layers EXCEPT ![t] = list],
             \A i, j \in DOMAIN list : list[i].source = list[j].source => i = j
      PROVE  DistinctSources'
  <2>1. layers'[t] = list /\ \A u \in Container \ {t} : layers'[u] = layers[u]
    BY <1>2 DEF LayersTypeOK
  <2>2. QED
    BY <1>2, <2>1 DEF DistinctSources
<1>e. ASSUME NEW t \in Container, layers' = [layers EXCEPT ![t] = <<>>]
      PROVE  DistinctSources'
  <2> DEFINE list == <<>>
  <2>1. DOMAIN list = {}
    BY EmptySeq, LenProperties
  <2>2. layers' = [layers EXCEPT ![t] = list]
    BY <1>e
  <2> HIDE DEF list
  <2>3. QED
    BY <1>2, <2>1, <2>2
<1>3. ASSUME NEW t \in Container, NEW i \in DOMAIN layers[t], DropLayer(t, i)
      PROVE  DistinctSources'
  <2>1. CASE t = "Comp" /\ i = 1
    BY <1>3, <1>e, <2>1 DEF DropLayer, LayersTypeOK
  <2>2. CASE ~(t = "Comp" /\ i = 1)
    <3> DEFINE list == RemoveAt(layers[t], i)
               from(k) == IF k < i THEN k ELSE k + 1
    <3>1. layers' = [layers EXCEPT ![t] = list]
      BY <1>3, <2>2 DEF DropLayer, LayersTypeOK
    <3>2. /\ DOMAIN list = 1..(Len(layers[t]) - 1)
          /\ \A k \in DOMAIN list : list[k] = layers[t][from(k)] /\ from(k) \in DOMAIN layers[t]
      <4>1. /\ list \in Seq(Layer) /\ Len(list) = Len(layers[t]) - 1
            /\ \A k \in 1..(Len(layers[t]) - 1) :
                 list[k] = IF k < i THEN layers[t][k] ELSE layers[t][k + 1]
        BY <1>1, Removed
      <4>2. DOMAIN list = 1..Len(list)
        BY <4>1, LenProperties
      <4> HIDE DEF list
      <4>3. QED
        BY <1>1, <4>1, <4>2
    <3>3. \A k, m \in DOMAIN list : from(k) = from(m) => k = m
      BY <1>1, <3>2
    <3> HIDE DEF list, from
    <3>4. \A k, m \in DOMAIN list : list[k].source = list[m].source => k = m
      BY <3>2, <3>3 DEF DistinctSources
    <3>5. QED
      BY <1>2, <3>1, <3>4
  <2>3. QED
    BY <2>1, <2>2
<1>4. ASSUME NEW t \in Container, NEW i \in 1..(Len(layers[t]) + 1), NEW layer,
             SetLayer(t, i, layer),
             \/ layer.source \notin Sources(t)
             \/ i \in DOMAIN layers[t] /\ layer.source = layers[t][i].source
      PROVE  DistinctSources'
  <2>1. CASE i \in DOMAIN layers[t]
    <3> DEFINE list == [layers[t] EXCEPT ![i] = layer]
    <3>1. layers' = [layers EXCEPT ![t] = list]
      BY <1>4, <2>1 DEF SetLayer, ReplaceAt, LayersTypeOK
    <3>2. /\ DOMAIN list = DOMAIN layers[t] /\ list[i] = layer
          /\ \A k \in DOMAIN list : k # i => list[k] = layers[t][k]
      BY <1>1, <2>1
    <3> HIDE DEF list
    <3>3. \A k, m \in DOMAIN list : list[k].source = list[m].source => k = m
      BY <1>4, <2>1, <3>2 DEF DistinctSources, Sources
    <3>4. QED
      BY <1>2, <3>1, <3>3
  <2>2. CASE i \notin DOMAIN layers[t]
    <3> DEFINE list == Append(layers[t], layer)
    <3>1. layers' = [layers EXCEPT ![t] = list]
      BY <1>4, <2>2 DEF SetLayer, LayersTypeOK
    <3>2. /\ DOMAIN list = 1..(Len(layers[t]) + 1) /\ i = Len(layers[t]) + 1
          /\ list[i] = layer
          /\ \A k \in DOMAIN list : k # i => k \in DOMAIN layers[t] /\ list[k] = layers[t][k]
      BY <1>1, <2>2
    <3> HIDE DEF list
    <3>3. \A k, m \in DOMAIN list : list[k].source = list[m].source => k = m
      BY <1>4, <2>2, <3>2 DEF DistinctSources, Sources
    <3>4. QED
      BY <1>2, <3>1, <3>3
  <2>3. QED
    BY <2>1, <2>2
<1>5. ASSUME NEW t \in Container, NEW i \in 1..(Len(layers[t]) + 1), ChooseSource(t, i)
      PROVE  DistinctSources'
  BY <1>4, <1>5 DEF ChooseSource, FreeStrms
<1>6. ASSUME NEW t \in Container, NEW i \in DOMAIN layers[t], KeepSource(t, i)
      PROVE  DistinctSources'
  <2>1. i \in 1..(Len(layers[t]) + 1) /\ layers[t][i] \in Layer
    BY <1>1, ElementOfSeq
  <2>2. PICK overlay \in OverlaysOf(t, i, layers[t][i].source) :
          SetLayer(t, i, [layers[t][i] EXCEPT !.overlay = overlay])
    BY <1>6 DEF KeepSource
  <2> DEFINE layer == [layers[t][i] EXCEPT !.overlay = overlay]
  <2>3. layer.source = layers[t][i].source
    BY <2>1 DEF Layer
  <2>4. SetLayer(t, i, layer)
    BY <2>2
  <2> HIDE DEF layer
  <2>5. QED
    BY <1>4, <2>1, <2>3, <2>4
<1>7. CASE UNCHANGED layers
  BY <1>7 DEF DistinctSources
<1>8. ASSUME NEW t \in Container, DropOutput(t)
      PROVE  DistinctSources'
  BY <1>8, <1>e DEF DropOutput
<1>9. QED
  BY <1>3, <1>5, <1>6, <1>7, <1>8
     DEF Next, CamerasMenu, EnableCamera, DisableCamera, ConfigureSensor,
         ConfigureControls, LayersMenu, OutputsMenu, SetRawDestination,
         SetCompositeDestination, SetDestination, ConfigureAudio, Load, Save, Exit,
         configVars, vars

(* A configuration has finitely many streams. *)
LEMMA CamStrmsFinite ==
  ASSUME cameras \in Seq(CameraMember)
  PROVE  IsFiniteSet(CamStrms)
<1>1. DOMAIN cameras = 1..Len(cameras) /\ Len(cameras) \in Nat
  BY LenProperties
<1>2. \A c \in 1..Len(cameras), s \in 0..1 : CamStrm(c, s) \in 0..(2 * Len(cameras))
  BY <1>1 DEF CamStrm
<1>3. CamStrms \subseteq 0..(2 * Len(cameras))
  BY <1>1, <1>2 DEF CamStrms
<1>4. IsFiniteSet(0..(2 * Len(cameras)))
  BY <1>1, FS_Interval
<1>5. QED
  BY <1>3, <1>4, FS_Subset

(* The number of free streams is what is left of all of them, so that the  *)
(* menu offers a layer exactly when there is one to choose.                *)
THEOREM StrmMapAgreesHolds == Spec => []StrmMapAgrees
<1>1. LayersTypeOK /\ Sourced /\ DistinctSources => StrmMapAgrees
  <2> SUFFICES ASSUME LayersTypeOK, Sourced, DistinctSources, ~disabled, ~reduced,
                      NEW t \in Container
               PROVE  Cardinality(FreeStrms(t)) + Len(layers[t]) = Cardinality(CamStrms)
    BY DEF StrmMapAgrees
  <2>1. IsFiniteSet(CamStrms)
    BY CamStrmsFinite DEF LayersTypeOK
  <2>2. DOMAIN layers[t] = 1..Len(layers[t]) /\ Len(layers[t]) \in Nat
    BY LenProperties DEF LayersTypeOK
  <2>3. Sources(t) \subseteq CamStrms
    BY DEF Sources, Sourced, SourceFollows
  <2> DEFINE f == [i \in 1..Len(layers[t]) |-> layers[t][i].source]
  <2>4. f \in Bijection(1..Len(layers[t]), Sources(t))
    BY <2>2 DEF DistinctSources, Sources, Bijection, Injection, IsInjective, Surjection
  <2>5. Cardinality(Sources(t)) = Len(layers[t])
    <3> DEFINE n == Len(layers[t])
    <3> HIDE DEF n
    <3>0. n \in Nat
      BY <2>2 DEF n
    <3>i. /\ IsFiniteSet(1..n)
          /\ Cardinality(1..n) = IF 1 > n THEN 0 ELSE n - 1 + 1
      BY <3>0, FS_Interval, 1 \in Int, n \in Int
    <3>j. Cardinality(1..n) = n
      BY <3>0, <3>i
    <3>1. IsFiniteSet(1..Len(layers[t])) /\ Cardinality(1..Len(layers[t])) = Len(layers[t])
      BY <3>i, <3>j DEF n
    <3>2. ExistsBijection(1..Len(layers[t]), Sources(t))
      BY <2>4 DEF ExistsBijection
    <3>3. QED
      BY <3>1, <3>2, FS_Bijection
  <2>6. Cardinality(FreeStrms(t)) = Cardinality(CamStrms) - Cardinality(CamStrms \cap Sources(t))
    BY <2>1, FS_Difference DEF FreeStrms
  <2>7. CamStrms \cap Sources(t) = Sources(t)
    BY <2>3
  <2>8. Cardinality(CamStrms) \in Nat
    BY <2>1, FS_CardinalityType
  <2>9. Cardinality(FreeStrms(t)) = Cardinality(CamStrms) - Len(layers[t])
    BY <2>5, <2>6, <2>7
  <2> DEFINE n == Len(layers[t])
             all == Cardinality(CamStrms)
             free == Cardinality(FreeStrms(t))
  <2>a. n \in Nat /\ all \in Nat /\ free = all - n
    BY <2>2, <2>8, <2>9
  <2> HIDE DEF n, all, free
  <2>b. free + n = all
    BY <2>a
  <2>c. QED
    BY <2>b DEF free, n, all
<1>2. Init => DistinctSources
  BY DEF Init, DistinctSources
<1>3. QED
  BY <1>1, <1>2, DistinctSourcesStep, LayersInvHolds, PTL DEF Spec

-----------------------------------------------------------------------------
(* Types. *)

(* No location is configured twice, so there are at most as many members   *)
(* of /Cameras as locations.                                               *)
DistinctCameras ==
  \A c, d \in DOMAIN cameras : cameras[c].loc = cameras[d].loc => c = d

(* Every step keeps the cameras of the configuration distinct. *)
LEMMA DistinctCamerasStep ==
  LayersTypeOK /\ DistinctCameras /\ [Next]_vars => DistinctCameras'
<1> SUFFICES ASSUME LayersTypeOK, DistinctCameras, [Next]_vars
             PROVE  DistinctCameras'
  OBVIOUS
<1>1. DOMAIN cameras = 1..Len(cameras) /\ Len(cameras) \in Nat
  BY LenProperties DEF LayersTypeOK
<1>2. \A c \in DOMAIN cameras : cameras[c] \in CameraMember
  BY <1>1, ElementOfSeq DEF LayersTypeOK
<1>3. ASSUME NEW loc \in Locations, EnableCamera(loc)
      PROVE  DistinctCameras'
  <2> DEFINE member == [loc |-> loc, streams |-> 0]
  <2>1. member \in CameraMember /\ member.loc = loc /\ cameras' = Append(cameras, member)
    BY <1>3 DEF EnableCamera, Enabled, CameraMember
  <2> HIDE DEF member
  <2>2. /\ cameras' \in Seq(CameraMember) /\ Len(cameras') = Len(cameras) + 1
        /\ cameras'[Len(cameras) + 1] = member
        /\ \A c \in 1..Len(cameras) : cameras'[c] = cameras[c]
    BY <2>1, AppendProperties DEF LayersTypeOK
  <2>3. DOMAIN cameras' = 1..(Len(cameras) + 1)
    BY <2>2, LenProperties
  <2>4. \A c \in 1..Len(cameras) : cameras[c].loc # loc
    BY <1>1, <1>3 DEF EnableCamera, IsConfigured
  <2>5. QED
    BY <1>1, <2>1, <2>2, <2>3, <2>4 DEF DistinctCameras
<1>4. ASSUME NEW c \in DOMAIN cameras, DisableCamera(c)
      PROVE  DistinctCameras'
  <2> DEFINE n == Len(cameras)
             moved == ReplaceAt(cameras, c, cameras[n])
  <2>1. /\ moved \in Seq(CameraMember) /\ Len(moved) = n
        /\ \A i \in 1..n : moved[i] = IF i = c THEN cameras[n] ELSE cameras[i]
    BY <1>1, <1>2, ExceptSeq DEF ReplaceAt, LayersTypeOK
  <2>2. cameras' = SubSeq(moved, 1, n - 1)
    BY <1>4 DEF DisableCamera, EraseMember
  <2> HIDE DEF moved
  <2>3. /\ cameras' \in Seq(CameraMember) /\ Len(cameras') = n - 1
        /\ \A i \in 1..(n - 1) : cameras'[i] = moved[i]
    <3>1. \A i \in 1..Len(moved) : moved[i] \in CameraMember
      BY <2>1, ElementOfSeq
    <3>2. QED
      BY <1>1, <2>1, <2>2, <3>1, SubSeqProperties
  <2>4. /\ DOMAIN cameras' = 1..(n - 1)
        /\ \A i \in 1..(n - 1) : cameras'[i] = IF i = c THEN cameras[n] ELSE cameras[i]
    BY <1>1, <2>1, <2>3, LenProperties
  <2>5. QED
    BY <1>1, <2>4 DEF DistinctCameras
<1>5. ASSUME NEW c \in DOMAIN cameras, NEW k \in 1..2, ConfigureSensor(c, k)
      PROVE  DistinctCameras'
  <2>1. /\ DOMAIN cameras' = DOMAIN cameras
        /\ \A d \in DOMAIN cameras : cameras'[d].loc = cameras[d].loc
    BY <1>2, <1>5 DEF ConfigureSensor, CameraMember
  <2>2. QED
    BY <2>1 DEF DistinctCameras
<1>6. CASE UNCHANGED cameras
  BY <1>6 DEF DistinctCameras
<1>7. QED
  BY <1>3, <1>4, <1>5, <1>6
     DEF Next, CamerasMenu, ConfigureControls, LayersMenu, DropLayer, KeepSource,
         ChooseSource, SetLayer, OutputsMenu, DropOutput, SetRawDestination,
         SetCompositeDestination, SetDestination, ConfigureAudio, Load, Save, Exit,
         configVars, vars

(* The variables whose type no other one matters to. *)
FlagsOK ==
  /\ dest \in [Container -> {"none", "file", "youtube"}]
  /\ {dirty, saved, disabled, reduced} \subseteq BOOLEAN
  /\ editor \in {"closed", "open", "dead"}

(* Every step keeps the flags typed. *)
LEMMA FlagsStep == FlagsOK /\ [Next]_vars => FlagsOK'
<1> SUFFICES ASSUME FlagsOK, [Next]_vars
             PROVE  FlagsOK'
  OBVIOUS
<1> USE DEF FlagsOK
<1>1. CASE CamerasMenu
  <2>1. /\ UNCHANGED <<dest, editor, saved>> /\ dirty' = TRUE
        /\ disabled' \in {disabled, TRUE}
    BY <1>1 DEF CamerasMenu, EnableCamera, DisableCamera, ConfigureSensor,
                ConfigureControls, Edits, configVars
  <2>2. reduced' \in BOOLEAN
    BY <1>1 DEF CamerasMenu, EnableCamera, DisableCamera, ConfigureSensor,
                ConfigureControls
  <2>3. QED
    BY <2>1, <2>2
<1>2. CASE LayersMenu
  BY <1>2 DEF LayersMenu, DropLayer, KeepSource, ChooseSource, SetLayer, Edits
<1>3. CASE OutputsMenu
  BY <1>3 DEF OutputsMenu, DropOutput, SetRawDestination, SetCompositeDestination,
              SetDestination, Edits
<1>4. CASE ConfigureAudio \/ Load \/ Exit \/ Save
  <2>1. /\ UNCHANGED <<dest, disabled, reduced>>
        /\ dirty' \in {dirty, TRUE, FALSE} /\ saved' \in {saved, TRUE}
    BY <1>4 DEF ConfigureAudio, Load, Save, Exit, Edits, configVars
  <2>2. editor' \in {editor, "open", "closed", "dead"}
    BY <1>4 DEF ConfigureAudio, Load, Save, Exit, Edits
  <2>3. QED
    BY <2>1, <2>2
<1>5. CASE UNCHANGED vars
  BY <1>5 DEF vars, configVars
<1>6. QED
  BY <1>1, <1>2, <1>3, <1>4, <1>5 DEF Next

(* Distinct cameras are no more than there are locations. *)
LEMMA CamerasFit ==
  ASSUME LayersTypeOK, DistinctCameras
  PROVE  Len(cameras) <= Cardinality(Locations)
<1> DEFINE n == Len(cameras)
           f == [c \in 1..n |-> cameras[c].loc]
<1>1. DOMAIN cameras = 1..n /\ n \in Nat
  BY LenProperties DEF LayersTypeOK
<1>2. \A c \in 1..n : cameras[c].loc \in Locations
  <2>1. \A c \in 1..n : cameras[c] \in CameraMember
    BY ElementOfSeq DEF LayersTypeOK
  <2>2. QED
    BY <2>1 DEF CameraMember
<1>3. f \in Injection(1..n, Locations)
  BY <1>1, <1>2 DEF DistinctCameras, Injection, IsInjective
<1> HIDE DEF f, n
<1>4. Cardinality(1..n) <= Cardinality(Locations)
  BY <1>3, EditorAssumption, FS_Injection
<1>5. Cardinality(1..n) = IF 1 > n THEN 0 ELSE n - 1 + 1
  BY <1>1, FS_Interval, 1 \in Int, n \in Int
<1>6. n <= Cardinality(Locations)
  BY <1>1, <1>4, <1>5
<1>7. QED
  BY <1>6 DEF n

(* The cameras, the layers, the destinations, the directories and the      *)
(* files are always of their types, and no camera is configured twice.     *)
THEOREM EditorTypeCorrect == Spec => []TypeOK
<1>1. Init => DistinctCameras /\ FlagsOK /\ FilesInv
  <2>1. Init => DistinctCameras
    BY DEF Init, DistinctCameras
  <2>2. Init => FlagsOK
    BY DEF Init, FlagsOK
  <2>3. Init => FilesInv
    BY EditorAssumption DEF Init, FilesInv, SavedIsWhatLoads, Places
  <2>4. QED
    BY <2>1, <2>2, <2>3
<1>2. LayersTypeOK /\ DistinctCameras /\ FlagsOK /\ FilesInv => TypeOK
  <2> SUFFICES ASSUME LayersTypeOK, DistinctCameras, FlagsOK, FilesInv
               PROVE  TypeOK
    OBVIOUS
  <2>1. {dirty, saved, path, disabled, reduced} \subseteq BOOLEAN
    BY DEF FlagsOK, FilesInv
  <2>2. QED
    BY <2>1, CamerasFit DEF TypeOK, LayersTypeOK, FlagsOK, FilesInv
<1>3. QED
  BY <1>1, <1>2, LayersInvHolds, DistinctCamerasStep, FlagsStep, FilesStep, PTL DEF Spec
=============================================================================
