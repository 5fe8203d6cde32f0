------------------------------ MODULE Codegen -----------------------------
(***************************************************************************)
(* How the generator gives a documented field its Rust type                *)
(* (xtask/src/codegen.rs), with the types overrides.toml prescribes.       *)
(***************************************************************************)
EXTENDS Protocol

\* Numbers that OBS gives with a fraction.
FloatFields ==
    {"activeFps", "availableDiskSpace", "averageFrameRenderTime", "cpuUsage",
     "inputAudioBalance", "inputVolumeDb", "inputVolumeMul", "memoryUsage",
     "outputCongestion", "transitionCursor"}

\* overrides.toml: fields that stay JSON values, and fields with a type of
\* their own, by owner, side and name.
LoosePaths == {
    <<"GetPersistentData", "response", "slotValue">>,
    <<"SetPersistentData", "request", "slotValue">>,
    <<"GetStreamServiceSettings", "response", "streamServiceSettings">>,
    <<"SetStreamServiceSettings", "request", "streamServiceSettings">>,
    <<"GetSourceFilterDefaultSettings", "response", "defaultFilterSettings">>,
    <<"CreateSourceFilter", "request", "filterSettings">>,
    <<"GetSourceFilter", "response", "filterSettings">>,
    <<"SetSourceFilterSettings", "request", "filterSettings">>,
    <<"BroadcastCustomEvent", "request", "eventData">>,
    <<"CallVendorRequest", "request", "requestData">>,
    <<"CallVendorRequest", "response", "responseData">>,
    <<"CreateInput", "request", "inputSettings">>,
    <<"GetInputDefaultSettings", "response", "defaultInputSettings">>,
    <<"GetInputSettings", "response", "inputSettings">>,
    <<"SetInputSettings", "request", "inputSettings">>,
    <<"GetOutputSettings", "response", "outputSettings">>,
    <<"SetOutputSettings", "request", "outputSettings">>,
    <<"GetCurrentSceneTransition", "response", "transitionSettings">>,
    <<"SetCurrentSceneTransitionSettings", "request", "transitionSettings">>,
    <<"SourceFilterCreated", "data", "filterSettings">>,
    <<"SourceFilterCreated", "data", "defaultFilterSettings">>,
    <<"SourceFilterSettingsChanged", "data", "filterSettings">>,
    <<"InputCreated", "data", "inputSettings">>,
    <<"InputCreated", "data", "defaultInputSettings">>,
    <<"InputSettingsChanged", "data", "inputSettings">>,
    <<"VendorEvent", "data", "eventData">>,
    <<"CustomEvent", "data", "eventData">>}

StructuredPaths ==
    <<"GetCanvasList", "response", "canvases">> :> Vec(Struct("Canvas")) @@
    <<"GetSourceFilterList", "response", "filters">> :> Vec(Struct("SourceFilter")) @@
    <<"TriggerHotkeyByKeySequence", "request", "keyModifiers">> :> Struct("KeyModifiers") @@
    <<"GetInputList", "response", "inputs">> :> Vec(Struct("Input")) @@
    <<"GetInputAudioTracks", "response", "inputAudioTracks">> :> Struct("AudioTracks") @@
    <<"SetInputAudioTracks", "request", "inputAudioTracks">> :> Struct("AudioTracks") @@
    <<"GetInputPropertiesListPropertyItems", "response", "propertyItems">> :> Vec(Struct("PropertyItem")) @@
    <<"GetOutputList", "response", "outputs">> :> Vec(Struct("Output")) @@
    <<"GetSceneItemList", "response", "sceneItems">> :> Vec(Struct("SceneItem")) @@
    <<"GetGroupSceneItemList", "response", "sceneItems">> :> Vec(Struct("SceneItem")) @@
    <<"GetSceneItemTransform", "response", "sceneItemTransform">> :> Struct("SceneItemTransform") @@
    <<"SetSceneItemTransform", "request", "sceneItemTransform">> :> Struct("SceneItemTransformPartial") @@
    <<"GetSceneList", "response", "scenes">> :> Vec(Struct("Scene")) @@
    <<"GetSceneTransitionList", "response", "transitions">> :> Vec(Struct("Transition")) @@
    <<"GetMonitorList", "response", "monitors">> :> Vec(Struct("Monitor")) @@
    <<"SourceFilterListReindexed", "data", "filters">> :> Vec(Struct("SourceFilter")) @@
    <<"InputAudioTracksChanged", "data", "inputAudioTracks">> :> Struct("AudioTracks") @@
    <<"InputVolumeMeters", "data", "inputs">> :> Vec(Struct("InputVolumeMeter")) @@
    <<"SceneItemListReindexed", "data", "sceneItems">> :> Vec(Struct("SceneItemIndex")) @@
    <<"SceneItemTransformChanged", "data", "sceneItemTransform">> :> Struct("SceneItemTransform") @@
    <<"SceneListChanged", "data", "scenes">> :> Vec(Struct("Scene"))

Overrides == [path \in LoosePaths |-> Value] @@ StructuredPaths

-----------------------------------------------------------------------------

BaseType(name, documented) ==
    CASE documented.type = "String" -> String
      [] documented.type = "Boolean" -> Bool
      [] documented.type = "Number" -> IF name \in FloatFields THEN F64 ELSE I64
      [] documented.type = "Array<String>" -> Vec(String)
      [] documented.type = "Array<Boolean>" -> Vec(Bool)
      [] documented.type = "Array<Number>" -> Vec(IF name \in FloatFields THEN F64 ELSE I64)
      [] documented.type \in {"Array<Object>", "Array<Any>"} -> Vec(Value)
      [] OTHER -> Value

MapType(name, documented, optional) ==
    IF optional
    THEN Option(BaseType(name, documented))
    ELSE BaseType(name, documented)

\* Seeded fault: null counts however the description puts it.
NullableHoweverPut(documented) == documented.null # "no"

Nullable(documented) == documented.null = "code"

\* The fields of a struct generated from the documented fields of one side
\* ("request", "response" or "data") of owner.
ProtocolFields(owner, side, fields) ==
    [name \in {n \in DOMAIN fields : fields[n].part = ""} |->
        IF <<owner, side, name>> \in DOMAIN Overrides
        THEN Overrides[<<owner, side, name>>]
        ELSE MapType(name, fields[name],
                 fields[name].optional \/ Nullable(fields[name]))]

=============================================================================
