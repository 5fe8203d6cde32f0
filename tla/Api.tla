------------------------------- MODULE Api --------------------------------
(***************************************************************************)
(* The methods of the client by category (generated/api.rs), each named    *)
(* by the request it sends with Client::request. Definitions have the      *)
(* names of the structs; a method whose request has no response fields     *)
(* drops the empty response.                                               *)
(***************************************************************************)
EXTENDS Naturals

Canvases ==
    {"GetCanvasList"}

Config ==
    {"GetPersistentData", "SetPersistentData", "GetSceneCollectionList",
     "SetCurrentSceneCollection", "CreateSceneCollection", "GetProfileList",
     "SetCurrentProfile", "CreateProfile", "RemoveProfile", "GetProfileParameter",
     "SetProfileParameter", "GetVideoSettings", "SetVideoSettings",
     "GetStreamServiceSettings", "SetStreamServiceSettings", "GetRecordDirectory",
     "SetRecordDirectory"}

Filters ==
    {"GetSourceFilterKindList", "GetSourceFilterList", "GetSourceFilterDefaultSettings",
     "CreateSourceFilter", "RemoveSourceFilter", "SetSourceFilterName", "GetSourceFilter",
     "SetSourceFilterIndex", "SetSourceFilterSettings", "SetSourceFilterEnabled"}

General ==
    {"GetVersion", "GetStats", "BroadcastCustomEvent", "CallVendorRequest", "GetHotkeyList",
     "TriggerHotkeyByName", "TriggerHotkeyByKeySequence", "Sleep"}

Inputs ==
    {"GetInputList", "GetInputKindList", "GetSpecialInputs", "CreateInput", "RemoveInput",
     "SetInputName", "GetInputDefaultSettings", "GetInputSettings", "SetInputSettings",
     "GetInputMute", "SetInputMute", "ToggleInputMute", "GetInputVolume", "SetInputVolume",
     "GetInputAudioBalance", "SetInputAudioBalance", "GetInputAudioSyncOffset",
     "SetInputAudioSyncOffset", "GetInputAudioMonitorType", "SetInputAudioMonitorType",
     "GetInputAudioTracks", "SetInputAudioTracks", "GetInputDeinterlaceMode",
     "SetInputDeinterlaceMode", "GetInputDeinterlaceFieldOrder",
     "SetInputDeinterlaceFieldOrder", "GetInputPropertiesListPropertyItems",
     "PressInputPropertiesButton"}

MediaInputs ==
    {"GetMediaInputStatus", "SetMediaInputCursor", "OffsetMediaInputCursor",
     "TriggerMediaInputAction"}

Outputs ==
    {"GetVirtualCamStatus", "ToggleVirtualCam", "StartVirtualCam", "StopVirtualCam",
     "GetReplayBufferStatus", "ToggleReplayBuffer", "StartReplayBuffer", "StopReplayBuffer",
     "SaveReplayBuffer", "GetLastReplayBufferReplay", "GetOutputList", "GetOutputStatus",
     "ToggleOutput", "StartOutput", "StopOutput", "GetOutputSettings", "SetOutputSettings"}

Record ==
    {"GetRecordStatus", "ToggleRecord", "StartRecord", "StopRecord", "ToggleRecordPause",
     "PauseRecord", "ResumeRecord", "SplitRecordFile", "CreateRecordChapter"}

SceneItems ==
    {"GetSceneItemList", "GetGroupSceneItemList", "GetSceneItemId", "GetSceneItemSource",
     "CreateSceneItem", "RemoveSceneItem", "DuplicateSceneItem", "GetSceneItemTransform",
     "SetSceneItemTransform", "GetSceneItemEnabled", "SetSceneItemEnabled",
     "GetSceneItemLocked", "SetSceneItemLocked", "GetSceneItemIndex", "SetSceneItemIndex",
     "GetSceneItemBlendMode", "SetSceneItemBlendMode"}

Scenes ==
    {"GetSceneList", "GetGroupList", "GetCurrentProgramScene", "SetCurrentProgramScene",
     "GetCurrentPreviewScene", "SetCurrentPreviewScene", "CreateScene", "RemoveScene",
     "SetSceneName", "GetSceneSceneTransitionOverride", "SetSceneSceneTransitionOverride"}

Sources ==
    {"GetSourceActive", "GetSourceScreenshot", "SaveSourceScreenshot"}

Stream ==
    {"GetStreamStatus", "ToggleStream", "StartStream", "StopStream", "SendStreamCaption"}

Transitions ==
    {"GetTransitionKindList", "GetSceneTransitionList", "GetCurrentSceneTransition",
     "SetCurrentSceneTransition", "SetCurrentSceneTransitionDuration",
     "SetCurrentSceneTransitionSettings", "GetCurrentSceneTransitionCursor",
     "TriggerStudioModeTransition", "SetTBarPosition"}

Ui ==
    {"GetStudioModeEnabled", "SetStudioModeEnabled", "OpenInputPropertiesDialog",
     "OpenInputFiltersDialog", "OpenInputInteractDialog", "GetMonitorList",
     "OpenVideoMixProjector", "OpenSourceProjector"}

\* The categories of methods a Client offers.
Api ==
    [Canvases |-> Canvases, Config |-> Config, Filters |-> Filters, General |-> General,
     Inputs |-> Inputs, MediaInputs |-> MediaInputs, Outputs |-> Outputs, Record |-> Record,
     SceneItems |-> SceneItems, Scenes |-> Scenes, Sources |-> Sources, Stream |-> Stream,
     Transitions |-> Transitions, Ui |-> Ui]

=============================================================================
