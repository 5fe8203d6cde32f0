------------------------------ MODULE Events ------------------------------
(***************************************************************************)
(* The typed events (generated/events.rs): what serde reads of each        *)
(* payload. Definitions have the names of the structs.                     *)
(***************************************************************************)
EXTENDS Json

CanvasCreated == [canvasName |-> String, canvasUuid |-> String]

CanvasRemoved == [canvasName |-> String, canvasUuid |-> String]

CanvasNameChanged == [canvasUuid |-> String, oldCanvasName |-> String,
                      canvasName |-> String]

CurrentSceneCollectionChanging == [sceneCollectionName |-> String]

CurrentSceneCollectionChanged == [sceneCollectionName |-> String]

SceneCollectionListChanged == [sceneCollections |-> Vec(String)]

CurrentProfileChanging == [profileName |-> String]

CurrentProfileChanged == [profileName |-> String]

ProfileListChanged == [profiles |-> Vec(String)]

SourceFilterListReindexed == [sourceName |-> String,
                              filters |-> Vec(Struct("SourceFilter"))]

SourceFilterCreated == [sourceName |-> String, filterName |-> String, filterKind |-> String,
                        filterIndex |-> I64, filterSettings |-> Value,
                        defaultFilterSettings |-> Value]

SourceFilterRemoved == [sourceName |-> String, filterName |-> String]

SourceFilterNameChanged == [sourceName |-> String, oldFilterName |-> String,
                            filterName |-> String]

SourceFilterSettingsChanged == [sourceName |-> String, filterName |-> String,
                                filterSettings |-> Value]

SourceFilterEnableStateChanged == [sourceName |-> String, filterName |-> String,
                                   filterEnabled |-> Bool]

ExitStarted == Nothing

InputCreated == [inputName |-> String, inputUuid |-> String, inputKind |-> String,
                 unversionedInputKind |-> String, inputKindCaps |-> I64,
                 inputSettings |-> Value, defaultInputSettings |-> Value]

InputRemoved == [inputName |-> String, inputUuid |-> String]

InputNameChanged == [inputUuid |-> String, oldInputName |-> String, inputName |-> String]

InputSettingsChanged == [inputName |-> String, inputUuid |-> String,
                         inputSettings |-> Value]

InputActiveStateChanged == [inputName |-> String, inputUuid |-> String,
                            videoActive |-> Bool]

InputShowStateChanged == [inputName |-> String, inputUuid |-> String, videoShowing |-> Bool]

InputMuteStateChanged == [inputName |-> String, inputUuid |-> String, inputMuted |-> Bool]

InputVolumeChanged == [inputName |-> String, inputUuid |-> String, inputVolumeMul |-> F64,
                       inputVolumeDb |-> F64]

InputAudioBalanceChanged == [inputName |-> String, inputUuid |-> String,
                             inputAudioBalance |-> F64]

InputAudioSyncOffsetChanged == [inputName |-> String, inputUuid |-> String,
                                inputAudioSyncOffset |-> I64]

InputAudioTracksChanged == [inputName |-> String, inputUuid |-> String,
                            inputAudioTracks |-> Struct("AudioTracks")]

InputAudioMonitorTypeChanged == [inputName |-> String, inputUuid |-> String,
                                 monitorType |-> String]

InputVolumeMeters == [inputs |-> Vec(Struct("InputVolumeMeter"))]

MediaInputPlaybackStarted == [inputName |-> String, inputUuid |-> String]

MediaInputPlaybackEnded == [inputName |-> String, inputUuid |-> String]

MediaInputActionTriggered == [inputName |-> String, inputUuid |-> String,
                              mediaAction |-> String]

StreamStateChanged == [outputActive |-> Bool, outputState |-> String]

RecordStateChanged == [outputActive |-> Bool, outputState |-> String,
                       outputPath |-> Option(String)]

RecordFileChanged == [newOutputPath |-> String]

ReplayBufferStateChanged == [outputActive |-> Bool, outputState |-> String]

VirtualcamStateChanged == [outputActive |-> Bool, outputState |-> String]

ReplayBufferSaved == [savedReplayPath |-> String]

SceneItemCreated == [sceneName |-> String, sceneUuid |-> String, sourceName |-> String,
                     sourceUuid |-> String, sceneItemId |-> I64, sceneItemIndex |-> I64]

SceneItemRemoved == [sceneName |-> String, sceneUuid |-> String, sourceName |-> String,
                     sourceUuid |-> String, sceneItemId |-> I64]

SceneItemListReindexed == [sceneName |-> String, sceneUuid |-> String,
                           sceneItems |-> Vec(Struct("SceneItemIndex"))]

SceneItemEnableStateChanged == [sceneName |-> String, sceneUuid |-> String,
                                sceneItemId |-> I64, sceneItemEnabled |-> Bool]

SceneItemLockStateChanged == [sceneName |-> String, sceneUuid |-> String,
                              sceneItemId |-> I64, sceneItemLocked |-> Bool]

SceneItemSelected == [sceneName |-> String, sceneUuid |-> String, sceneItemId |-> I64]

SceneItemTransformChanged == [sceneName |-> String, sceneUuid |-> String,
                              sceneItemId |-> I64,
                              sceneItemTransform |-> Struct("SceneItemTransform")]

SceneCreated == [sceneName |-> String, sceneUuid |-> String, isGroup |-> Bool]

SceneRemoved == [sceneName |-> String, sceneUuid |-> String, isGroup |-> Bool]

SceneNameChanged == [sceneUuid |-> String, oldSceneName |-> String, sceneName |-> String]

CurrentProgramSceneChanged == [sceneName |-> String, sceneUuid |-> String]

CurrentPreviewSceneChanged == [sceneName |-> String, sceneUuid |-> String]

SceneListChanged == [scenes |-> Vec(Struct("Scene"))]

CurrentSceneTransitionChanged == [transitionName |-> String, transitionUuid |-> String]

CurrentSceneTransitionDurationChanged == [transitionDuration |-> I64]

SceneTransitionStarted == [transitionName |-> String, transitionUuid |-> String]

SceneTransitionEnded == [transitionName |-> String, transitionUuid |-> String]

SceneTransitionVideoEnded == [transitionName |-> String, transitionUuid |-> String]

StudioModeStateChanged == [studioModeEnabled |-> Bool]

ScreenshotSaved == [savedScreenshotPath |-> String]

VendorEvent == [vendorName |-> String, eventType |-> String, eventData |-> Value]

CustomEvent == [eventData |-> Value]

\* The variants of Event that carry a payload, by name.
Events ==
    [CanvasCreated |-> CanvasCreated, CanvasRemoved |-> CanvasRemoved,
     CanvasNameChanged |-> CanvasNameChanged,
     CurrentSceneCollectionChanging |-> CurrentSceneCollectionChanging,
     CurrentSceneCollectionChanged |-> CurrentSceneCollectionChanged,
     SceneCollectionListChanged |-> SceneCollectionListChanged,
     CurrentProfileChanging |-> CurrentProfileChanging,
     CurrentProfileChanged |-> CurrentProfileChanged,
     ProfileListChanged |-> ProfileListChanged,
     SourceFilterListReindexed |-> SourceFilterListReindexed,
     SourceFilterCreated |-> SourceFilterCreated,
     SourceFilterRemoved |-> SourceFilterRemoved,
     SourceFilterNameChanged |-> SourceFilterNameChanged,
     SourceFilterSettingsChanged |-> SourceFilterSettingsChanged,
     SourceFilterEnableStateChanged |-> SourceFilterEnableStateChanged,
     ExitStarted |-> ExitStarted, InputCreated |-> InputCreated,
     InputRemoved |-> InputRemoved, InputNameChanged |-> InputNameChanged,
     InputSettingsChanged |-> InputSettingsChanged,
     InputActiveStateChanged |-> InputActiveStateChanged,
     InputShowStateChanged |-> InputShowStateChanged,
     InputMuteStateChanged |-> InputMuteStateChanged,
     InputVolumeChanged |-> InputVolumeChanged,
     InputAudioBalanceChanged |-> InputAudioBalanceChanged,
     InputAudioSyncOffsetChanged |-> InputAudioSyncOffsetChanged,
     InputAudioTracksChanged |-> InputAudioTracksChanged,
     InputAudioMonitorTypeChanged |-> InputAudioMonitorTypeChanged,
     InputVolumeMeters |-> InputVolumeMeters,
     MediaInputPlaybackStarted |-> MediaInputPlaybackStarted,
     MediaInputPlaybackEnded |-> MediaInputPlaybackEnded,
     MediaInputActionTriggered |-> MediaInputActionTriggered,
     StreamStateChanged |-> StreamStateChanged, RecordStateChanged |-> RecordStateChanged,
     RecordFileChanged |-> RecordFileChanged,
     ReplayBufferStateChanged |-> ReplayBufferStateChanged,
     VirtualcamStateChanged |-> VirtualcamStateChanged,
     ReplayBufferSaved |-> ReplayBufferSaved, SceneItemCreated |-> SceneItemCreated,
     SceneItemRemoved |-> SceneItemRemoved,
     SceneItemListReindexed |-> SceneItemListReindexed,
     SceneItemEnableStateChanged |-> SceneItemEnableStateChanged,
     SceneItemLockStateChanged |-> SceneItemLockStateChanged,
     SceneItemSelected |-> SceneItemSelected,
     SceneItemTransformChanged |-> SceneItemTransformChanged, SceneCreated |-> SceneCreated,
     SceneRemoved |-> SceneRemoved, SceneNameChanged |-> SceneNameChanged,
     CurrentProgramSceneChanged |-> CurrentProgramSceneChanged,
     CurrentPreviewSceneChanged |-> CurrentPreviewSceneChanged,
     SceneListChanged |-> SceneListChanged,
     CurrentSceneTransitionChanged |-> CurrentSceneTransitionChanged,
     CurrentSceneTransitionDurationChanged |-> CurrentSceneTransitionDurationChanged,
     SceneTransitionStarted |-> SceneTransitionStarted,
     SceneTransitionEnded |-> SceneTransitionEnded,
     SceneTransitionVideoEnded |-> SceneTransitionVideoEnded,
     StudioModeStateChanged |-> StudioModeStateChanged, ScreenshotSaved |-> ScreenshotSaved,
     VendorEvent |-> VendorEvent, CustomEvent |-> CustomEvent]

=============================================================================
