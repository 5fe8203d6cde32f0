----------------------------- MODULE Requests -----------------------------
(***************************************************************************)
(* The typed requests (generated/requests/*.rs): the obs-websocket         *)
(* release that introduced each, 5.n, its fields and those of its          *)
(* response. Definitions have the names of the structs.                    *)
(***************************************************************************)
EXTENDS Json

Typed(since, request, response) ==
    [since |-> since, request |-> request, response |-> response]

-----------------------------------------------------------------------------
\* canvases.rs

GetCanvasList == Typed(7, Nothing, [canvases |-> Vec(Struct("Canvas"))])

-----------------------------------------------------------------------------
\* config.rs

GetPersistentData ==
    Typed(0,
        [realm |-> String, slotName |-> String],
        [slotValue |-> Value])

SetPersistentData ==
    Typed(0,
        [realm |-> String, slotName |-> String, slotValue |-> Value],
        Nothing)

GetSceneCollectionList ==
    Typed(0,
        Nothing,
        [currentSceneCollectionName |-> String, sceneCollections |-> Vec(String)])

SetCurrentSceneCollection == Typed(0, [sceneCollectionName |-> String], Nothing)

CreateSceneCollection == Typed(0, [sceneCollectionName |-> String], Nothing)

GetProfileList ==
    Typed(0,
        Nothing,
        [currentProfileName |-> String, profiles |-> Vec(String)])

SetCurrentProfile == Typed(0, [profileName |-> String], Nothing)

CreateProfile == Typed(0, [profileName |-> String], Nothing)

RemoveProfile == Typed(0, [profileName |-> String], Nothing)

GetProfileParameter ==
    Typed(0,
        [parameterCategory |-> String, parameterName |-> String],
        [parameterValue |-> Option(String), defaultParameterValue |-> Option(String)])

SetProfileParameter ==
    Typed(0,
        [parameterCategory |-> String, parameterName |-> String,
         parameterValue |-> Option(String)],
        Nothing)

GetVideoSettings ==
    Typed(0,
        Nothing,
        [fpsNumerator |-> I64, fpsDenominator |-> I64, baseWidth |-> I64,
         baseHeight |-> I64, outputWidth |-> I64, outputHeight |-> I64])

SetVideoSettings ==
    Typed(0,
        [fpsNumerator |-> Option(I64), fpsDenominator |-> Option(I64),
         baseWidth |-> Option(I64), baseHeight |-> Option(I64), outputWidth |-> Option(I64),
         outputHeight |-> Option(I64)],
        Nothing)

GetStreamServiceSettings ==
    Typed(0,
        Nothing,
        [streamServiceType |-> String, streamServiceSettings |-> Value])

SetStreamServiceSettings ==
    Typed(0,
        [streamServiceType |-> String, streamServiceSettings |-> Value],
        Nothing)

GetRecordDirectory == Typed(0, Nothing, [recordDirectory |-> String])

SetRecordDirectory == Typed(3, [recordDirectory |-> String], Nothing)

-----------------------------------------------------------------------------
\* filters.rs

GetSourceFilterKindList == Typed(4, Nothing, [sourceFilterKinds |-> Vec(String)])

GetSourceFilterList ==
    Typed(0,
        [canvasUuid |-> Option(String), sourceName |-> Option(String),
         sourceUuid |-> Option(String)],
        [filters |-> Vec(Struct("SourceFilter"))])

GetSourceFilterDefaultSettings ==
    Typed(0,
        [filterKind |-> String],
        [defaultFilterSettings |-> Value])

CreateSourceFilter ==
    Typed(0,
        [canvasUuid |-> Option(String), sourceName |-> Option(String),
         sourceUuid |-> Option(String), filterName |-> String, filterKind |-> String,
         filterSettings |-> Value],
        Nothing)

RemoveSourceFilter ==
    Typed(0,
        [canvasUuid |-> Option(String), sourceName |-> Option(String),
         sourceUuid |-> Option(String), filterName |-> String],
        Nothing)

SetSourceFilterName ==
    Typed(0,
        [canvasUuid |-> Option(String), sourceName |-> Option(String),
         sourceUuid |-> Option(String), filterName |-> String, newFilterName |-> String],
        Nothing)

GetSourceFilter ==
    Typed(0,
        [canvasUuid |-> Option(String), sourceName |-> Option(String),
         sourceUuid |-> Option(String), filterName |-> String],
        [filterEnabled |-> Bool, filterIndex |-> I64, filterKind |-> String,
         filterSettings |-> Value])

SetSourceFilterIndex ==
    Typed(0,
        [canvasUuid |-> Option(String), sourceName |-> Option(String),
         sourceUuid |-> Option(String), filterName |-> String, filterIndex |-> I64],
        Nothing)

SetSourceFilterSettings ==
    Typed(0,
        [canvasUuid |-> Option(String), sourceName |-> Option(String),
         sourceUuid |-> Option(String), filterName |-> String, filterSettings |-> Value,
         overlay |-> Option(Bool)],
        Nothing)

SetSourceFilterEnabled ==
    Typed(0,
        [canvasUuid |-> Option(String), sourceName |-> Option(String),
         sourceUuid |-> Option(String), filterName |-> String, filterEnabled |-> Bool],
        Nothing)

-----------------------------------------------------------------------------
\* general.rs

GetVersion ==
    Typed(0,
        Nothing,
        [obsVersion |-> String, obsWebSocketVersion |-> String, rpcVersion |-> I64,
         availableRequests |-> Vec(String), supportedImageFormats |-> Vec(String),
         platform |-> String, platformDescription |-> String])

GetStats ==
    Typed(0,
        Nothing,
        [cpuUsage |-> F64, memoryUsage |-> F64, availableDiskSpace |-> F64,
         activeFps |-> F64, averageFrameRenderTime |-> F64, renderSkippedFrames |-> I64,
         renderTotalFrames |-> I64, outputSkippedFrames |-> I64, outputTotalFrames |-> I64,
         webSocketSessionIncomingMessages |-> I64, webSocketSessionOutgoingMessages |-> I64])

BroadcastCustomEvent == Typed(0, [eventData |-> Value], Nothing)

CallVendorRequest ==
    Typed(0,
        [vendorName |-> String, requestType |-> String, requestData |-> Value],
        [vendorName |-> String, requestType |-> String, responseData |-> Value])

GetHotkeyList == Typed(0, Nothing, [hotkeys |-> Vec(String)])

TriggerHotkeyByName ==
    Typed(0,
        [hotkeyName |-> String, contextName |-> Option(String)],
        Nothing)

TriggerHotkeyByKeySequence ==
    Typed(0,
        [keyId |-> Option(String), keyModifiers |-> Struct("KeyModifiers")],
        Nothing)

Sleep ==
    Typed(0,
        [sleepMillis |-> Option(I64), sleepFrames |-> Option(I64)],
        Nothing)

-----------------------------------------------------------------------------
\* inputs.rs

GetInputList ==
    Typed(0,
        [inputKind |-> Option(String)],
        [inputs |-> Vec(Struct("Input"))])

GetInputKindList ==
    Typed(0,
        [unversioned |-> Option(Bool)],
        [inputKinds |-> Vec(String)])

GetSpecialInputs ==
    Typed(0,
        Nothing,
        [desktop1 |-> String, desktop2 |-> String, mic1 |-> String, mic2 |-> String,
         mic3 |-> String, mic4 |-> String])

CreateInput ==
    Typed(0,
        [canvasUuid |-> Option(String), sceneName |-> Option(String),
         sceneUuid |-> Option(String), inputName |-> String, inputKind |-> String,
         inputSettings |-> Value, sceneItemEnabled |-> Option(Bool)],
        [inputUuid |-> String, sceneItemId |-> I64])

RemoveInput ==
    Typed(0,
        [inputName |-> Option(String), inputUuid |-> Option(String)],
        Nothing)

SetInputName ==
    Typed(0,
        [inputName |-> Option(String), inputUuid |-> Option(String),
         newInputName |-> String],
        Nothing)

GetInputDefaultSettings ==
    Typed(0,
        [inputKind |-> String],
        [defaultInputSettings |-> Value])

GetInputSettings ==
    Typed(0,
        [inputName |-> Option(String), inputUuid |-> Option(String)],
        [inputSettings |-> Value, inputKind |-> String])

SetInputSettings ==
    Typed(0,
        [inputName |-> Option(String), inputUuid |-> Option(String),
         inputSettings |-> Value, overlay |-> Option(Bool)],
        Nothing)

GetInputMute ==
    Typed(0,
        [inputName |-> Option(String), inputUuid |-> Option(String)],
        [inputMuted |-> Bool])

SetInputMute ==
    Typed(0,
        [inputName |-> Option(String), inputUuid |-> Option(String), inputMuted |-> Bool],
        Nothing)

ToggleInputMute ==
    Typed(0,
        [inputName |-> Option(String), inputUuid |-> Option(String)],
        [inputMuted |-> Bool])

GetInputVolume ==
    Typed(0,
        [inputName |-> Option(String), inputUuid |-> Option(String)],
        [inputVolumeMul |-> F64, inputVolumeDb |-> F64])

SetInputVolume ==
    Typed(0,
        [inputName |-> Option(String), inputUuid |-> Option(String),
         inputVolumeMul |-> Option(F64), inputVolumeDb |-> Option(F64)],
        Nothing)

GetInputAudioBalance ==
    Typed(0,
        [inputName |-> Option(String), inputUuid |-> Option(String)],
        [inputAudioBalance |-> F64])

SetInputAudioBalance ==
    Typed(0,
        [inputName |-> Option(String), inputUuid |-> Option(String),
         inputAudioBalance |-> F64],
        Nothing)

GetInputAudioSyncOffset ==
    Typed(0,
        [inputName |-> Option(String), inputUuid |-> Option(String)],
        [inputAudioSyncOffset |-> I64])

SetInputAudioSyncOffset ==
    Typed(0,
        [inputName |-> Option(String), inputUuid |-> Option(String),
         inputAudioSyncOffset |-> I64],
        Nothing)

GetInputAudioMonitorType ==
    Typed(0,
        [inputName |-> Option(String), inputUuid |-> Option(String)],
        [monitorType |-> String])

SetInputAudioMonitorType ==
    Typed(0,
        [inputName |-> Option(String), inputUuid |-> Option(String), monitorType |-> String],
        Nothing)

GetInputAudioTracks ==
    Typed(0,
        [inputName |-> Option(String), inputUuid |-> Option(String)],
        [inputAudioTracks |-> Struct("AudioTracks")])

SetInputAudioTracks ==
    Typed(0,
        [inputName |-> Option(String), inputUuid |-> Option(String),
         inputAudioTracks |-> Struct("AudioTracks")],
        Nothing)

GetInputDeinterlaceMode ==
    Typed(6,
        [inputName |-> Option(String), inputUuid |-> Option(String)],
        [inputDeinterlaceMode |-> String])

SetInputDeinterlaceMode ==
    Typed(6,
        [inputName |-> Option(String), inputUuid |-> Option(String),
         inputDeinterlaceMode |-> String],
        Nothing)

GetInputDeinterlaceFieldOrder ==
    Typed(6,
        [inputName |-> Option(String), inputUuid |-> Option(String)],
        [inputDeinterlaceFieldOrder |-> String])

SetInputDeinterlaceFieldOrder ==
    Typed(6,
        [inputName |-> Option(String), inputUuid |-> Option(String),
         inputDeinterlaceFieldOrder |-> String],
        Nothing)

GetInputPropertiesListPropertyItems ==
    Typed(0,
        [inputName |-> Option(String), inputUuid |-> Option(String),
         propertyName |-> String],
        [propertyItems |-> Vec(Struct("PropertyItem"))])

PressInputPropertiesButton ==
    Typed(0,
        [inputName |-> Option(String), inputUuid |-> Option(String),
         propertyName |-> String],
        Nothing)

-----------------------------------------------------------------------------
\* media_inputs.rs

GetMediaInputStatus ==
    Typed(0,
        [inputName |-> Option(String), inputUuid |-> Option(String)],
        [mediaState |-> String, mediaDuration |-> Option(I64), mediaCursor |-> Option(I64)])

SetMediaInputCursor ==
    Typed(0,
        [inputName |-> Option(String), inputUuid |-> Option(String), mediaCursor |-> I64],
        Nothing)

OffsetMediaInputCursor ==
    Typed(0,
        [inputName |-> Option(String), inputUuid |-> Option(String),
         mediaCursorOffset |-> I64],
        Nothing)

TriggerMediaInputAction ==
    Typed(0,
        [inputName |-> Option(String), inputUuid |-> Option(String), mediaAction |-> String],
        Nothing)

-----------------------------------------------------------------------------
\* outputs.rs

GetVirtualCamStatus == Typed(0, Nothing, [outputActive |-> Bool])

ToggleVirtualCam == Typed(0, Nothing, [outputActive |-> Bool])

StartVirtualCam == Typed(0, Nothing, Nothing)

StopVirtualCam == Typed(0, Nothing, Nothing)

GetReplayBufferStatus == Typed(0, Nothing, [outputActive |-> Bool])

ToggleReplayBuffer == Typed(0, Nothing, [outputActive |-> Bool])

StartReplayBuffer == Typed(0, Nothing, Nothing)

StopReplayBuffer == Typed(0, Nothing, Nothing)

SaveReplayBuffer == Typed(0, Nothing, Nothing)

GetLastReplayBufferReplay == Typed(0, Nothing, [savedReplayPath |-> String])

GetOutputList == Typed(0, Nothing, [outputs |-> Vec(Struct("Output"))])

GetOutputStatus ==
    Typed(0,
        [outputName |-> String],
        [outputActive |-> Bool, outputReconnecting |-> Bool, outputTimecode |-> String,
         outputDuration |-> I64, outputCongestion |-> F64, outputBytes |-> I64,
         outputSkippedFrames |-> I64, outputTotalFrames |-> I64])

ToggleOutput == Typed(0, [outputName |-> String], [outputActive |-> Bool])

StartOutput == Typed(0, [outputName |-> String], Nothing)

StopOutput == Typed(0, [outputName |-> String], Nothing)

GetOutputSettings == Typed(0, [outputName |-> String], [outputSettings |-> Value])

SetOutputSettings ==
    Typed(0,
        [outputName |-> String, outputSettings |-> Value],
        Nothing)

-----------------------------------------------------------------------------
\* record.rs

GetRecordStatus ==
    Typed(0,
        Nothing,
        [outputActive |-> Bool, outputPaused |-> Bool, outputTimecode |-> String,
         outputDuration |-> I64, outputBytes |-> I64])

ToggleRecord == Typed(0, Nothing, [outputActive |-> Bool])

StartRecord == Typed(0, Nothing, Nothing)

StopRecord == Typed(0, Nothing, [outputPath |-> String])

ToggleRecordPause == Typed(0, Nothing, Nothing)

PauseRecord == Typed(0, Nothing, Nothing)

ResumeRecord == Typed(0, Nothing, Nothing)

SplitRecordFile == Typed(5, Nothing, Nothing)

CreateRecordChapter == Typed(5, [chapterName |-> Option(String)], Nothing)

-----------------------------------------------------------------------------
\* scene_items.rs

GetSceneItemList ==
    Typed(0,
        [canvasUuid |-> Option(String), sceneName |-> Option(String),
         sceneUuid |-> Option(String)],
        [sceneItems |-> Vec(Struct("SceneItem"))])

GetGroupSceneItemList ==
    Typed(0,
        [canvasUuid |-> Option(String), sceneName |-> Option(String),
         sceneUuid |-> Option(String)],
        [sceneItems |-> Vec(Struct("SceneItem"))])

GetSceneItemId ==
    Typed(0,
        [canvasUuid |-> Option(String), sceneName |-> Option(String),
         sceneUuid |-> Option(String), sourceName |-> String, searchOffset |-> Option(I64)],
        [sceneItemId |-> I64])

GetSceneItemSource ==
    Typed(4,
        [canvasUuid |-> Option(String), sceneName |-> Option(String),
         sceneUuid |-> Option(String), sceneItemId |-> I64],
        [sourceName |-> String, sourceUuid |-> String])

CreateSceneItem ==
    Typed(0,
        [canvasUuid |-> Option(String), sceneName |-> Option(String),
         sceneUuid |-> Option(String), sourceName |-> Option(String),
         sourceUuid |-> Option(String), sceneItemEnabled |-> Option(Bool)],
        [sceneItemId |-> I64])

RemoveSceneItem ==
    Typed(0,
        [canvasUuid |-> Option(String), sceneName |-> Option(String),
         sceneUuid |-> Option(String), sceneItemId |-> I64],
        Nothing)

DuplicateSceneItem ==
    Typed(0,
        [canvasUuid |-> Option(String), sceneName |-> Option(String),
         sceneUuid |-> Option(String), sceneItemId |-> I64,
         destinationSceneName |-> Option(String), destinationSceneUuid |-> Option(String)],
        [sceneItemId |-> I64])

GetSceneItemTransform ==
    Typed(0,
        [canvasUuid |-> Option(String), sceneName |-> Option(String),
         sceneUuid |-> Option(String), sceneItemId |-> I64],
        [sceneItemTransform |-> Struct("SceneItemTransform")])

SetSceneItemTransform ==
    Typed(0,
        [canvasUuid |-> Option(String), sceneName |-> Option(String),
         sceneUuid |-> Option(String), sceneItemId |-> I64,
         sceneItemTransform |-> Struct("SceneItemTransformPartial")],
        Nothing)

GetSceneItemEnabled ==
    Typed(0,
        [canvasUuid |-> Option(String), sceneName |-> Option(String),
         sceneUuid |-> Option(String), sceneItemId |-> I64],
        [sceneItemEnabled |-> Bool])

SetSceneItemEnabled ==
    Typed(0,
        [canvasUuid |-> Option(String), sceneName |-> Option(String),
         sceneUuid |-> Option(String), sceneItemId |-> I64, sceneItemEnabled |-> Bool],
        Nothing)

GetSceneItemLocked ==
    Typed(0,
        [canvasUuid |-> Option(String), sceneName |-> Option(String),
         sceneUuid |-> Option(String), sceneItemId |-> I64],
        [sceneItemLocked |-> Bool])

SetSceneItemLocked ==
    Typed(0,
        [canvasUuid |-> Option(String), sceneName |-> Option(String),
         sceneUuid |-> Option(String), sceneItemId |-> I64, sceneItemLocked |-> Bool],
        Nothing)

GetSceneItemIndex ==
    Typed(0,
        [canvasUuid |-> Option(String), sceneName |-> Option(String),
         sceneUuid |-> Option(String), sceneItemId |-> I64],
        [sceneItemIndex |-> I64])

SetSceneItemIndex ==
    Typed(0,
        [canvasUuid |-> Option(String), sceneName |-> Option(String),
         sceneUuid |-> Option(String), sceneItemId |-> I64, sceneItemIndex |-> I64],
        Nothing)

GetSceneItemBlendMode ==
    Typed(0,
        [canvasUuid |-> Option(String), sceneName |-> Option(String),
         sceneUuid |-> Option(String), sceneItemId |-> I64],
        [sceneItemBlendMode |-> String])

SetSceneItemBlendMode ==
    Typed(0,
        [canvasUuid |-> Option(String), sceneName |-> Option(String),
         sceneUuid |-> Option(String), sceneItemId |-> I64, sceneItemBlendMode |-> String],
        Nothing)

-----------------------------------------------------------------------------
\* scenes.rs

GetSceneList ==
    Typed(0,
        [canvasUuid |-> Option(String)],
        [currentProgramSceneName |-> Option(String),
         currentProgramSceneUuid |-> Option(String),
         currentPreviewSceneName |-> Option(String),
         currentPreviewSceneUuid |-> Option(String), scenes |-> Vec(Struct("Scene"))])

GetGroupList == Typed(0, Nothing, [groups |-> Vec(String)])

GetCurrentProgramScene ==
    Typed(0,
        Nothing,
        [sceneName |-> String, sceneUuid |-> String, currentProgramSceneName |-> String,
         currentProgramSceneUuid |-> String])

SetCurrentProgramScene ==
    Typed(0,
        [sceneName |-> Option(String), sceneUuid |-> Option(String)],
        Nothing)

GetCurrentPreviewScene ==
    Typed(0,
        Nothing,
        [sceneName |-> String, sceneUuid |-> String, currentPreviewSceneName |-> String,
         currentPreviewSceneUuid |-> String])

SetCurrentPreviewScene ==
    Typed(0,
        [sceneName |-> Option(String), sceneUuid |-> Option(String)],
        Nothing)

CreateScene ==
    Typed(0,
        [canvasUuid |-> Option(String), sceneName |-> String],
        [sceneUuid |-> String])

RemoveScene ==
    Typed(0,
        [canvasUuid |-> Option(String), sceneName |-> Option(String),
         sceneUuid |-> Option(String)],
        Nothing)

SetSceneName ==
    Typed(0,
        [canvasUuid |-> Option(String), sceneName |-> Option(String),
         sceneUuid |-> Option(String), newSceneName |-> String],
        Nothing)

GetSceneSceneTransitionOverride ==
    Typed(0,
        [canvasUuid |-> Option(String), sceneName |-> Option(String),
         sceneUuid |-> Option(String)],
        [transitionName |-> Option(String), transitionDuration |-> Option(I64)])

SetSceneSceneTransitionOverride ==
    Typed(0,
        [canvasUuid |-> Option(String), sceneName |-> Option(String),
         sceneUuid |-> Option(String), transitionName |-> Option(String),
         transitionDuration |-> Option(I64)],
        Nothing)

-----------------------------------------------------------------------------
\* sources.rs

GetSourceActive ==
    Typed(0,
        [canvasUuid |-> Option(String), sourceName |-> Option(String),
         sourceUuid |-> Option(String)],
        [videoActive |-> Bool, videoShowing |-> Bool])

GetSourceScreenshot ==
    Typed(0,
        [canvasUuid |-> Option(String), sourceName |-> Option(String),
         sourceUuid |-> Option(String), imageFormat |-> String, imageWidth |-> Option(I64),
         imageHeight |-> Option(I64), imageCompressionQuality |-> Option(I64)],
        [imageData |-> String])

SaveSourceScreenshot ==
    Typed(0,
        [canvasUuid |-> Option(String), sourceName |-> Option(String),
         sourceUuid |-> Option(String), imageFormat |-> String, imageFilePath |-> String,
         imageWidth |-> Option(I64), imageHeight |-> Option(I64),
         imageCompressionQuality |-> Option(I64)],
        Nothing)

-----------------------------------------------------------------------------
\* stream.rs

GetStreamStatus ==
    Typed(0,
        Nothing,
        [outputActive |-> Bool, outputReconnecting |-> Bool, outputTimecode |-> String,
         outputDuration |-> I64, outputCongestion |-> F64, outputBytes |-> I64,
         outputSkippedFrames |-> I64, outputTotalFrames |-> I64])

ToggleStream == Typed(0, Nothing, [outputActive |-> Bool])

StartStream == Typed(0, Nothing, Nothing)

StopStream == Typed(0, Nothing, Nothing)

SendStreamCaption == Typed(0, [captionText |-> String], Nothing)

-----------------------------------------------------------------------------
\* transitions.rs

GetTransitionKindList == Typed(0, Nothing, [transitionKinds |-> Vec(String)])

GetSceneTransitionList ==
    Typed(0,
        Nothing,
        [currentSceneTransitionName |-> String, currentSceneTransitionUuid |-> String,
         currentSceneTransitionKind |-> String, transitions |-> Vec(Struct("Transition"))])

GetCurrentSceneTransition ==
    Typed(0,
        Nothing,
        [transitionName |-> String, transitionUuid |-> String, transitionKind |-> String,
         transitionFixed |-> Bool, transitionDuration |-> Option(I64),
         transitionConfigurable |-> Bool, transitionSettings |-> Value])

SetCurrentSceneTransition == Typed(0, [transitionName |-> String], Nothing)

SetCurrentSceneTransitionDuration == Typed(0, [transitionDuration |-> I64], Nothing)

SetCurrentSceneTransitionSettings ==
    Typed(0,
        [transitionSettings |-> Value, overlay |-> Option(Bool)],
        Nothing)

GetCurrentSceneTransitionCursor == Typed(0, Nothing, [transitionCursor |-> F64])

TriggerStudioModeTransition == Typed(0, Nothing, Nothing)

SetTBarPosition == Typed(0, [position |-> I64, release |-> Option(Bool)], Nothing)

-----------------------------------------------------------------------------
\* ui.rs

GetStudioModeEnabled == Typed(0, Nothing, [studioModeEnabled |-> Bool])

SetStudioModeEnabled == Typed(0, [studioModeEnabled |-> Bool], Nothing)

OpenInputPropertiesDialog ==
    Typed(0,
        [inputName |-> Option(String), inputUuid |-> Option(String)],
        Nothing)

OpenInputFiltersDialog ==
    Typed(0,
        [inputName |-> Option(String), inputUuid |-> Option(String)],
        Nothing)

OpenInputInteractDialog ==
    Typed(0,
        [inputName |-> Option(String), inputUuid |-> Option(String)],
        Nothing)

GetMonitorList == Typed(0, Nothing, [monitors |-> Vec(Struct("Monitor"))])

OpenVideoMixProjector ==
    Typed(0,
        [videoMixType |-> String, monitorIndex |-> Option(I64),
         projectorGeometry |-> Option(String)],
        Nothing)

OpenSourceProjector ==
    Typed(0,
        [canvasUuid |-> Option(String), sourceName |-> Option(String),
         sourceUuid |-> Option(String), monitorIndex |-> Option(I64),
         projectorGeometry |-> Option(String)],
        Nothing)

-----------------------------------------------------------------------------
\* The requests by name.
Requests ==
    [GetCanvasList |-> GetCanvasList, GetPersistentData |-> GetPersistentData,
     SetPersistentData |-> SetPersistentData,
     GetSceneCollectionList |-> GetSceneCollectionList,
     SetCurrentSceneCollection |-> SetCurrentSceneCollection,
     CreateSceneCollection |-> CreateSceneCollection, GetProfileList |-> GetProfileList,
     SetCurrentProfile |-> SetCurrentProfile, CreateProfile |-> CreateProfile,
     RemoveProfile |-> RemoveProfile, GetProfileParameter |-> GetProfileParameter,
     SetProfileParameter |-> SetProfileParameter, GetVideoSettings |-> GetVideoSettings,
     SetVideoSettings |-> SetVideoSettings,
     GetStreamServiceSettings |-> GetStreamServiceSettings,
     SetStreamServiceSettings |-> SetStreamServiceSettings,
     GetRecordDirectory |-> GetRecordDirectory, SetRecordDirectory |-> SetRecordDirectory,
     GetSourceFilterKindList |-> GetSourceFilterKindList,
     GetSourceFilterList |-> GetSourceFilterList,
     GetSourceFilterDefaultSettings |-> GetSourceFilterDefaultSettings,
     CreateSourceFilter |-> CreateSourceFilter, RemoveSourceFilter |-> RemoveSourceFilter,
     SetSourceFilterName |-> SetSourceFilterName, GetSourceFilter |-> GetSourceFilter,
     SetSourceFilterIndex |-> SetSourceFilterIndex,
     SetSourceFilterSettings |-> SetSourceFilterSettings,
     SetSourceFilterEnabled |-> SetSourceFilterEnabled, GetVersion |-> GetVersion,
     GetStats |-> GetStats, BroadcastCustomEvent |-> BroadcastCustomEvent,
     CallVendorRequest |-> CallVendorRequest, GetHotkeyList |-> GetHotkeyList,
     TriggerHotkeyByName |-> TriggerHotkeyByName,
     TriggerHotkeyByKeySequence |-> TriggerHotkeyByKeySequence, Sleep |-> Sleep,
     GetInputList |-> GetInputList, GetInputKindList |-> GetInputKindList,
     GetSpecialInputs |-> GetSpecialInputs, CreateInput |-> CreateInput,
     RemoveInput |-> RemoveInput, SetInputName |-> SetInputName,
     GetInputDefaultSettings |-> GetInputDefaultSettings,
     GetInputSettings |-> GetInputSettings, SetInputSettings |-> SetInputSettings,
     GetInputMute |-> GetInputMute, SetInputMute |-> SetInputMute,
     ToggleInputMute |-> ToggleInputMute, GetInputVolume |-> GetInputVolume,
     SetInputVolume |-> SetInputVolume, GetInputAudioBalance |-> GetInputAudioBalance,
     SetInputAudioBalance |-> SetInputAudioBalance,
     GetInputAudioSyncOffset |-> GetInputAudioSyncOffset,
     SetInputAudioSyncOffset |-> SetInputAudioSyncOffset,
     GetInputAudioMonitorType |-> GetInputAudioMonitorType,
     SetInputAudioMonitorType |-> SetInputAudioMonitorType,
     GetInputAudioTracks |-> GetInputAudioTracks,
     SetInputAudioTracks |-> SetInputAudioTracks,
     GetInputDeinterlaceMode |-> GetInputDeinterlaceMode,
     SetInputDeinterlaceMode |-> SetInputDeinterlaceMode,
     GetInputDeinterlaceFieldOrder |-> GetInputDeinterlaceFieldOrder,
     SetInputDeinterlaceFieldOrder |-> SetInputDeinterlaceFieldOrder,
     GetInputPropertiesListPropertyItems |-> GetInputPropertiesListPropertyItems,
     PressInputPropertiesButton |-> PressInputPropertiesButton,
     GetMediaInputStatus |-> GetMediaInputStatus,
     SetMediaInputCursor |-> SetMediaInputCursor,
     OffsetMediaInputCursor |-> OffsetMediaInputCursor,
     TriggerMediaInputAction |-> TriggerMediaInputAction,
     GetVirtualCamStatus |-> GetVirtualCamStatus, ToggleVirtualCam |-> ToggleVirtualCam,
     StartVirtualCam |-> StartVirtualCam, StopVirtualCam |-> StopVirtualCam,
     GetReplayBufferStatus |-> GetReplayBufferStatus,
     ToggleReplayBuffer |-> ToggleReplayBuffer, StartReplayBuffer |-> StartReplayBuffer,
     StopReplayBuffer |-> StopReplayBuffer, SaveReplayBuffer |-> SaveReplayBuffer,
     GetLastReplayBufferReplay |-> GetLastReplayBufferReplay,
     GetOutputList |-> GetOutputList, GetOutputStatus |-> GetOutputStatus,
     ToggleOutput |-> ToggleOutput, StartOutput |-> StartOutput, StopOutput |-> StopOutput,
     GetOutputSettings |-> GetOutputSettings, SetOutputSettings |-> SetOutputSettings,
     GetRecordStatus |-> GetRecordStatus, ToggleRecord |-> ToggleRecord,
     StartRecord |-> StartRecord, StopRecord |-> StopRecord,
     ToggleRecordPause |-> ToggleRecordPause, PauseRecord |-> PauseRecord,
     ResumeRecord |-> ResumeRecord, SplitRecordFile |-> SplitRecordFile,
     CreateRecordChapter |-> CreateRecordChapter, GetSceneItemList |-> GetSceneItemList,
     GetGroupSceneItemList |-> GetGroupSceneItemList, GetSceneItemId |-> GetSceneItemId,
     GetSceneItemSource |-> GetSceneItemSource, CreateSceneItem |-> CreateSceneItem,
     RemoveSceneItem |-> RemoveSceneItem, DuplicateSceneItem |-> DuplicateSceneItem,
     GetSceneItemTransform |-> GetSceneItemTransform,
     SetSceneItemTransform |-> SetSceneItemTransform,
     GetSceneItemEnabled |-> GetSceneItemEnabled,
     SetSceneItemEnabled |-> SetSceneItemEnabled, GetSceneItemLocked |-> GetSceneItemLocked,
     SetSceneItemLocked |-> SetSceneItemLocked, GetSceneItemIndex |-> GetSceneItemIndex,
     SetSceneItemIndex |-> SetSceneItemIndex,
     GetSceneItemBlendMode |-> GetSceneItemBlendMode,
     SetSceneItemBlendMode |-> SetSceneItemBlendMode, GetSceneList |-> GetSceneList,
     GetGroupList |-> GetGroupList, GetCurrentProgramScene |-> GetCurrentProgramScene,
     SetCurrentProgramScene |-> SetCurrentProgramScene,
     GetCurrentPreviewScene |-> GetCurrentPreviewScene,
     SetCurrentPreviewScene |-> SetCurrentPreviewScene, CreateScene |-> CreateScene,
     RemoveScene |-> RemoveScene, SetSceneName |-> SetSceneName,
     GetSceneSceneTransitionOverride |-> GetSceneSceneTransitionOverride,
     SetSceneSceneTransitionOverride |-> SetSceneSceneTransitionOverride,
     GetSourceActive |-> GetSourceActive, GetSourceScreenshot |-> GetSourceScreenshot,
     SaveSourceScreenshot |-> SaveSourceScreenshot, GetStreamStatus |-> GetStreamStatus,
     ToggleStream |-> ToggleStream, StartStream |-> StartStream, StopStream |-> StopStream,
     SendStreamCaption |-> SendStreamCaption,
     GetTransitionKindList |-> GetTransitionKindList,
     GetSceneTransitionList |-> GetSceneTransitionList,
     GetCurrentSceneTransition |-> GetCurrentSceneTransition,
     SetCurrentSceneTransition |-> SetCurrentSceneTransition,
     SetCurrentSceneTransitionDuration |-> SetCurrentSceneTransitionDuration,
     SetCurrentSceneTransitionSettings |-> SetCurrentSceneTransitionSettings,
     GetCurrentSceneTransitionCursor |-> GetCurrentSceneTransitionCursor,
     TriggerStudioModeTransition |-> TriggerStudioModeTransition,
     SetTBarPosition |-> SetTBarPosition, GetStudioModeEnabled |-> GetStudioModeEnabled,
     SetStudioModeEnabled |-> SetStudioModeEnabled,
     OpenInputPropertiesDialog |-> OpenInputPropertiesDialog,
     OpenInputFiltersDialog |-> OpenInputFiltersDialog,
     OpenInputInteractDialog |-> OpenInputInteractDialog, GetMonitorList |-> GetMonitorList,
     OpenVideoMixProjector |-> OpenVideoMixProjector,
     OpenSourceProjector |-> OpenSourceProjector]

=============================================================================
