----------------------------- MODULE Protocol -----------------------------
(***************************************************************************)
(* What obs-websocket documents (protocol/protocol.json), by category:     *)
(* the fields of requests, of responses and of events.                     *)
(***************************************************************************)
EXTENDS Json, TLC

\* A field as the document describes it: its type, whether it may be left out,
\* whether its description mentions null, as code or plainly, whether its
\* restrictions name fractions, and, if its name is a path into another field, the
\* part of that field it is.
Doc(type) ==
    [type |-> type, optional |-> FALSE, null |-> "no", fraction |-> FALSE, part |-> ""]
Optional(d) == [d EXCEPT !.optional = TRUE]
OrNull(d) == [d EXCEPT !.null = "code"]
OrPlainNull(d) == [d EXCEPT !.null = "plain"]
Fraction(d) == [d EXCEPT !.fraction = TRUE]
PartOf(d, part) == [d EXCEPT !.part = part]

\* The quantities that the descriptions say are measured, and OBS gives with a
\* fraction: percent, MB, FPS, an average of milliseconds, multipliers and dB of
\* volumes, and what lies between 0.0 and 1.0.
Measures ==
    {"cpuUsage", "memoryUsage", "availableDiskSpace", "activeFps", "averageFrameRenderTime",
     "inputVolumeMul", "inputVolumeDb", "inputAudioBalance", "outputCongestion",
     "transitionCursor"}

CanvasesRequests == [
    GetCanvasList |->
        [request |-> Nothing,
         response |-> [canvases |-> Doc("Array<Object>")]]]

ConfigRequests == [
    GetPersistentData |->
        [request |-> [realm |-> Doc("String"), slotName |-> Doc("String")],
         response |-> [slotValue |-> OrNull(Doc("Any"))]],
    SetPersistentData |->
        [request |-> [realm |-> Doc("String"), slotName |-> Doc("String"),
                     slotValue |-> Doc("Any")],
         response |-> Nothing],
    GetSceneCollectionList |->
        [request |-> Nothing,
         response |-> [currentSceneCollectionName |-> Doc("String"),
                      sceneCollections |-> Doc("Array<String>")]],
    SetCurrentSceneCollection |->
        [request |-> [sceneCollectionName |-> Doc("String")],
         response |-> Nothing],
    CreateSceneCollection |->
        [request |-> [sceneCollectionName |-> Doc("String")],
         response |-> Nothing],
    GetProfileList |->
        [request |-> Nothing,
         response |-> [currentProfileName |-> Doc("String"),
                      profiles |-> Doc("Array<String>")]],
    SetCurrentProfile |->
        [request |-> [profileName |-> Doc("String")],
         response |-> Nothing],
    CreateProfile |->
        [request |-> [profileName |-> Doc("String")],
         response |-> Nothing],
    RemoveProfile |->
        [request |-> [profileName |-> Doc("String")],
         response |-> Nothing],
    GetProfileParameter |->
        [request |-> [parameterCategory |-> Doc("String"), parameterName |-> Doc("String")],
         response |-> [parameterValue |-> OrNull(Doc("String")),
                      defaultParameterValue |-> OrNull(Doc("String"))]],
    SetProfileParameter |->
        [request |-> [parameterCategory |-> Doc("String"), parameterName |-> Doc("String"),
                     parameterValue |-> OrNull(Doc("String"))],
         response |-> Nothing],
    GetVideoSettings |->
        [request |-> Nothing,
         response |-> [fpsNumerator |-> Doc("Number"), fpsDenominator |-> Doc("Number"),
                      baseWidth |-> Doc("Number"), baseHeight |-> Doc("Number"),
                      outputWidth |-> Doc("Number"), outputHeight |-> Doc("Number")]],
    SetVideoSettings |->
        [request |-> [fpsNumerator |-> Optional(Doc("Number")),
                     fpsDenominator |-> Optional(Doc("Number")),
                     baseWidth |-> Optional(Doc("Number")),
                     baseHeight |-> Optional(Doc("Number")),
                     outputWidth |-> Optional(Doc("Number")),
                     outputHeight |-> Optional(Doc("Number"))],
         response |-> Nothing],
    GetStreamServiceSettings |->
        [request |-> Nothing,
         response |-> [streamServiceType |-> Doc("String"),
                      streamServiceSettings |-> Doc("Object")]],
    SetStreamServiceSettings |->
        [request |-> [streamServiceType |-> Doc("String"),
                     streamServiceSettings |-> Doc("Object")],
         response |-> Nothing],
    GetRecordDirectory |->
        [request |-> Nothing,
         response |-> [recordDirectory |-> Doc("String")]],
    SetRecordDirectory |->
        [request |-> [recordDirectory |-> Doc("String")],
         response |-> Nothing]]

FiltersRequests == [
    GetSourceFilterKindList |->
        [request |-> Nothing,
         response |-> [sourceFilterKinds |-> Doc("Array<String>")]],
    GetSourceFilterList |->
        [request |-> [canvasUuid |-> Optional(Doc("String")),
                     sourceName |-> Optional(Doc("String")),
                     sourceUuid |-> Optional(Doc("String"))],
         response |-> [filters |-> Doc("Array<Object>")]],
    GetSourceFilterDefaultSettings |->
        [request |-> [filterKind |-> Doc("String")],
         response |-> [defaultFilterSettings |-> Doc("Object")]],
    CreateSourceFilter |->
        [request |-> [canvasUuid |-> Optional(Doc("String")),
                     sourceName |-> Optional(Doc("String")),
                     sourceUuid |-> Optional(Doc("String")), filterName |-> Doc("String"),
                     filterKind |-> Doc("String"),
                     filterSettings |-> Optional(Doc("Object"))],
         response |-> Nothing],
    RemoveSourceFilter |->
        [request |-> [canvasUuid |-> Optional(Doc("String")),
                     sourceName |-> Optional(Doc("String")),
                     sourceUuid |-> Optional(Doc("String")), filterName |-> Doc("String")],
         response |-> Nothing],
    SetSourceFilterName |->
        [request |-> [canvasUuid |-> Optional(Doc("String")),
                     sourceName |-> Optional(Doc("String")),
                     sourceUuid |-> Optional(Doc("String")), filterName |-> Doc("String"),
                     newFilterName |-> Doc("String")],
         response |-> Nothing],
    GetSourceFilter |->
        [request |-> [canvasUuid |-> Optional(Doc("String")),
                     sourceName |-> Optional(Doc("String")),
                     sourceUuid |-> Optional(Doc("String")), filterName |-> Doc("String")],
         response |-> [filterEnabled |-> Doc("Boolean"), filterIndex |-> Doc("Number"),
                      filterKind |-> Doc("String"), filterSettings |-> Doc("Object")]],
    SetSourceFilterIndex |->
        [request |-> [canvasUuid |-> Optional(Doc("String")),
                     sourceName |-> Optional(Doc("String")),
                     sourceUuid |-> Optional(Doc("String")), filterName |-> Doc("String"),
                     filterIndex |-> Doc("Number")],
         response |-> Nothing],
    SetSourceFilterSettings |->
        [request |-> [canvasUuid |-> Optional(Doc("String")),
                     sourceName |-> Optional(Doc("String")),
                     sourceUuid |-> Optional(Doc("String")), filterName |-> Doc("String"),
                     filterSettings |-> Doc("Object"), overlay |-> Optional(Doc("Boolean"))],
         response |-> Nothing],
    SetSourceFilterEnabled |->
        [request |-> [canvasUuid |-> Optional(Doc("String")),
                     sourceName |-> Optional(Doc("String")),
                     sourceUuid |-> Optional(Doc("String")), filterName |-> Doc("String"),
                     filterEnabled |-> Doc("Boolean")],
         response |-> Nothing]]

GeneralRequests == [
    GetVersion |->
        [request |-> Nothing,
         response |-> [obsVersion |-> Doc("String"), obsWebSocketVersion |-> Doc("String"),
                      rpcVersion |-> Doc("Number"),
                      availableRequests |-> Doc("Array<String>"),
                      supportedImageFormats |-> Doc("Array<String>"),
                      platform |-> Doc("String"), platformDescription |-> Doc("String")]],
    GetStats |->
        [request |-> Nothing,
         response |-> [cpuUsage |-> Doc("Number"), memoryUsage |-> Doc("Number"),
                      availableDiskSpace |-> Doc("Number"), activeFps |-> Doc("Number"),
                      averageFrameRenderTime |-> Doc("Number"),
                      renderSkippedFrames |-> Doc("Number"),
                      renderTotalFrames |-> Doc("Number"),
                      outputSkippedFrames |-> Doc("Number"),
                      outputTotalFrames |-> Doc("Number"),
                      webSocketSessionIncomingMessages |-> Doc("Number"),
                      webSocketSessionOutgoingMessages |-> Doc("Number")]],
    BroadcastCustomEvent |->
        [request |-> [eventData |-> Doc("Object")],
         response |-> Nothing],
    CallVendorRequest |->
        [request |-> [vendorName |-> Doc("String"), requestType |-> Doc("String"),
                     requestData |-> Optional(Doc("Object"))],
         response |-> [vendorName |-> Doc("String"), requestType |-> Doc("String"),
                      responseData |-> Doc("Object")]],
    GetHotkeyList |->
        [request |-> Nothing,
         response |-> [hotkeys |-> Doc("Array<String>")]],
    TriggerHotkeyByName |->
        [request |-> [hotkeyName |-> Doc("String"), contextName |-> Optional(Doc("String"))],
         response |-> Nothing],
    TriggerHotkeyByKeySequence |->
        [request |-> [keyId |-> Optional(Doc("String")),
                     keyModifiers |-> Optional(Doc("Object"))]
                    @@ ("keyModifiers.shift" :> PartOf(Optional(Doc("Boolean")), "shift"))
                    @@ ("keyModifiers.control" :> PartOf(Optional(Doc("Boolean")), "control"))
                    @@ ("keyModifiers.alt" :> PartOf(Optional(Doc("Boolean")), "alt"))
                    @@ ("keyModifiers.command" :> PartOf(Optional(Doc("Boolean")), "command")),
         response |-> Nothing],
    Sleep |->
        [request |-> [sleepMillis |-> Optional(Doc("Number")),
                     sleepFrames |-> Optional(Doc("Number"))],
         response |-> Nothing]]

InputsRequests == [
    GetInputList |->
        [request |-> [inputKind |-> Optional(Doc("String"))],
         response |-> [inputs |-> Doc("Array<Object>")]],
    GetInputKindList |->
        [request |-> [unversioned |-> Optional(Doc("Boolean"))],
         response |-> [inputKinds |-> Doc("Array<String>")]],
    GetSpecialInputs |->
        [request |-> Nothing,
         response |-> [desktop1 |-> Doc("String"), desktop2 |-> Doc("String"),
                      mic1 |-> Doc("String"), mic2 |-> Doc("String"),
                      mic3 |-> Doc("String"), mic4 |-> Doc("String")]],
    CreateInput |->
        [request |-> [canvasUuid |-> Optional(Doc("String")),
                     sceneName |-> Optional(Doc("String")),
                     sceneUuid |-> Optional(Doc("String")), inputName |-> Doc("String"),
                     inputKind |-> Doc("String"), inputSettings |-> Optional(Doc("Object")),
                     sceneItemEnabled |-> Optional(Doc("Boolean"))],
         response |-> [inputUuid |-> Doc("String"), sceneItemId |-> Doc("Number")]],
    RemoveInput |->
        [request |-> [inputName |-> Optional(Doc("String")),
                     inputUuid |-> Optional(Doc("String"))],
         response |-> Nothing],
    SetInputName |->
        [request |-> [inputName |-> Optional(Doc("String")),
                     inputUuid |-> Optional(Doc("String")), newInputName |-> Doc("String")],
         response |-> Nothing],
    GetInputDefaultSettings |->
        [request |-> [inputKind |-> Doc("String")],
         response |-> [defaultInputSettings |-> Doc("Object")]],
    GetInputSettings |->
        [request |-> [inputName |-> Optional(Doc("String")),
                     inputUuid |-> Optional(Doc("String"))],
         response |-> [inputSettings |-> Doc("Object"), inputKind |-> Doc("String")]],
    SetInputSettings |->
        [request |-> [inputName |-> Optional(Doc("String")),
                     inputUuid |-> Optional(Doc("String")), inputSettings |-> Doc("Object"),
                     overlay |-> Optional(Doc("Boolean"))],
         response |-> Nothing],
    GetInputMute |->
        [request |-> [inputName |-> Optional(Doc("String")),
                     inputUuid |-> Optional(Doc("String"))],
         response |-> [inputMuted |-> Doc("Boolean")]],
    SetInputMute |->
        [request |-> [inputName |-> Optional(Doc("String")),
                     inputUuid |-> Optional(Doc("String")), inputMuted |-> Doc("Boolean")],
         response |-> Nothing],
    ToggleInputMute |->
        [request |-> [inputName |-> Optional(Doc("String")),
                     inputUuid |-> Optional(Doc("String"))],
         response |-> [inputMuted |-> Doc("Boolean")]],
    GetInputVolume |->
        [request |-> [inputName |-> Optional(Doc("String")),
                     inputUuid |-> Optional(Doc("String"))],
         response |-> [inputVolumeMul |-> Doc("Number"), inputVolumeDb |-> Doc("Number")]],
    SetInputVolume |->
        [request |-> [inputName |-> Optional(Doc("String")),
                     inputUuid |-> Optional(Doc("String")),
                     inputVolumeMul |-> Optional(Doc("Number")),
                     inputVolumeDb |-> Optional(Doc("Number"))],
         response |-> Nothing],
    GetInputAudioBalance |->
        [request |-> [inputName |-> Optional(Doc("String")),
                     inputUuid |-> Optional(Doc("String"))],
         response |-> [inputAudioBalance |-> Doc("Number")]],
    SetInputAudioBalance |->
        [request |-> [inputName |-> Optional(Doc("String")),
                     inputUuid |-> Optional(Doc("String")),
                     inputAudioBalance |-> Fraction(Doc("Number"))],
         response |-> Nothing],
    GetInputAudioSyncOffset |->
        [request |-> [inputName |-> Optional(Doc("String")),
                     inputUuid |-> Optional(Doc("String"))],
         response |-> [inputAudioSyncOffset |-> Doc("Number")]],
    SetInputAudioSyncOffset |->
        [request |-> [inputName |-> Optional(Doc("String")),
                     inputUuid |-> Optional(Doc("String")),
                     inputAudioSyncOffset |-> Doc("Number")],
         response |-> Nothing],
    GetInputAudioMonitorType |->
        [request |-> [inputName |-> Optional(Doc("String")),
                     inputUuid |-> Optional(Doc("String"))],
         response |-> [monitorType |-> Doc("String")]],
    SetInputAudioMonitorType |->
        [request |-> [inputName |-> Optional(Doc("String")),
                     inputUuid |-> Optional(Doc("String")), monitorType |-> Doc("String")],
         response |-> Nothing],
    GetInputAudioTracks |->
        [request |-> [inputName |-> Optional(Doc("String")),
                     inputUuid |-> Optional(Doc("String"))],
         response |-> [inputAudioTracks |-> Doc("Object")]],
    SetInputAudioTracks |->
        [request |-> [inputName |-> Optional(Doc("String")),
                     inputUuid |-> Optional(Doc("String")),
                     inputAudioTracks |-> Doc("Object")],
         response |-> Nothing],
    GetInputDeinterlaceMode |->
        [request |-> [inputName |-> Optional(Doc("String")),
                     inputUuid |-> Optional(Doc("String"))],
         response |-> [inputDeinterlaceMode |-> Doc("String")]],
    SetInputDeinterlaceMode |->
        [request |-> [inputName |-> Optional(Doc("String")),
                     inputUuid |-> Optional(Doc("String")),
                     inputDeinterlaceMode |-> Doc("String")],
         response |-> Nothing],
    GetInputDeinterlaceFieldOrder |->
        [request |-> [inputName |-> Optional(Doc("String")),
                     inputUuid |-> Optional(Doc("String"))],
         response |-> [inputDeinterlaceFieldOrder |-> Doc("String")]],
    SetInputDeinterlaceFieldOrder |->
        [request |-> [inputName |-> Optional(Doc("String")),
                     inputUuid |-> Optional(Doc("String")),
                     inputDeinterlaceFieldOrder |-> Doc("String")],
         response |-> Nothing],
    GetInputPropertiesListPropertyItems |->
        [request |-> [inputName |-> Optional(Doc("String")),
                     inputUuid |-> Optional(Doc("String")), propertyName |-> Doc("String")],
         response |-> [propertyItems |-> Doc("Array<Object>")]],
    PressInputPropertiesButton |->
        [request |-> [inputName |-> Optional(Doc("String")),
                     inputUuid |-> Optional(Doc("String")), propertyName |-> Doc("String")],
         response |-> Nothing]]

MediaInputsRequests == [
    GetMediaInputStatus |->
        [request |-> [inputName |-> Optional(Doc("String")),
                     inputUuid |-> Optional(Doc("String"))],
         response |-> [mediaState |-> Doc("String"), mediaDuration |-> OrNull(Doc("Number")),
                      mediaCursor |-> OrNull(Doc("Number"))]],
    SetMediaInputCursor |->
        [request |-> [inputName |-> Optional(Doc("String")),
                     inputUuid |-> Optional(Doc("String")), mediaCursor |-> Doc("Number")],
         response |-> Nothing],
    OffsetMediaInputCursor |->
        [request |-> [inputName |-> Optional(Doc("String")),
                     inputUuid |-> Optional(Doc("String")),
                     mediaCursorOffset |-> Doc("Number")],
         response |-> Nothing],
    TriggerMediaInputAction |->
        [request |-> [inputName |-> Optional(Doc("String")),
                     inputUuid |-> Optional(Doc("String")), mediaAction |-> Doc("String")],
         response |-> Nothing]]

OutputsRequests == [
    GetVirtualCamStatus |->
        [request |-> Nothing,
         response |-> [outputActive |-> Doc("Boolean")]],
    ToggleVirtualCam |->
        [request |-> Nothing,
         response |-> [outputActive |-> Doc("Boolean")]],
    StartVirtualCam |->
        [request |-> Nothing,
         response |-> Nothing],
    StopVirtualCam |->
        [request |-> Nothing,
         response |-> Nothing],
    GetReplayBufferStatus |->
        [request |-> Nothing,
         response |-> [outputActive |-> Doc("Boolean")]],
    ToggleReplayBuffer |->
        [request |-> Nothing,
         response |-> [outputActive |-> Doc("Boolean")]],
    StartReplayBuffer |->
        [request |-> Nothing,
         response |-> Nothing],
    StopReplayBuffer |->
        [request |-> Nothing,
         response |-> Nothing],
    SaveReplayBuffer |->
        [request |-> Nothing,
         response |-> Nothing],
    GetLastReplayBufferReplay |->
        [request |-> Nothing,
         response |-> [savedReplayPath |-> Doc("String")]],
    GetOutputList |->
        [request |-> Nothing,
         response |-> [outputs |-> Doc("Array<Object>")]],
    GetOutputStatus |->
        [request |-> [outputName |-> Doc("String")],
         response |-> [outputActive |-> Doc("Boolean"),
                      outputReconnecting |-> Doc("Boolean"),
                      outputTimecode |-> Doc("String"), outputDuration |-> Doc("Number"),
                      outputCongestion |-> Doc("Number"), outputBytes |-> Doc("Number"),
                      outputSkippedFrames |-> Doc("Number"),
                      outputTotalFrames |-> Doc("Number")]],
    ToggleOutput |->
        [request |-> [outputName |-> Doc("String")],
         response |-> [outputActive |-> Doc("Boolean")]],
    StartOutput |->
        [request |-> [outputName |-> Doc("String")],
         response |-> Nothing],
    StopOutput |->
        [request |-> [outputName |-> Doc("String")],
         response |-> Nothing],
    GetOutputSettings |->
        [request |-> [outputName |-> Doc("String")],
         response |-> [outputSettings |-> Doc("Object")]],
    SetOutputSettings |->
        [request |-> [outputName |-> Doc("String"), outputSettings |-> Doc("Object")],
         response |-> Nothing]]

RecordRequests == [
    GetRecordStatus |->
        [request |-> Nothing,
         response |-> [outputActive |-> Doc("Boolean"), outputPaused |-> Doc("Boolean"),
                      outputTimecode |-> Doc("String"), outputDuration |-> Doc("Number"),
                      outputBytes |-> Doc("Number")]],
    ToggleRecord |->
        [request |-> Nothing,
         response |-> [outputActive |-> Doc("Boolean")]],
    StartRecord |->
        [request |-> Nothing,
         response |-> Nothing],
    StopRecord |->
        [request |-> Nothing,
         response |-> [outputPath |-> Doc("String")]],
    ToggleRecordPause |->
        [request |-> Nothing,
         response |-> Nothing],
    PauseRecord |->
        [request |-> Nothing,
         response |-> Nothing],
    ResumeRecord |->
        [request |-> Nothing,
         response |-> Nothing],
    SplitRecordFile |->
        [request |-> Nothing,
         response |-> Nothing],
    CreateRecordChapter |->
        [request |-> [chapterName |-> Optional(Doc("String"))],
         response |-> Nothing]]

SceneItemsRequests == [
    GetSceneItemList |->
        [request |-> [canvasUuid |-> Optional(Doc("String")),
                     sceneName |-> Optional(Doc("String")),
                     sceneUuid |-> Optional(Doc("String"))],
         response |-> [sceneItems |-> Doc("Array<Object>")]],
    GetGroupSceneItemList |->
        [request |-> [canvasUuid |-> Optional(Doc("String")),
                     sceneName |-> Optional(Doc("String")),
                     sceneUuid |-> Optional(Doc("String"))],
         response |-> [sceneItems |-> Doc("Array<Object>")]],
    GetSceneItemId |->
        [request |-> [canvasUuid |-> Optional(Doc("String")),
                     sceneName |-> Optional(Doc("String")),
                     sceneUuid |-> Optional(Doc("String")), sourceName |-> Doc("String"),
                     searchOffset |-> Optional(Doc("Number"))],
         response |-> [sceneItemId |-> Doc("Number")]],
    GetSceneItemSource |->
        [request |-> [canvasUuid |-> Optional(Doc("String")),
                     sceneName |-> Optional(Doc("String")),
                     sceneUuid |-> Optional(Doc("String")), sceneItemId |-> Doc("Number")],
         response |-> [sourceName |-> Doc("String"), sourceUuid |-> Doc("String")]],
    CreateSceneItem |->
        [request |-> [canvasUuid |-> Optional(Doc("String")),
                     sceneName |-> Optional(Doc("String")),
                     sceneUuid |-> Optional(Doc("String")),
                     sourceName |-> Optional(Doc("String")),
                     sourceUuid |-> Optional(Doc("String")),
                     sceneItemEnabled |-> Optional(Doc("Boolean"))],
         response |-> [sceneItemId |-> Doc("Number")]],
    RemoveSceneItem |->
        [request |-> [canvasUuid |-> Optional(Doc("String")),
                     sceneName |-> Optional(Doc("String")),
                     sceneUuid |-> Optional(Doc("String")), sceneItemId |-> Doc("Number")],
         response |-> Nothing],
    DuplicateSceneItem |->
        [request |-> [canvasUuid |-> Optional(Doc("String")),
                     sceneName |-> Optional(Doc("String")),
                     sceneUuid |-> Optional(Doc("String")), sceneItemId |-> Doc("Number"),
                     destinationSceneName |-> Optional(Doc("String")),
                     destinationSceneUuid |-> Optional(Doc("String"))],
         response |-> [sceneItemId |-> Doc("Number")]],
    GetSceneItemTransform |->
        [request |-> [canvasUuid |-> Optional(Doc("String")),
                     sceneName |-> Optional(Doc("String")),
                     sceneUuid |-> Optional(Doc("String")), sceneItemId |-> Doc("Number")],
         response |-> [sceneItemTransform |-> Doc("Object")]],
    SetSceneItemTransform |->
        [request |-> [canvasUuid |-> Optional(Doc("String")),
                     sceneName |-> Optional(Doc("String")),
                     sceneUuid |-> Optional(Doc("String")), sceneItemId |-> Doc("Number"),
                     sceneItemTransform |-> Doc("Object")],
         response |-> Nothing],
    GetSceneItemEnabled |->
        [request |-> [canvasUuid |-> Optional(Doc("String")),
                     sceneName |-> Optional(Doc("String")),
                     sceneUuid |-> Optional(Doc("String")), sceneItemId |-> Doc("Number")],
         response |-> [sceneItemEnabled |-> Doc("Boolean")]],
    SetSceneItemEnabled |->
        [request |-> [canvasUuid |-> Optional(Doc("String")),
                     sceneName |-> Optional(Doc("String")),
                     sceneUuid |-> Optional(Doc("String")), sceneItemId |-> Doc("Number"),
                     sceneItemEnabled |-> Doc("Boolean")],
         response |-> Nothing],
    GetSceneItemLocked |->
        [request |-> [canvasUuid |-> Optional(Doc("String")),
                     sceneName |-> Optional(Doc("String")),
                     sceneUuid |-> Optional(Doc("String")), sceneItemId |-> Doc("Number")],
         response |-> [sceneItemLocked |-> Doc("Boolean")]],
    SetSceneItemLocked |->
        [request |-> [canvasUuid |-> Optional(Doc("String")),
                     sceneName |-> Optional(Doc("String")),
                     sceneUuid |-> Optional(Doc("String")), sceneItemId |-> Doc("Number"),
                     sceneItemLocked |-> Doc("Boolean")],
         response |-> Nothing],
    GetSceneItemIndex |->
        [request |-> [canvasUuid |-> Optional(Doc("String")),
                     sceneName |-> Optional(Doc("String")),
                     sceneUuid |-> Optional(Doc("String")), sceneItemId |-> Doc("Number")],
         response |-> [sceneItemIndex |-> Doc("Number")]],
    SetSceneItemIndex |->
        [request |-> [canvasUuid |-> Optional(Doc("String")),
                     sceneName |-> Optional(Doc("String")),
                     sceneUuid |-> Optional(Doc("String")), sceneItemId |-> Doc("Number"),
                     sceneItemIndex |-> Doc("Number")],
         response |-> Nothing],
    GetSceneItemBlendMode |->
        [request |-> [canvasUuid |-> Optional(Doc("String")),
                     sceneName |-> Optional(Doc("String")),
                     sceneUuid |-> Optional(Doc("String")), sceneItemId |-> Doc("Number")],
         response |-> [sceneItemBlendMode |-> Doc("String")]],
    SetSceneItemBlendMode |->
        [request |-> [canvasUuid |-> Optional(Doc("String")),
                     sceneName |-> Optional(Doc("String")),
                     sceneUuid |-> Optional(Doc("String")), sceneItemId |-> Doc("Number"),
                     sceneItemBlendMode |-> Doc("String")],
         response |-> Nothing]]

ScenesRequests == [
    GetSceneList |->
        [request |-> [canvasUuid |-> Optional(Doc("String"))],
         response |-> [currentProgramSceneName |-> OrNull(Doc("String")),
                      currentProgramSceneUuid |-> OrNull(Doc("String")),
                      currentPreviewSceneName |-> OrNull(Doc("String")),
                      currentPreviewSceneUuid |-> OrNull(Doc("String")),
                      scenes |-> Doc("Array<Object>")]],
    GetGroupList |->
        [request |-> Nothing,
         response |-> [groups |-> Doc("Array<String>")]],
    GetCurrentProgramScene |->
        [request |-> Nothing,
         response |-> [sceneName |-> Doc("String"), sceneUuid |-> Doc("String"),
                      currentProgramSceneName |-> Doc("String"),
                      currentProgramSceneUuid |-> Doc("String")]],
    SetCurrentProgramScene |->
        [request |-> [sceneName |-> Optional(Doc("String")),
                     sceneUuid |-> Optional(Doc("String"))],
         response |-> Nothing],
    GetCurrentPreviewScene |->
        [request |-> Nothing,
         response |-> [sceneName |-> Doc("String"), sceneUuid |-> Doc("String"),
                      currentPreviewSceneName |-> Doc("String"),
                      currentPreviewSceneUuid |-> Doc("String")]],
    SetCurrentPreviewScene |->
        [request |-> [sceneName |-> Optional(Doc("String")),
                     sceneUuid |-> Optional(Doc("String"))],
         response |-> Nothing],
    CreateScene |->
        [request |-> [canvasUuid |-> Optional(Doc("String")), sceneName |-> Doc("String")],
         response |-> [sceneUuid |-> Doc("String")]],
    RemoveScene |->
        [request |-> [canvasUuid |-> Optional(Doc("String")),
                     sceneName |-> Optional(Doc("String")),
                     sceneUuid |-> Optional(Doc("String"))],
         response |-> Nothing],
    SetSceneName |->
        [request |-> [canvasUuid |-> Optional(Doc("String")),
                     sceneName |-> Optional(Doc("String")),
                     sceneUuid |-> Optional(Doc("String")), newSceneName |-> Doc("String")],
         response |-> Nothing],
    GetSceneSceneTransitionOverride |->
        [request |-> [canvasUuid |-> Optional(Doc("String")),
                     sceneName |-> Optional(Doc("String")),
                     sceneUuid |-> Optional(Doc("String"))],
         response |-> [transitionName |-> OrNull(Doc("String")),
                      transitionDuration |-> OrNull(Doc("Number"))]],
    SetSceneSceneTransitionOverride |->
        [request |-> [canvasUuid |-> Optional(Doc("String")),
                     sceneName |-> Optional(Doc("String")),
                     sceneUuid |-> Optional(Doc("String")),
                     transitionName |-> Optional(OrNull(Doc("String"))),
                     transitionDuration |-> Optional(OrNull(Doc("Number")))],
         response |-> Nothing]]

SourcesRequests == [
    GetSourceActive |->
        [request |-> [canvasUuid |-> Optional(Doc("String")),
                     sourceName |-> Optional(Doc("String")),
                     sourceUuid |-> Optional(Doc("String"))],
         response |-> [videoActive |-> Doc("Boolean"), videoShowing |-> Doc("Boolean")]],
    GetSourceScreenshot |->
        [request |-> [canvasUuid |-> Optional(Doc("String")),
                     sourceName |-> Optional(Doc("String")),
                     sourceUuid |-> Optional(Doc("String")), imageFormat |-> Doc("String"),
                     imageWidth |-> Optional(Doc("Number")),
                     imageHeight |-> Optional(Doc("Number")),
                     imageCompressionQuality |-> Optional(Doc("Number"))],
         response |-> [imageData |-> Doc("String")]],
    SaveSourceScreenshot |->
        [request |-> [canvasUuid |-> Optional(Doc("String")),
                     sourceName |-> Optional(Doc("String")),
                     sourceUuid |-> Optional(Doc("String")), imageFormat |-> Doc("String"),
                     imageFilePath |-> Doc("String"),
                     imageWidth |-> Optional(Doc("Number")),
                     imageHeight |-> Optional(Doc("Number")),
                     imageCompressionQuality |-> Optional(Doc("Number"))],
         response |-> Nothing]]

StreamRequests == [
    GetStreamStatus |->
        [request |-> Nothing,
         response |-> [outputActive |-> Doc("Boolean"),
                      outputReconnecting |-> Doc("Boolean"),
                      outputTimecode |-> Doc("String"), outputDuration |-> Doc("Number"),
                      outputCongestion |-> Doc("Number"), outputBytes |-> Doc("Number"),
                      outputSkippedFrames |-> Doc("Number"),
                      outputTotalFrames |-> Doc("Number")]],
    ToggleStream |->
        [request |-> Nothing,
         response |-> [outputActive |-> Doc("Boolean")]],
    StartStream |->
        [request |-> Nothing,
         response |-> Nothing],
    StopStream |->
        [request |-> Nothing,
         response |-> Nothing],
    SendStreamCaption |->
        [request |-> [captionText |-> Doc("String")],
         response |-> Nothing]]

TransitionsRequests == [
    GetTransitionKindList |->
        [request |-> Nothing,
         response |-> [transitionKinds |-> Doc("Array<String>")]],
    GetSceneTransitionList |->
        [request |-> Nothing,
         response |-> [currentSceneTransitionName |-> OrPlainNull(Doc("String")),
                      currentSceneTransitionUuid |-> OrPlainNull(Doc("String")),
                      currentSceneTransitionKind |-> OrPlainNull(Doc("String")),
                      transitions |-> Doc("Array<Object>")]],
    GetCurrentSceneTransition |->
        [request |-> Nothing,
         response |-> [transitionName |-> Doc("String"), transitionUuid |-> Doc("String"),
                      transitionKind |-> Doc("String"), transitionFixed |-> Doc("Boolean"),
                      transitionDuration |-> OrNull(Doc("Number")),
                      transitionConfigurable |-> Doc("Boolean"),
                      transitionSettings |-> OrNull(Doc("Object"))]],
    SetCurrentSceneTransition |->
        [request |-> [transitionName |-> Doc("String")],
         response |-> Nothing],
    SetCurrentSceneTransitionDuration |->
        [request |-> [transitionDuration |-> Doc("Number")],
         response |-> Nothing],
    SetCurrentSceneTransitionSettings |->
        [request |-> [transitionSettings |-> Doc("Object"),
                     overlay |-> Optional(Doc("Boolean"))],
         response |-> Nothing],
    GetCurrentSceneTransitionCursor |->
        [request |-> Nothing,
         response |-> [transitionCursor |-> Doc("Number")]],
    TriggerStudioModeTransition |->
        [request |-> Nothing,
         response |-> Nothing],
    SetTBarPosition |->
        [request |-> [position |-> Fraction(Doc("Number")),
                     release |-> Optional(Doc("Boolean"))],
         response |-> Nothing]]

UiRequests == [
    GetStudioModeEnabled |->
        [request |-> Nothing,
         response |-> [studioModeEnabled |-> Doc("Boolean")]],
    SetStudioModeEnabled |->
        [request |-> [studioModeEnabled |-> Doc("Boolean")],
         response |-> Nothing],
    OpenInputPropertiesDialog |->
        [request |-> [inputName |-> Optional(Doc("String")),
                     inputUuid |-> Optional(Doc("String"))],
         response |-> Nothing],
    OpenInputFiltersDialog |->
        [request |-> [inputName |-> Optional(Doc("String")),
                     inputUuid |-> Optional(Doc("String"))],
         response |-> Nothing],
    OpenInputInteractDialog |->
        [request |-> [inputName |-> Optional(Doc("String")),
                     inputUuid |-> Optional(Doc("String"))],
         response |-> Nothing],
    GetMonitorList |->
        [request |-> Nothing,
         response |-> [monitors |-> Doc("Array<Object>")]],
    OpenVideoMixProjector |->
        [request |-> [videoMixType |-> Doc("String"),
                     monitorIndex |-> Optional(Doc("Number")),
                     projectorGeometry |-> Optional(Doc("String"))],
         response |-> Nothing],
    OpenSourceProjector |->
        [request |-> [canvasUuid |-> Optional(Doc("String")),
                     sourceName |-> Optional(Doc("String")),
                     sourceUuid |-> Optional(Doc("String")),
                     monitorIndex |-> Optional(Doc("Number")),
                     projectorGeometry |-> Optional(Doc("String"))],
         response |-> Nothing]]

CanvasesEvents == [
    CanvasCreated |-> [canvasName |-> Doc("String"), canvasUuid |-> Doc("String")],
    CanvasRemoved |-> [canvasName |-> Doc("String"), canvasUuid |-> Doc("String")],
    CanvasNameChanged |-> [canvasUuid |-> Doc("String"), oldCanvasName |-> Doc("String"),
                            canvasName |-> Doc("String")]]

ConfigEvents == [
    CurrentSceneCollectionChanging |-> [sceneCollectionName |-> Doc("String")],
    CurrentSceneCollectionChanged |-> [sceneCollectionName |-> Doc("String")],
    SceneCollectionListChanged |-> [sceneCollections |-> Doc("Array<String>")],
    CurrentProfileChanging |-> [profileName |-> Doc("String")],
    CurrentProfileChanged |-> [profileName |-> Doc("String")],
    ProfileListChanged |-> [profiles |-> Doc("Array<String>")]]

FiltersEvents == [
    SourceFilterListReindexed |-> [sourceName |-> Doc("String"),
                                    filters |-> Doc("Array<Object>")],
    SourceFilterCreated |-> [sourceName |-> Doc("String"), filterName |-> Doc("String"),
                              filterKind |-> Doc("String"), filterIndex |-> Doc("Number"),
                              filterSettings |-> Doc("Object"),
                              defaultFilterSettings |-> Doc("Object")],
    SourceFilterRemoved |-> [sourceName |-> Doc("String"), filterName |-> Doc("String")],
    SourceFilterNameChanged |-> [sourceName |-> Doc("String"),
                                  oldFilterName |-> Doc("String"),
                                  filterName |-> Doc("String")],
    SourceFilterSettingsChanged |-> [sourceName |-> Doc("String"),
                                      filterName |-> Doc("String"),
                                      filterSettings |-> Doc("Object")],
    SourceFilterEnableStateChanged |-> [sourceName |-> Doc("String"),
                                         filterName |-> Doc("String"),
                                         filterEnabled |-> Doc("Boolean")]]

GeneralEvents == [
    ExitStarted |-> Nothing,
    VendorEvent |-> [vendorName |-> Doc("String"), eventType |-> Doc("String"),
                      eventData |-> Doc("Object")],
    CustomEvent |-> [eventData |-> Doc("Object")]]

InputsEvents == [
    InputCreated |-> [inputName |-> Doc("String"), inputUuid |-> Doc("String"),
                       inputKind |-> Doc("String"), unversionedInputKind |-> Doc("String"),
                       inputKindCaps |-> Doc("Number"), inputSettings |-> Doc("Object"),
                       defaultInputSettings |-> Doc("Object")],
    InputRemoved |-> [inputName |-> Doc("String"), inputUuid |-> Doc("String")],
    InputNameChanged |-> [inputUuid |-> Doc("String"), oldInputName |-> Doc("String"),
                           inputName |-> Doc("String")],
    InputSettingsChanged |-> [inputName |-> Doc("String"), inputUuid |-> Doc("String"),
                               inputSettings |-> Doc("Object")],
    InputActiveStateChanged |-> [inputName |-> Doc("String"), inputUuid |-> Doc("String"),
                                  videoActive |-> Doc("Boolean")],
    InputShowStateChanged |-> [inputName |-> Doc("String"), inputUuid |-> Doc("String"),
                                videoShowing |-> Doc("Boolean")],
    InputMuteStateChanged |-> [inputName |-> Doc("String"), inputUuid |-> Doc("String"),
                                inputMuted |-> Doc("Boolean")],
    InputVolumeChanged |-> [inputName |-> Doc("String"), inputUuid |-> Doc("String"),
                             inputVolumeMul |-> Doc("Number"),
                             inputVolumeDb |-> Doc("Number")],
    InputAudioBalanceChanged |-> [inputName |-> Doc("String"), inputUuid |-> Doc("String"),
                                   inputAudioBalance |-> Doc("Number")],
    InputAudioSyncOffsetChanged |-> [inputName |-> Doc("String"),
                                      inputUuid |-> Doc("String"),
                                      inputAudioSyncOffset |-> Doc("Number")],
    InputAudioTracksChanged |-> [inputName |-> Doc("String"), inputUuid |-> Doc("String"),
                                  inputAudioTracks |-> Doc("Object")],
    InputAudioMonitorTypeChanged |-> [inputName |-> Doc("String"),
                                       inputUuid |-> Doc("String"),
                                       monitorType |-> Doc("String")],
    InputVolumeMeters |-> [inputs |-> Doc("Array<Object>")]]

MediaInputsEvents == [
    MediaInputPlaybackStarted |-> [inputName |-> Doc("String"),
                                    inputUuid |-> Doc("String")],
    MediaInputPlaybackEnded |-> [inputName |-> Doc("String"), inputUuid |-> Doc("String")],
    MediaInputActionTriggered |-> [inputName |-> Doc("String"),
                                    inputUuid |-> Doc("String"),
                                    mediaAction |-> Doc("String")]]

OutputsEvents == [
    StreamStateChanged |-> [outputActive |-> Doc("Boolean"), outputState |-> Doc("String")],
    RecordStateChanged |-> [outputActive |-> Doc("Boolean"), outputState |-> Doc("String"),
                             outputPath |-> OrNull(Doc("String"))],
    RecordFileChanged |-> [newOutputPath |-> Doc("String")],
    ReplayBufferStateChanged |-> [outputActive |-> Doc("Boolean"),
                                   outputState |-> Doc("String")],
    VirtualcamStateChanged |-> [outputActive |-> Doc("Boolean"),
                                 outputState |-> Doc("String")],
    ReplayBufferSaved |-> [savedReplayPath |-> Doc("String")]]

SceneItemsEvents == [
    SceneItemCreated |-> [sceneName |-> Doc("String"), sceneUuid |-> Doc("String"),
                           sourceName |-> Doc("String"), sourceUuid |-> Doc("String"),
                           sceneItemId |-> Doc("Number"), sceneItemIndex |-> Doc("Number")],
    SceneItemRemoved |-> [sceneName |-> Doc("String"), sceneUuid |-> Doc("String"),
                           sourceName |-> Doc("String"), sourceUuid |-> Doc("String"),
                           sceneItemId |-> Doc("Number")],
    SceneItemListReindexed |-> [sceneName |-> Doc("String"), sceneUuid |-> Doc("String"),
                                 sceneItems |-> Doc("Array<Object>")],
    SceneItemEnableStateChanged |-> [sceneName |-> Doc("String"),
                                      sceneUuid |-> Doc("String"),
                                      sceneItemId |-> Doc("Number"),
                                      sceneItemEnabled |-> Doc("Boolean")],
    SceneItemLockStateChanged |-> [sceneName |-> Doc("String"),
                                    sceneUuid |-> Doc("String"),
                                    sceneItemId |-> Doc("Number"),
                                    sceneItemLocked |-> Doc("Boolean")],
    SceneItemSelected |-> [sceneName |-> Doc("String"), sceneUuid |-> Doc("String"),
                            sceneItemId |-> Doc("Number")],
    SceneItemTransformChanged |-> [sceneName |-> Doc("String"),
                                    sceneUuid |-> Doc("String"),
                                    sceneItemId |-> Doc("Number"),
                                    sceneItemTransform |-> Doc("Object")]]

ScenesEvents == [
    SceneCreated |-> [sceneName |-> Doc("String"), sceneUuid |-> Doc("String"),
                       isGroup |-> Doc("Boolean")],
    SceneRemoved |-> [sceneName |-> Doc("String"), sceneUuid |-> Doc("String"),
                       isGroup |-> Doc("Boolean")],
    SceneNameChanged |-> [sceneUuid |-> Doc("String"), oldSceneName |-> Doc("String"),
                           sceneName |-> Doc("String")],
    CurrentProgramSceneChanged |-> [sceneName |-> Doc("String"),
                                     sceneUuid |-> Doc("String")],
    CurrentPreviewSceneChanged |-> [sceneName |-> Doc("String"),
                                     sceneUuid |-> Doc("String")],
    SceneListChanged |-> [scenes |-> Doc("Array<Object>")]]

TransitionsEvents == [
    CurrentSceneTransitionChanged |-> [transitionName |-> Doc("String"),
                                        transitionUuid |-> Doc("String")],
    CurrentSceneTransitionDurationChanged |-> [transitionDuration |-> Doc("Number")],
    SceneTransitionStarted |-> [transitionName |-> Doc("String"),
                                 transitionUuid |-> Doc("String")],
    SceneTransitionEnded |-> [transitionName |-> Doc("String"),
                               transitionUuid |-> Doc("String")],
    SceneTransitionVideoEnded |-> [transitionName |-> Doc("String"),
                                    transitionUuid |-> Doc("String")]]

UiEvents == [
    StudioModeStateChanged |-> [studioModeEnabled |-> Doc("Boolean")],
    ScreenshotSaved |-> [savedScreenshotPath |-> Doc("String")]]

DocumentedRequests ==
    CanvasesRequests @@ ConfigRequests @@ FiltersRequests @@ GeneralRequests @@
    InputsRequests @@ MediaInputsRequests @@ OutputsRequests @@ RecordRequests @@
    SceneItemsRequests @@ ScenesRequests @@ SourcesRequests @@ StreamRequests @@
    TransitionsRequests @@ UiRequests

DocumentedEvents ==
    CanvasesEvents @@ ConfigEvents @@ FiltersEvents @@ GeneralEvents @@ InputsEvents
    @@ MediaInputsEvents @@ OutputsEvents @@ SceneItemsEvents @@ ScenesEvents @@
    TransitionsEvents @@ UiEvents

\* The types that fields of a name are documented with, wherever they occur.
TypesOf(fields) ==
    {<<IF fields[f].part = "" THEN f ELSE fields[f].part, fields[f].type>> : f \in DOMAIN fields}

NamesAndTypes ==
    UNION {TypesOf(DocumentedRequests[name].request) \cup
           TypesOf(DocumentedRequests[name].response) : name \in DOMAIN DocumentedRequests}
        \cup UNION {TypesOf(DocumentedEvents[name]) : name \in DOMAIN DocumentedEvents}

DocumentedTypes(name) == {t \in {pair[2] : pair \in NamesAndTypes} : <<name, t>> \in NamesAndTypes}

Categories ==
    [Canvases |-> DOMAIN CanvasesRequests, Config |-> DOMAIN ConfigRequests,
     Filters |-> DOMAIN FiltersRequests, General |-> DOMAIN GeneralRequests,
     Inputs |-> DOMAIN InputsRequests, MediaInputs |-> DOMAIN MediaInputsRequests,
     Outputs |-> DOMAIN OutputsRequests, Record |-> DOMAIN RecordRequests,
     SceneItems |-> DOMAIN SceneItemsRequests, Scenes |-> DOMAIN ScenesRequests,
     Sources |-> DOMAIN SourcesRequests, Stream |-> DOMAIN StreamRequests,
     Transitions |-> DOMAIN TransitionsRequests, Ui |-> DOMAIN UiRequests]

=============================================================================
