------------------------------ MODULE Types -------------------------------
(***************************************************************************)
(* The structured objects of OBS (generated/types.rs): what serde reads    *)
(* and writes of each. Definitions have the names of the structs.          *)
(***************************************************************************)
EXTENDS Json

Scene == [sceneName |-> String, sceneUuid |-> String, sceneIndex |-> Option(I64)]

SceneItemTransform == [sourceWidth |-> F64, sourceHeight |-> F64, positionX |-> F64,
                       positionY |-> F64, rotation |-> F64, scaleX |-> F64, scaleY |-> F64,
                       width |-> F64, height |-> F64, alignment |-> I64, boundsType |-> I64,
                       boundsAlignment |-> I64, boundsWidth |-> F64, boundsHeight |-> F64,
                       cropLeft |-> I64, cropRight |-> I64, cropTop |-> I64,
                       cropBottom |-> I64, cropToBounds |-> Bool]

SceneItemTransformPartial == [sourceWidth |-> Option(F64), sourceHeight |-> Option(F64),
                              positionX |-> Option(F64), positionY |-> Option(F64),
                              rotation |-> Option(F64), scaleX |-> Option(F64),
                              scaleY |-> Option(F64), width |-> Option(F64),
                              height |-> Option(F64), alignment |-> Option(I64),
                              boundsType |-> Option(I64), boundsAlignment |-> Option(I64),
                              boundsWidth |-> Option(F64), boundsHeight |-> Option(F64),
                              cropLeft |-> Option(I64), cropRight |-> Option(I64),
                              cropTop |-> Option(I64), cropBottom |-> Option(I64),
                              cropToBounds |-> Option(Bool)]

SceneItem == [sceneItemId |-> I64, sceneItemIndex |-> I64, sceneItemEnabled |-> Bool,
              sceneItemLocked |-> Bool, sceneItemTransform |-> Struct("SceneItemTransform"),
              sceneItemBlendMode |-> I64, sourceName |-> String, sourceUuid |-> String,
              sourceType |-> I64, inputKind |-> Option(String), isGroup |-> Option(Bool)]

SceneItemIndex == [sceneItemId |-> I64, sceneItemIndex |-> I64]

Input == [inputName |-> String, inputUuid |-> String, inputKind |-> String,
          unversionedInputKind |-> String, inputKindCaps |-> I64]

SourceFilter == [filterEnabled |-> Bool, filterIndex |-> I64, filterKind |-> String,
                 filterName |-> String, filterSettings |-> Value]

Transition == [transitionName |-> String, transitionUuid |-> String,
               transitionKind |-> String, transitionFixed |-> Bool,
               transitionConfigurable |-> Bool]

OutputFlags == [OBS_OUTPUT_AUDIO |-> Bool, OBS_OUTPUT_VIDEO |-> Bool,
                OBS_OUTPUT_ENCODED |-> Bool, OBS_OUTPUT_MULTI_TRACK |-> Bool,
                OBS_OUTPUT_SERVICE |-> Bool]

Output == [outputName |-> String, outputKind |-> String, outputWidth |-> I64,
           outputHeight |-> I64, outputActive |-> Bool,
           outputFlags |-> Struct("OutputFlags")]

Monitor == [monitorName |-> String, monitorIndex |-> I64, monitorWidth |-> I64,
            monitorHeight |-> I64, monitorPositionX |-> I64, monitorPositionY |-> I64]

CanvasFlags == [MAIN |-> Bool, ACTIVATE |-> Bool, MIX_AUDIO |-> Bool, SCENE_REF |-> Bool,
                EPHEMERAL |-> Bool]

CanvasVideoSettings == [fpsNumerator |-> Option(I64), fpsDenominator |-> Option(I64),
                        baseWidth |-> Option(I64), baseHeight |-> Option(I64),
                        outputWidth |-> Option(I64), outputHeight |-> Option(I64)]

Canvas == [canvasName |-> String, canvasUuid |-> String,
           canvasFlags |-> Struct("CanvasFlags"),
           canvasVideoSettings |-> Struct("CanvasVideoSettings")]

KeyModifiers == [shift |-> Option(Bool), control |-> Option(Bool), alt |-> Option(Bool),
                 command |-> Option(Bool)]

PropertyItem == [itemName |-> String, itemEnabled |-> Bool, itemValue |-> Value]

InputVolumeMeter == [inputName |-> String, inputUuid |-> String,
                     inputLevelsMul |-> Vec(Vec(F64))]

\* Their names, as the types of fields use them.
Structs ==
    [Scene |-> Scene, SceneItemTransform |-> SceneItemTransform,
     SceneItemTransformPartial |-> SceneItemTransformPartial, SceneItem |-> SceneItem,
     SceneItemIndex |-> SceneItemIndex, Input |-> Input, SourceFilter |-> SourceFilter,
     Transition |-> Transition, OutputFlags |-> OutputFlags, Output |-> Output,
     Monitor |-> Monitor, CanvasFlags |-> CanvasFlags,
     CanvasVideoSettings |-> CanvasVideoSettings, Canvas |-> Canvas,
     KeyModifiers |-> KeyModifiers, PropertyItem |-> PropertyItem,
     InputVolumeMeter |-> InputVolumeMeter]

=============================================================================
