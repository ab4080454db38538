CONSTANTS
  FrameKinds <- MCFrameKinds
  MaxFrames = 3
  MaxFrameLen = 2
  MaxProcessed = 2
  MaxWrites = 1

SPECIFICATION Spec

INVARIANT TypeOK
INVARIANT CursorOnFrame
INVARIANT HandledInOrder

PROPERTY BoundedPerTick
PROPERTY FramesHandled
