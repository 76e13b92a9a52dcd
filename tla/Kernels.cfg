SPECIFICATION Spec
CONSTANTS
    SmallW = 3
    KernelW = 8
    NoiseW = 12
    SumW = 4
    FileW = 6
    StackSize = 8
    ImageWidth = 6
    ImageHeight = 5
INVARIANTS FixedOK GraphicsOK TransformsOK ChecksumOK CodegenOK TlfOK
