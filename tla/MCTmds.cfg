CONSTANT
    Data <- MCData
SPECIFICATION EncoderSpec
INVARIANTS
    VideoDecodes
    TallyIsDisparity
