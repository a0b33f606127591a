\* motion/motion.md:53: motion is a large difference of pixels.
SPECIFICATION Spec
CONSTANTS
    Pixels <- MCPixels
    Frames <- MCDimmed
    PixelDiffThreshold = 50
    QuietPixels = 1
    PublishCooldown = 2
    MaxTime = 0
    MaxFrames = 3
    MaxRestarts = 0
PROPERTIES
    MotionIsLargeDifference
