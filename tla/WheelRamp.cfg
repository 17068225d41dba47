CONSTANTS
    Goals <- WheelGoals
    VEL_SNAP_ZERO = 30
    Kept = {89, 94}
SPECIFICATION FairSpec
PROPERTIES NoHardStep Stops FollowsStrong
