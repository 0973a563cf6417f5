SPECIFICATION AdminSpec
CONSTANTS
  allowed_tags = {"mantisUser", "mantisJobId"}
  AdminTags = {"mantisUser", "mantisJobId", "nf.app"}
  AdminValues = {"x", "", "number"}
  StartTags <- MCStartTags
PROPERTY CommonTagsTakeEffect
