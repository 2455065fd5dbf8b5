\* The program started by make, which has sourced .env before.
SPECIFICATION Spec
CONSTANT Launches <- ByMake
PROPERTY MakeKeepsOrder
