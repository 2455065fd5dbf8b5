\* A run interrupted after its first look at the context.
SPECIFICATION Spec
CONSTANT Launches <- Started
PROPERTY InterruptedIsReported
