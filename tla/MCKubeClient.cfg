\* Every outcome of the calls ConfigClient makes.
SPECIFICATION Spec
INVARIANT ConfigClientSound
