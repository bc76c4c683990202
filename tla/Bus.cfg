CONSTANTS
    fsm = fsm  other = other  audio = audio  llm = llm
    Subs <- MCSubs
    Order <- MCOrder
    Publishers <- MCPublishers
    Policies <- MCPolicies
    Capacity <- MCCapacity
    Script <- MCScript
    Wants <- NotItsOwn
    Reaction <- MCReaction
SPECIFICATION Spec
INVARIANTS DeliveredAsPublished
PROPERTIES  StopIsFinal
\* Once the scripts are published and handled, or the bus is shut down, all is done.
CHECK_DEADLOCK FALSE
